---------------------------- MODULE BotJobsProofs ----------------------------
(***************************************************************************)
(* Theorems about parts of the bot process: the jobs of the web app that   *)
(* its pollers run (BotJobs), for every set of jobs, kinds, pollers        *)
(* and requests and every timeout that BotJobsAssumption allows; the       *)
(* dialogue in which an admin makes a broadcast (Wizard), for every number *)
(* of taps and drafts; and how the adapters walk a source (Listing), for   *)
(* any vacancies, page and window sizes that ListingAssumption allows.     *)
(***************************************************************************)
EXTENDS BotJobs, Wizard, Listing, FiniteSetTheorems, FunctionTheorems, SequenceTheorems, WellFoundedInduction, TLAPS

\* A poller that is not idle has a job.
BusyPollersHaveJobs == \A p \in Pollers : poller[p].pc # "idle" => poller[p].job \in Jobs

\* What was not claimed was not run.
UnclaimedNeverRan == \A j \in Jobs : job[j].status \in {"none", "queued"} => runs[j] = 0

\* The row of a job that is worked on says so, and nobody else works on it.
Owned ==
    \A p \in Pollers : Working(p) =>
        /\ job[poller[p].job].status = "running"
        /\ \A q \in Pollers : Working(q) /\ poller[q].job = poller[p].job => q = p

\* A row is older than its handler by no more than the wait of the claim, and a
\* handler by no more than its timeout.
RowsAgeWithHandlers ==
    \A p \in Pollers :
        /\ Working(p) => job[poller[p].job].age <= poller[p].age + LockWait
        /\ poller[p].pc = "run" => poller[p].age <= JobTimeout

\* `done`, written or about to be, is the answer of a handler.
DoneMeansReturned ==
    /\ \A j \in Jobs : job[j].status = "done" => j \in returned
    /\ \A p \in Pollers :
          poller[p].pc = "write" /\ poller[p].out = "done" => poller[p].job \in returned

Inv ==
    /\ BotJobsTypeOK
    /\ BusyPollersHaveJobs
    /\ UnclaimedNeverRan
    /\ JobsRunOnce
    /\ Owned
    /\ RowsAgeWithHandlers
    /\ DoneMeansReturned

-----------------------------------------------------------------------------
(***************************************************************************)
(* Rows and pollers.                                                       *)
(***************************************************************************)

\* The ages a handler and a row may have.
LEMMA AgesFit ==
    /\ 0 \in Ages /\ 0..LockWait \subseteq Ages
    /\ 0 \in 0..(JobTimeout + 2 * LockWait)
    /\ JobTimeout \in Nat /\ LockWait \in Nat /\ StaleAfter \in Nat /\ MaxFaults \in Nat
    /\ JobTimeout + 3 * LockWait < StaleAfter
  BY BotJobsAssumption DEF Ages

\* A row with another status and age is a row.
LEMMA RowUpdate ==
    ASSUME NEW row \in Job, NEW status \in {"none", "queued", "running", "done", "failed"},
           NEW age \in Ages
    PROVE  /\ [row EXCEPT !.status = status, !.age = age] \in Job
           /\ [row EXCEPT !.age = age] \in Job
  BY DEF Job, Final

\* A poller in another place is a poller.
LEMMA PollerUpdate ==
    ASSUME NEW at \in Poller, NEW pc \in {"idle", "claim", "run", "write"}, NEW out \in Final,
           NEW age \in 0..(JobTimeout + 2 * LockWait), NEW j \in Jobs \cup {NoJob}
    PROVE  /\ [at EXCEPT !.pc = pc, !.out = out] \in Poller
           /\ [at EXCEPT !.out = out] \in Poller
           /\ [at EXCEPT !.age = age] \in Poller
           /\ [at EXCEPT !.pc = pc, !.job = j] \in Poller
  BY DEF Poller

LEMMA IdleIsAPoller == AtIdle \in Poller
  BY AgesFit DEF AtIdle, Poller, Final

LEMMA NoRowIsARow == NoRow \in Job
  BY AgesFit DEF NoRow, Job, Final

\* A row that is worked on is not stale: its claim, its handler and the writes
\* of its result fit into StaleAfter.
LEMMA LiveRowsAreNotStale ==
    ASSUME Inv, NEW p \in Pollers, Working(p)
    PROVE  /\ poller[p].job \in Jobs
           /\ job[poller[p].job].status = "running"
           /\ job[poller[p].job].age < StaleAfter
           /\ ~Stale(poller[p].job)
<1>1. poller[p].job \in Jobs
  BY DEF Inv, BusyPollersHaveJobs, Working
<1>2. /\ poller[p].age \in Nat /\ poller[p].age <= JobTimeout + 2 * LockWait
      /\ job[poller[p].job].age \in Nat
  BY <1>1, AgesFit DEF Inv, BotJobsTypeOK, Poller, Job, Ages
<1>3. job[poller[p].job].age <= poller[p].age + LockWait
  BY DEF Inv, RowsAgeWithHandlers
<1>4. job[poller[p].job].age < StaleAfter
  BY <1>2, <1>3, AgesFit
<1> QED BY <1>1, <1>2, <1>4, AgesFit DEF Stale, Inv, Owned

-----------------------------------------------------------------------------
LEMMA InitInv == Init => Inv
<1> SUFFICES ASSUME Init PROVE Inv
  OBVIOUS
<1>1. BotJobsTypeOK
  BY NoRowIsARow, IdleIsAPoller, AgesFit DEF Init, BotJobsTypeOK
<1>2. BusyPollersHaveJobs /\ Owned /\ RowsAgeWithHandlers
  BY DEF Init, AtIdle, BusyPollersHaveJobs, Owned, RowsAgeWithHandlers, Working
<1>3. UnclaimedNeverRan /\ JobsRunOnce
  BY DEF Init, UnclaimedNeverRan, JobsRunOnce
<1>4. DoneMeansReturned
  BY DEF Init, NoRow, AtIdle, DoneMeansReturned
<1> QED BY <1>1, <1>2, <1>3, <1>4 DEF Inv

-----------------------------------------------------------------------------
(***************************************************************************)
(* The steps of the API.                                                   *)
(***************************************************************************)

\* A request that looks at the queue changes nothing the invariant is about.
LEMMA FindKeepsInv ==
    ASSUME Inv, NEW c \in Callers, FindNothingPending(c)
    PROVE  Inv'
<1> USE DEF FindNothingPending
<1>1. BotJobsTypeOK'
  BY DEF Inv, BotJobsTypeOK
<1>2. (BusyPollersHaveJobs /\ UnclaimedNeverRan /\ JobsRunOnce)'
  BY DEF Inv, BusyPollersHaveJobs, UnclaimedNeverRan, JobsRunOnce
<1>3. (Owned /\ RowsAgeWithHandlers /\ DoneMeansReturned)'
  BY DEF Inv, Owned, RowsAgeWithHandlers, DoneMeansReturned, Working
<1> QED BY <1>1, <1>2, <1>3 DEF Inv

\* An INSERT makes a row that nobody works on.
LEMMA InsertKeepsInv ==
    ASSUME Inv, NEW j \in Jobs, NEW kind \in Kinds \cup {PostNow}, Insert(j, kind),
           UNCHANGED <<poller, runs, returned, faults>>, caller' \in [Callers -> BOOLEAN]
    PROVE  Inv'
<1>1. /\ job[j].status = "none" /\ job' \in [Jobs -> Job]
      /\ job'[j].status = "queued"
      /\ \A i \in Jobs : i # j => job'[i] = job[i]
  <2>1. [NoRow EXCEPT !.status = "queued", !.kind = kind] \in Job
    BY AgesFit DEF NoRow, Job
  <2>2. [NoRow EXCEPT !.status = "queued", !.kind = kind].status = "queued"
    BY DEF NoRow
  <2> QED BY <2>1, <2>2 DEF Insert, Inv, BotJobsTypeOK
<1>2. BotJobsTypeOK'
  BY <1>1 DEF Inv, BotJobsTypeOK
<1>3. \A p \in Pollers : Working(p) => poller[p].job \in Jobs /\ poller[p].job # j
  BY <1>1, LiveRowsAreNotStale
<1>4. (BusyPollersHaveJobs /\ UnclaimedNeverRan /\ JobsRunOnce)'
  BY <1>1 DEF Inv, BusyPollersHaveJobs, UnclaimedNeverRan, JobsRunOnce
<1>5. (Owned /\ RowsAgeWithHandlers)'
  BY <1>1, <1>3 DEF Inv, Owned, RowsAgeWithHandlers, Working
<1>6. DoneMeansReturned'
  BY <1>1 DEF Inv, DoneMeansReturned
<1> QED BY <1>2, <1>4, <1>5, <1>6 DEF Inv

-----------------------------------------------------------------------------
(***************************************************************************)
(* The steps of a poller.                                                  *)
(***************************************************************************)

\* The reaper touches nothing that is worked on.
LEMMA ReapKeepsInv ==
    ASSUME Inv, NEW p \in Pollers, Reap(p)
    PROVE  Inv'
<1>1. /\ job' \in [Jobs -> Job]
      /\ \A j \in Jobs : ~Stale(j) => job'[j] = job[j]
      /\ \A j \in Jobs : Stale(j) => job'[j].status = "failed" /\ job[j].status = "running"
  <2>1. ASSUME NEW j \in Jobs
        PROVE  [job[j] EXCEPT !.status = "failed", !.age = 0] \in Job
    BY AgesFit, RowUpdate DEF Inv, BotJobsTypeOK
  <2>2. ASSUME NEW j \in Jobs
        PROVE  [job[j] EXCEPT !.status = "failed", !.age = 0].status = "failed"
    BY DEF Inv, BotJobsTypeOK, Job
  <2> QED BY <2>1, <2>2 DEF Reap, Inv, BotJobsTypeOK, Stale
<1>2. BotJobsTypeOK'
  BY <1>1 DEF Reap, Inv, BotJobsTypeOK
<1>3. \A q \in Pollers : Working(q) =>
        poller[q].job \in Jobs /\ job'[poller[q].job] = job[poller[q].job]
  BY <1>1, LiveRowsAreNotStale
<1>4. (BusyPollersHaveJobs /\ UnclaimedNeverRan /\ JobsRunOnce)'
  BY <1>1, ZenonT(60) DEF Reap, Inv, BusyPollersHaveJobs, UnclaimedNeverRan, JobsRunOnce
<1>5. (Owned /\ RowsAgeWithHandlers)'
  BY <1>3 DEF Reap, Inv, Owned, RowsAgeWithHandlers, Working
<1>6. DoneMeansReturned'
  BY <1>1 DEF Reap, Inv, DoneMeansReturned
<1> QED BY <1>2, <1>4, <1>5, <1>6 DEF Inv

\* A poller that is not working, or stops working, disturbs nothing.
LEMMA PollerLeavesKeepsInv ==
    ASSUME Inv, NEW p \in Pollers, NEW at \in Poller, at.pc \in {"idle", "claim"},
           at.pc # "idle" => at.job \in Jobs,
           poller' = [poller EXCEPT ![p] = at],
           UNCHANGED <<job, caller, runs, returned>>, faults' \in 0..MaxFaults
    PROVE  Inv'
<1>1. BotJobsTypeOK'
  BY DEF Inv, BotJobsTypeOK
<1>2. \A q \in Pollers : /\ q # p => poller'[q] = poller[q]
                         /\ poller'[p] = at
  BY DEF Inv, BotJobsTypeOK
<1>3. (BusyPollersHaveJobs /\ UnclaimedNeverRan /\ JobsRunOnce)'
  BY <1>2 DEF Inv, BusyPollersHaveJobs, UnclaimedNeverRan, JobsRunOnce
<1>4. (Owned /\ RowsAgeWithHandlers /\ DoneMeansReturned)'
  BY <1>2 DEF Inv, Owned, RowsAgeWithHandlers, DoneMeansReturned, Working
<1> QED BY <1>1, <1>3, <1>4 DEF Inv

\* A claim takes a queued job, which nobody works on and nobody ran.
LEMMA ClaimKeepsInv ==
    ASSUME Inv, NEW p \in Pollers, NEW waited \in 0..LockWait, Claim(p, waited)
    PROVE  Inv'
<1> DEFINE j == poller[p].job
           pc == IF job[j].kind # "unknown" THEN "run" ELSE "write"
           at == [AtIdle EXCEPT !.pc = pc, !.job = j]
<1>1. j \in Jobs /\ job[j].status = "queued" /\ ~Working(p)
  BY DEF Claim, Claimable, Inv, BusyPollersHaveJobs, Working
<1>2. /\ at \in Poller /\ at.pc = pc /\ at.job = j /\ at.age = 0 /\ at.out = "failed"
      /\ pc \in {"run", "write"}
  <2>1. pc \in {"run", "write"} /\ "failed" \in Final
    BY SMTT(40) DEF Final
  <2> HIDE DEF pc
  <2>2. at \in Poller
    BY <1>1, <2>1, IdleIsAPoller, AgesFit, PollerUpdate, ZenonT(60)
  <2> QED BY <2>1, <2>2 DEF AtIdle
<1>3. /\ poller' = [poller EXCEPT ![p] = at]
      /\ poller' \in [Pollers -> Poller]
      /\ poller'[p] = at
      /\ \A q \in Pollers : q # p => poller'[q] = poller[q]
  BY <1>2 DEF Claim, Inv, BotJobsTypeOK
<1>4. /\ job' \in [Jobs -> Job]
      /\ job'[j].status = "running" /\ job'[j].age = waited
      /\ \A i \in Jobs : i # j => job'[i] = job[i]
  <2>1. waited \in Ages
    BY AgesFit
  <2>2. [job[j] EXCEPT !.status = "running", !.age = waited] \in Job
    BY <1>1, <2>1, RowUpdate DEF Inv, BotJobsTypeOK
  <2>3. /\ [job[j] EXCEPT !.status = "running", !.age = waited].status = "running"
        /\ [job[j] EXCEPT !.status = "running", !.age = waited].age = waited
    BY <1>1 DEF Inv, BotJobsTypeOK, Job
  <2> QED BY <1>1, <2>2, <2>3 DEF Claim, SetRow, Inv, BotJobsTypeOK
<1>5. /\ runs' \in [Jobs -> Nat] /\ runs'[j] <= 1
      /\ \A i \in Jobs : i # j => runs'[i] = runs[i]
  <2>1. runs[j] = 0
    BY <1>1 DEF Inv, UnclaimedNeverRan
  <2> QED BY <1>1, <2>1 DEF Claim, Inv, BotJobsTypeOK
<1>6. \A q \in Pollers : Working(q) => poller[q].job \in Jobs /\ poller[q].job # j
  BY <1>1, LiveRowsAreNotStale
<1> HIDE DEF j, pc, at
<1>7. BotJobsTypeOK'
  BY <1>3, <1>4, <1>5 DEF Claim, Inv, BotJobsTypeOK
<1>8. BusyPollersHaveJobs'
  BY <1>1, <1>2, <1>3 DEF Inv, BusyPollersHaveJobs
<1>9. (UnclaimedNeverRan /\ JobsRunOnce)'
  BY <1>4, <1>5 DEF Inv, UnclaimedNeverRan, JobsRunOnce
<1>10. Owned'
  BY <1>2, <1>3, <1>4, <1>6 DEF Inv, Owned, Working
<1>11. RowsAgeWithHandlers'
  <2>1. poller'[p].age = 0 /\ poller'[p].job = j /\ waited <= 0 + LockWait /\ 0 <= JobTimeout
    BY <1>2, <1>3, AgesFit
  <2> QED BY <2>1, <1>3, <1>4, <1>6 DEF Inv, RowsAgeWithHandlers, Working
<1>12. DoneMeansReturned'
  BY <1>2, <1>3, <1>4 DEF Claim, Inv, DoneMeansReturned
<1> QED BY <1>7, <1>8, <1>9, <1>10, <1>11, <1>12 DEF Inv

\* A poller that keeps its job and its age, and writes its result next, disturbs
\* nothing, if `done` is the answer of the handler.
LEMMA WritesNextKeepsInv ==
    ASSUME Inv, NEW p \in Pollers, Working(p), NEW at \in Poller,
           at.pc = "write", at.job = poller[p].job, at.age = poller[p].age,
           poller' = [poller EXCEPT ![p] = at],
           returned \subseteq returned', returned' \subseteq Jobs,
           at.out = "done" => at.job \in returned',
           UNCHANGED <<job, caller, runs>>, faults' \in 0..MaxFaults
    PROVE  Inv'
<1>1. BotJobsTypeOK'
  BY DEF Inv, BotJobsTypeOK
<1>2. /\ \A q \in Pollers : q # p => poller'[q] = poller[q]
      /\ poller'[p] = at
  BY DEF Inv, BotJobsTypeOK
<1>3. (BusyPollersHaveJobs /\ UnclaimedNeverRan /\ JobsRunOnce)'
  BY <1>2 DEF Inv, BusyPollersHaveJobs, UnclaimedNeverRan, JobsRunOnce, Working
<1>4. (Owned /\ RowsAgeWithHandlers)'
  BY <1>2 DEF Inv, Owned, RowsAgeWithHandlers, Working
<1>5. DoneMeansReturned'
  BY <1>2 DEF Inv, DoneMeansReturned
<1> QED BY <1>1, <1>3, <1>4, <1>5 DEF Inv

LEMMA FinishKeepsInv ==
    ASSUME Inv, NEW p \in Pollers, NEW out \in Final, Finish(p, out)
    PROVE  Inv'
<1> DEFINE at == [poller[p] EXCEPT !.pc = "write", !.out = out]
<1>1. poller[p] \in Poller /\ poller[p].job \in Jobs /\ Working(p)
  BY DEF Finish, Inv, BotJobsTypeOK, BusyPollersHaveJobs, Working
<1>2. at \in Poller
  BY <1>1, AgesFit, PollerUpdate, ZenonT(60)
<1>3. /\ at.pc = "write" /\ at.job = poller[p].job /\ at.age = poller[p].age
      /\ at.out = out
  BY <1>1 DEF Poller
<1>4. poller' = [poller EXCEPT ![p] = at]
  BY DEF Finish
<1>5. /\ returned \subseteq returned' /\ returned' \subseteq Jobs
      /\ out = "done" => poller[p].job \in returned'
  BY <1>1 DEF Finish, Inv, BotJobsTypeOK
<1>6. UNCHANGED <<job, caller, runs>> /\ faults' \in 0..MaxFaults
  BY DEF Finish, Inv, BotJobsTypeOK
<1> HIDE DEF at
<1> QED BY <1>1, <1>2, <1>3, <1>4, <1>5, <1>6, WritesNextKeepsInv, ZenonT(60)

LEMMA DoneWriteFailsKeepsInv ==
    ASSUME Inv, NEW p \in Pollers, DoneWriteFails(p)
    PROVE  Inv'
<1> DEFINE at == [poller[p] EXCEPT !.out = "failed"]
<1>1. poller[p] \in Poller /\ Working(p)
  BY DEF DoneWriteFails, Inv, BotJobsTypeOK, Working
<1>2. at \in Poller
  BY <1>1, AgesFit, PollerUpdate, ZenonT(60) DEF Final
<1>3. /\ at.pc = "write" /\ at.job = poller[p].job /\ at.age = poller[p].age
      /\ at.out = "failed"
  BY <1>1 DEF Poller, DoneWriteFails
<1>4. poller' = [poller EXCEPT ![p] = at]
  BY DEF DoneWriteFails
<1>5. UNCHANGED <<job, caller, runs, returned>> /\ faults' \in 0..MaxFaults
  BY AgesFit DEF DoneWriteFails, Fault, Inv, BotJobsTypeOK
<1>6. returned \subseteq Jobs
  BY DEF Inv, BotJobsTypeOK
<1> HIDE DEF at
<1> QED BY <1>1, <1>2, <1>3, <1>4, <1>5, <1>6, WritesNextKeepsInv, ZenonT(60)

\* The row of a job that ends, and the poller that lets go of it: its result is
\* written, or its shutdown.
LEMMA EndingKeepsInv ==
    ASSUME Inv, NEW p \in Pollers, Working(p), NEW status \in Final,
           status = "done" => poller[p].job \in returned,
           SetRow(poller[p].job, status, 0),
           poller' = [poller EXCEPT ![p] = AtIdle],
           UNCHANGED <<caller, runs, returned>>, faults' \in 0..MaxFaults
    PROVE  Inv'
<1> DEFINE j == poller[p].job
<1>1. j \in Jobs /\ job[j].status = "running"
  BY LiveRowsAreNotStale
<1>2. /\ job' \in [Jobs -> Job]
      /\ job'[j].status = status
      /\ \A i \in Jobs : i # j => job'[i] = job[i]
  <2>1. [job[j] EXCEPT !.status = status, !.age = 0] \in Job
    BY <1>1, AgesFit, RowUpdate DEF Inv, BotJobsTypeOK, Final
  <2>2. [job[j] EXCEPT !.status = status, !.age = 0].status = status
    BY <1>1 DEF Inv, BotJobsTypeOK, Job
  <2> QED BY <1>1, <2>1, <2>2 DEF SetRow, Inv, BotJobsTypeOK
<1>3. /\ poller' \in [Pollers -> Poller]
      /\ poller'[p].pc = "idle"
      /\ \A q \in Pollers : q # p => poller'[q] = poller[q]
  BY IdleIsAPoller DEF AtIdle, Inv, BotJobsTypeOK
<1>4. \A q \in Pollers : q # p /\ Working(q) => poller[q].job \in Jobs /\ poller[q].job # j
  BY LiveRowsAreNotStale DEF Inv, Owned
<1> HIDE DEF j
<1>5. BotJobsTypeOK'
  BY <1>2, <1>3 DEF Inv, BotJobsTypeOK
<1>6. BusyPollersHaveJobs'
  BY <1>3 DEF Inv, BusyPollersHaveJobs
<1>7. (UnclaimedNeverRan /\ JobsRunOnce)'
  BY <1>1, <1>2 DEF Inv, UnclaimedNeverRan, JobsRunOnce, Final
<1>8. (Owned /\ RowsAgeWithHandlers)'
  BY <1>2, <1>3, <1>4 DEF Inv, Owned, RowsAgeWithHandlers, Working
<1>9. DoneMeansReturned'
  <2>1. status = "done" => j \in returned
    BY DEF j
  <2> QED BY <2>1, <1>2, <1>3 DEF Inv, DoneMeansReturned
<1> QED BY <1>5, <1>6, <1>7, <1>8, <1>9 DEF Inv

LEMMA WriteResultKeepsInv ==
    ASSUME Inv, NEW p \in Pollers, WriteResult(p)
    PROVE  Inv'
<1>1. Working(p) /\ poller[p].out \in Final /\ faults' \in 0..MaxFaults
  BY DEF WriteResult, Working, Inv, BotJobsTypeOK, Poller
<1>2. poller[p].out = "done" => poller[p].job \in returned
  BY DEF WriteResult, Inv, DoneMeansReturned
<1>3. /\ SetRow(poller[p].job, poller[p].out, 0)
      /\ poller' = [poller EXCEPT ![p] = AtIdle]
      /\ UNCHANGED <<caller, runs, returned>>
  BY DEF WriteResult
<1> QED BY <1>1, <1>2, <1>3, EndingKeepsInv

LEMMA ShutdownKeepsInv ==
    ASSUME Inv, NEW p \in Pollers, Shutdown(p)
    PROVE  Inv'
<1>1. Working(p) /\ faults' \in 0..MaxFaults
  BY AgesFit DEF Shutdown, Fault, Working, Inv, BotJobsTypeOK
<1>2. job[poller[p].job].status = "running"
  BY <1>1 DEF Inv, Owned
<1>3. /\ SetRow(poller[p].job, "failed", 0)
      /\ poller' = [poller EXCEPT ![p] = AtIdle]
      /\ UNCHANGED <<caller, runs, returned>>
      /\ "failed" \in Final
  BY <1>2 DEF Shutdown, Final
<1> QED BY <1>1, <1>3, EndingKeepsInv

-----------------------------------------------------------------------------
(***************************************************************************)
(* Time.                                                                   *)
(***************************************************************************)

\* Rows and handlers age by the same tick, up to the handler's deadline.
LEMMA TickKeepsInv ==
    ASSUME Inv, Tick
    PROVE  Inv'
<1>1. ASSUME NEW p \in Pollers, Working(p)
      PROVE  /\ poller[p].age + 1 \in 0..(JobTimeout + 2 * LockWait)
             /\ poller[p].pc = "run" => poller[p].age + 1 <= JobTimeout
  <2>1. poller[p].age < Deadline(poller[p].pc) /\ poller[p].age \in Nat
    BY <1>1 DEF Tick, Inv, BotJobsTypeOK, Poller
  <2> QED BY <2>1, AgesFit DEF Deadline
<1>2. ASSUME NEW p \in Pollers
      PROVE  /\ poller'[p] \in Poller
             /\ poller'[p].pc = poller[p].pc /\ poller'[p].job = poller[p].job
             /\ poller'[p].out = poller[p].out
             /\ poller'[p].age = IF Working(p) THEN poller[p].age + 1 ELSE poller[p].age
  <2>1. poller[p] \in Poller
    BY DEF Inv, BotJobsTypeOK
  <2>2. CASE Working(p)
    <3> DEFINE age == poller[p].age + 1
    <3>1. age \in 0..(JobTimeout + 2 * LockWait)
      BY <1>1, <2>2
    <3>2. poller'[p] = [poller[p] EXCEPT !.age = age]
      BY <2>2 DEF Tick
    <3> HIDE DEF age
    <3>3. [poller[p] EXCEPT !.age = age] \in Poller
      BY <2>1, <3>1 DEF Poller
    <3>4. /\ poller'[p] \in Poller
          /\ poller'[p].pc = poller[p].pc /\ poller'[p].job = poller[p].job
          /\ poller'[p].out = poller[p].out /\ poller'[p].age = age
      BY <2>1, <3>2, <3>3 DEF Poller
    <3> QED BY <2>2, <3>4 DEF age
  <2>3. CASE ~Working(p)
    BY <2>1, <2>3 DEF Tick
  <2> QED BY <2>2, <2>3
<1>3. ASSUME NEW j \in Jobs
      PROVE  /\ job'[j] \in Job
             /\ job'[j].status = job[j].status
             /\ job'[j].age <= job[j].age + 1
  <2>1. job[j] \in Job /\ job[j].age \in Nat
    BY DEF Inv, BotJobsTypeOK, Job, Ages
  <2>2. CASE job[j].status = "running" /\ job[j].age <= StaleAfter
    <3> DEFINE age == job[j].age + 1
    <3>1. age \in Ages /\ age <= job[j].age + 1
      BY <2>1, <2>2, AgesFit DEF Ages
    <3>2. job'[j] = [job[j] EXCEPT !.age = age]
      BY <2>2 DEF Tick
    <3> HIDE DEF age
    <3>3. [job[j] EXCEPT !.age = age] \in Job
      BY <2>1, <3>1 DEF Job
    <3>4. job'[j] \in Job /\ job'[j].status = job[j].status /\ job'[j].age = age
      BY <2>1, <3>2, <3>3 DEF Job
    <3> QED BY <3>1, <3>4
  <2>3. CASE ~(job[j].status = "running" /\ job[j].age <= StaleAfter)
    BY <2>1, <2>3 DEF Tick
  <2> QED BY <2>2, <2>3
<1>4. BotJobsTypeOK'
  <2>1. job' \in [Jobs -> Job]
    BY <1>3 DEF Tick
  <2>2. poller' \in [Pollers -> Poller]
    BY <1>2 DEF Tick
  <2> QED BY <2>1, <2>2 DEF Tick, Inv, BotJobsTypeOK
<1>5. (BusyPollersHaveJobs /\ UnclaimedNeverRan /\ JobsRunOnce)'
  BY <1>2, <1>3 DEF Tick, Inv, BusyPollersHaveJobs, UnclaimedNeverRan, JobsRunOnce
<1>6. Owned'
  BY <1>2, <1>3, LiveRowsAreNotStale DEF Inv, Owned, Working
<1>7. RowsAgeWithHandlers'
  <2>1. ASSUME NEW p \in Pollers, Working(p)'
        PROVE  job'[poller'[p].job].age <= poller'[p].age + LockWait
    <3>1. Working(p)
      BY <2>1, <1>2 DEF Working
    <3>2. poller[p].job \in Jobs /\ poller'[p].job = poller[p].job
      BY <3>1, <1>2, LiveRowsAreNotStale
    <3>3. /\ job'[poller[p].job].age <= job[poller[p].job].age + 1
          /\ job'[poller[p].job].age \in Nat /\ job[poller[p].job].age \in Nat
          /\ poller[p].age \in Nat /\ poller'[p].age = poller[p].age + 1
      BY <3>1, <3>2, <1>2, <1>3 DEF Inv, BotJobsTypeOK, Job, Poller, Ages
    <3>4. job[poller[p].job].age <= poller[p].age + LockWait
      BY <3>1 DEF Inv, RowsAgeWithHandlers
    <3> QED BY <3>2, <3>3, <3>4, AgesFit
  <2>2. ASSUME NEW p \in Pollers, poller'[p].pc = "run"
        PROVE  poller'[p].age <= JobTimeout
    BY <2>2, <1>1, <1>2 DEF Working
  <2> QED BY <2>1, <2>2 DEF RowsAgeWithHandlers
<1>8. DoneMeansReturned'
  BY <1>2, <1>3 DEF Tick, Inv, DoneMeansReturned
<1> QED BY <1>4, <1>5, <1>6, <1>7, <1>8 DEF Inv

-----------------------------------------------------------------------------
(***************************************************************************)
(* The theorems.                                                           *)
(***************************************************************************)

LEMMA PollerStepKeepsInv ==
    ASSUME Inv, NEW p \in Pollers, PollerStep(p)
    PROVE  Inv'
<1>1. CASE ReadQueued(p)
  <2>1. PICK j \in Queued : poller' = [poller EXCEPT ![p] = [AtIdle EXCEPT !.pc = "claim", !.job = j]]
    BY <1>1 DEF ReadQueued
  <2>2. j \in Jobs
    BY DEF Queued
  <2> DEFINE at == [AtIdle EXCEPT !.pc = "claim", !.job = j]
  <2>3. at \in Poller
    BY <2>2, IdleIsAPoller, AgesFit, PollerUpdate, ZenonT(60) DEF Final
  <2>4. at.pc = "claim" /\ at.job = j
    BY DEF AtIdle
  <2>5. UNCHANGED <<job, caller, runs, returned>> /\ faults' \in 0..MaxFaults
    BY <1>1 DEF ReadQueued, Inv, BotJobsTypeOK
  <2> HIDE DEF at
  <2>6. poller' = [poller EXCEPT ![p] = at]
    BY <2>1 DEF at
  <2> QED BY <2>2, <2>3, <2>4, <2>5, <2>6, PollerLeavesKeepsInv, ZenonT(60)
<1>2. CASE LoseClaim(p)
  <2>1. UNCHANGED <<job, caller, runs, returned>> /\ faults' \in 0..MaxFaults
    BY <1>2 DEF LoseClaim, Inv, BotJobsTypeOK
  <2>2. AtIdle.pc = "idle" /\ poller' = [poller EXCEPT ![p] = AtIdle]
    BY <1>2 DEF LoseClaim, AtIdle
  <2> QED BY <2>1, <2>2, IdleIsAPoller, PollerLeavesKeepsInv
<1>3. CASE WriteResult(p)
  BY <1>3, WriteResultKeepsInv
<1>4. CASE \E waited \in 0..LockWait : Claim(p, waited)
  BY <1>4, ClaimKeepsInv
<1>5. CASE \E out \in Final : Finish(p, out)
  BY <1>5, FinishKeepsInv
<1> QED BY <1>1, <1>2, <1>3, <1>4, <1>5 DEF PollerStep

LEMMA DieKeepsInv ==
    ASSUME Inv, NEW p \in Pollers, Die(p)
    PROVE  Inv'
<1>1. UNCHANGED <<job, caller, runs, returned>> /\ faults' \in 0..MaxFaults
  BY AgesFit DEF Die, Fault, Inv, BotJobsTypeOK
<1>2. AtIdle.pc = "idle" /\ poller' = [poller EXCEPT ![p] = AtIdle]
  BY DEF Die, AtIdle
<1> QED BY <1>1, <1>2, IdleIsAPoller, PollerLeavesKeepsInv

LEMMA NextKeepsInv == Inv /\ [Next]_vars => Inv'
<1> SUFFICES ASSUME Inv, [Next]_vars PROVE Inv'
  OBVIOUS
<1>1. ASSUME NEW c \in Callers, FindNothingPending(c) PROVE Inv'
  BY <1>1, FindKeepsInv
<1>2. ASSUME NEW c \in Callers, NEW j \in Jobs, EnqueuePostNow(c, j) PROVE Inv'
  <2>1. caller' \in [Callers -> BOOLEAN]
    BY <1>2 DEF EnqueuePostNow, Inv, BotJobsTypeOK
  <2>2. Insert(j, PostNow) /\ UNCHANGED <<poller, runs, returned, faults>>
    BY <1>2 DEF EnqueuePostNow
  <2> QED BY <2>1, <2>2, InsertKeepsInv
<1>3. ASSUME NEW j \in Jobs, NEW kind \in Kinds, EnqueueJob(j, kind) PROVE Inv'
  <2>1. caller' \in [Callers -> BOOLEAN]
    BY <1>3 DEF EnqueueJob, Inv, BotJobsTypeOK
  <2>2. Insert(j, kind) /\ UNCHANGED <<poller, runs, returned, faults>>
    BY <1>3 DEF EnqueueJob
  <2> QED BY <2>1, <2>2, InsertKeepsInv
<1>4. ASSUME NEW p \in Pollers, PollerStep(p) PROVE Inv'
  BY <1>4, PollerStepKeepsInv
<1>5. ASSUME NEW p \in Pollers, Reap(p) \/ DoneWriteFails(p) \/ Shutdown(p) \/ Die(p) PROVE Inv'
  BY <1>5, ReapKeepsInv, DoneWriteFailsKeepsInv, ShutdownKeepsInv, DieKeepsInv
<1>6. CASE Tick
  BY <1>6, TickKeepsInv
<1>7. CASE UNCHANGED vars
  <2>1. (BotJobsTypeOK /\ BusyPollersHaveJobs /\ UnclaimedNeverRan /\ JobsRunOnce)'
    BY <1>7 DEF vars, Inv, BotJobsTypeOK, BusyPollersHaveJobs, UnclaimedNeverRan, JobsRunOnce
  <2>2. (Owned /\ RowsAgeWithHandlers /\ DoneMeansReturned)'
    BY <1>7 DEF vars, Inv, Owned, RowsAgeWithHandlers, DoneMeansReturned, Working
  <2> QED BY <2>1, <2>2 DEF Inv
<1> QED BY <1>1, <1>2, <1>3, <1>4, <1>5, <1>6, <1>7 DEF Next

\* The invariant holds of every reachable state.
THEOREM Invariant == Spec => []Inv
  BY InitInv, NextKeepsInv, PTL DEF Spec

\* The queue's rows, pollers and requests keep their types.
THEOREM TypeCorrect == Spec => []BotJobsTypeOK
<1>1. Inv => BotJobsTypeOK
  BY DEF Inv
<1> QED BY Invariant, <1>1, PTL

\* Whatever pollers race, die or time out, a job's handler is started once.
THEOREM JobsAreRunOnce == Spec => []JobsRunOnce
<1>1. Inv => JobsRunOnce
  BY DEF Inv
<1> QED BY Invariant, <1>1, PTL

\* STALE_JOB_SECONDS is enough: a job that is being run is never taken for dead.
THEOREM LiveJobsAreNotReaped == Spec => []LiveJobsAreHeld
<1>1. Inv => LiveJobsAreHeld
  BY LiveRowsAreNotStale DEF Inv, Owned, LiveJobsAreHeld
<1> QED BY Invariant, <1>1, PTL

\* A step changes no row that has ended, and writes `done` only for a handler
\* that returned.
LEMMA StepsKeepResults ==
    Inv /\ [Next]_vars => [\A j \in Jobs : ResultStands(j)]_job
<1> SUFFICES ASSUME Inv, Next, job' # job, NEW j \in Jobs
             PROVE  ResultStands(j)
  BY DEF vars
<1> USE DEF ResultStands
<1>1. \A p \in Pollers : Working(p) =>
        poller[p].job \in Jobs /\ job[poller[p].job].status = "running"
  BY LiveRowsAreNotStale
<1>2. job[j].status = "done" => j \in returned
  BY DEF Inv, DoneMeansReturned
<1>3. returned' = returned => (job'[j].status = "done" => j \in returned)
  BY NextKeepsInv DEF Inv, DoneMeansReturned
<1>4. ASSUME NEW i \in Jobs, NEW kind \in Kinds \cup {PostNow}, Insert(i, kind),
             returned' = returned
      PROVE  ResultStands(j)
  BY <1>3, <1>4 DEF Insert, Final, Inv, BotJobsTypeOK
<1>5. ASSUME NEW i \in Jobs, NEW status, NEW age, SetRow(i, status, age),
             job[i].status \notin Final, returned' = returned
      PROVE  ResultStands(j)
  BY <1>3, <1>5 DEF SetRow, Inv, BotJobsTypeOK
<1>6. ASSUME NEW p \in Pollers, PollerStep(p)
      PROVE  ResultStands(j)
  <2>1. CASE WriteResult(p)
    <3>1. Working(p) /\ SetRow(poller[p].job, poller[p].out, 0) /\ returned' = returned
      BY <2>1 DEF WriteResult, Working
    <3>2. poller[p].job \in Jobs /\ job[poller[p].job].status \notin Final
      BY <3>1, <1>1 DEF Final
    <3> QED BY <3>1, <3>2, <1>5
  <2>2. CASE \E waited \in 0..LockWait : Claim(p, waited)
    <3>1. PICK waited \in 0..LockWait : Claim(p, waited)
      BY <2>2
    <3>2. poller[p].job \in Jobs /\ job[poller[p].job].status \notin Final
      BY <3>1 DEF Claim, Claimable, Final, Inv, BusyPollersHaveJobs
    <3>3. SetRow(poller[p].job, "running", waited) /\ returned' = returned
      BY <3>1 DEF Claim
    <3> QED BY <3>2, <3>3, <1>5
  <2>3. CASE ReadQueued(p) \/ LoseClaim(p) \/ \E out \in Final : Finish(p, out)
    BY <2>3 DEF ReadQueued, LoseClaim, Finish
  <2> QED BY <1>6, <2>1, <2>2, <2>3 DEF PollerStep
<1>7. ASSUME NEW p \in Pollers, Reap(p) \/ DoneWriteFails(p) \/ Shutdown(p) \/ Die(p)
      PROVE  ResultStands(j)
  <2>1. CASE Reap(p)
    BY <2>1, <1>3 DEF Reap, Stale, Final
  <2>2. CASE Shutdown(p)
    <3>1. Working(p) /\ SetRow(poller[p].job, "failed", 0) /\ returned' = returned
      BY <2>2 DEF Shutdown, Working
    <3>2. poller[p].job \in Jobs /\ job[poller[p].job].status \notin Final
      BY <3>1, <1>1 DEF Final
    <3> QED BY <3>1, <3>2, <1>5
  <2>3. CASE DoneWriteFails(p) \/ Die(p)
    BY <2>3 DEF DoneWriteFails, Die
  <2> QED BY <1>7, <2>1, <2>2, <2>3
<1>8. CASE Tick
  BY <1>8, <1>3 DEF Tick, Final
<1>9. ASSUME NEW c \in Callers, FindNothingPending(c) PROVE FALSE
  BY <1>9 DEF FindNothingPending
<1>10. ASSUME NEW c \in Callers, NEW i \in Jobs, EnqueuePostNow(c, i)
       PROVE  Insert(i, PostNow) /\ returned' = returned
  BY <1>10 DEF EnqueuePostNow
<1>11. ASSUME NEW i \in Jobs, NEW kind \in Kinds, EnqueueJob(i, kind)
       PROVE  Insert(i, kind) /\ returned' = returned
  BY <1>11 DEF EnqueueJob
<1> QED BY <1>4, <1>6, <1>7, <1>8, <1>9, <1>10, <1>11 DEF Next

\* A result never changes, and is true.
THEOREM ResultsStand == Spec => ResultsAreTrue
  BY Invariant, StepsKeepResults, PTL DEF Spec, ResultsAreTrue

-----------------------------------------------------------------------------
(***************************************************************************)
(* Wizard.                                                                 *)
(***************************************************************************)
Places == {"idle", "data", "state", "act", "making", "made",
           "preview", "discard", "load", "loaded"}
Statuses == {"none", "draft", "queued", "cancelled"}
Looking == {"data", "state", "act"}
Shaping == {"made", "preview", "discard"}
OnDraft == Shaping \cup {"load", "loaded"}

\* Taps and drafts belong to dialogues that have begun, and a handler that works
\* on a draft has one.
WizardShape ==
    /\ storage \in Storages
    /\ wizard.state \in WizardStates /\ wizard.nonce \in Nat
    /\ nonces \in Nat
    /\ tap \in [Taps -> Tap]
    /\ draft \in [Drafts -> Draft]
    /\ \A h \in Taps : /\ tap[h].nonce <= nonces
                       /\ tap[h].at \in OnDraft => tap[h].draft \in Drafts
    /\ \A b \in Drafts : draft[b].nonce <= nonces

\* A tap has claimed dialogue n, or made its draft.
Taken(n) == \/ \E h \in Taps : tap[h].at = "making" /\ tap[h].nonce = n
            \/ \E b \in Drafts : draft[b].nonce = n

Calm(n) == n # 0 /\ n \notin upset

\* In memory: one tap looks at a time, and what it saw still stands.
LooksStand ==
    storage = "memory" => \A h \in Taps :
        /\ tap[h].at \in Looking => \A g \in Taps : tap[g].at \in Looking => g = h
        /\ tap[h].at \in {"state", "act"} /\ tap[h].fresh => wizard.nonce = tap[h].nonce
        /\ tap[h].at = "act" => tap[h].saw = wizard.state

\* In memory: a dialogue is claimed once, and as long as it is the current one
\* it says so.
ClaimsStand ==
    storage = "memory" =>
        /\ \A b, c \in Drafts :
              Calm(draft[b].nonce) /\ draft[b].nonce = draft[c].nonce => b = c
        /\ \A g, h \in Taps :
              /\ tap[g].at = "making" /\ tap[h].at = "making"
              /\ Calm(tap[g].nonce) /\ tap[g].nonce = tap[h].nonce
              => g = h
        /\ \A h \in Taps : tap[h].at = "making" /\ Calm(tap[h].nonce) =>
              \A b \in Drafts : draft[b].nonce # tap[h].nonce
        /\ Calm(wizard.nonce) /\ Taken(wizard.nonce) => wizard.state = "creating"

\* With either storage: what a draft is, nobody has queued or cleaned up.
DraftsStand ==
    \A b \in Drafts :
        /\ draft[b].status = "draft" =>
              /\ draft[b].queued = 0 /\ ~draft[b].cleaned
              /\ draft[b].card \/ draft[b].lost \/ BeingMade(b)
        /\ draft[b].queued <= 1
        /\ draft[b].cleaned => draft[b].queued = 0

WizardInv == WizardShape /\ LooksStand /\ ClaimsStand /\ DraftsStand

LEMMA WizardInvTells == WizardInv => DraftsAreSettled
<1> SUFFICES ASSUME WizardInv PROVE DraftsAreSettled
  OBVIOUS
<1>1. storage = "memory" => OneDraftPerWizard
  BY DEF WizardInv, ClaimsStand, OneDraftPerWizard, Calm
<1> QED BY <1>1 DEF WizardInv, DraftsStand, DraftsAreSettled

LEMMA NoTapIsOne ==
    /\ NoTap \in Tap /\ NoTap.at = "idle" /\ NoTap.nonce = 0
BY WizardAssumption DEF NoTap, Tap, Actions, Nonces, WizardStates

LEMMA NoDraftIsOne ==
    /\ NoDraft \in Draft /\ NoDraft.status = "none" /\ NoDraft.nonce = 0
    /\ NoDraft.queued = 0 /\ ~NoDraft.cleaned
BY DEF NoDraft, Draft, Nonces

LEMMA WizardStarts == WizardInit => WizardInv
<1> SUFFICES ASSUME WizardInit PROVE WizardInv
  OBVIOUS
<1>1. /\ storage \in Storages /\ nonces = 0 /\ wizard.state = "none" /\ wizard.nonce = 0
      /\ tap \in [Taps -> Tap] /\ draft \in [Drafts -> Draft]
      /\ \A h \in Taps : tap[h].at = "idle" /\ tap[h].nonce = 0
      /\ \A b \in Drafts : /\ draft[b].status = "none" /\ draft[b].nonce = 0
                           /\ draft[b].queued = 0 /\ ~draft[b].cleaned
  BY NoTapIsOne, NoDraftIsOne DEF WizardInit, NoWizard
<1>2. WizardShape
  BY <1>1 DEF WizardShape, OnDraft, Shaping, WizardStates
<1>3. LooksStand
  BY <1>1 DEF LooksStand, Looking
<1>4. ClaimsStand /\ DraftsStand
  BY <1>1 DEF ClaimsStand, Calm, DraftsStand
<1> QED BY <1>2, <1>3, <1>4 DEF WizardInv

-----------------------------------------------------------------------------
(***************************************************************************)
(* The records that the steps make.                                        *)
(***************************************************************************)
TapOf(Ats, Acts, Ns, Saws, Ds) ==
    [at: Ats, action: Acts, nonce: Ns, fresh: BOOLEAN, saw: Saws, draft: Ds]

DraftOf(Ss, Ns, Qs) ==
    [status: Ss, nonce: Ns, card: BOOLEAN, queued: Qs, cleaned: BOOLEAN, lost: BOOLEAN]

LEMMA RecordsAre ==
    /\ Tap = TapOf(Places, Actions, Nat, WizardStates, 0..MaxDrafts)
    /\ Draft = DraftOf(Statuses, Nat, Nat)
BY DEF Tap, TapOf, Places, Nonces, Draft, DraftOf, Statuses

MovedTap(t, at) == [t EXCEPT !.at = at]
FreshTap(t, fresh) == [t EXCEPT !.fresh = fresh]
SeenTap(t, saw) == [t EXCEPT !.saw = saw]
DraftTap(t, b) == [t EXCEPT !.draft = b]

LEMMA TapsOf ==
    ASSUME NEW Ats, NEW Acts, NEW Ns, NEW Saws, NEW Ds, NEW t \in TapOf(Ats, Acts, Ns, Saws, Ds),
           NEW at \in Ats, NEW fresh \in BOOLEAN, NEW saw \in Saws, NEW b \in Ds
    PROVE  /\ MovedTap(t, at) \in TapOf(Ats, Acts, Ns, Saws, Ds)
           /\ FreshTap(t, fresh) \in TapOf(Ats, Acts, Ns, Saws, Ds)
           /\ SeenTap(t, saw) \in TapOf(Ats, Acts, Ns, Saws, Ds)
           /\ DraftTap(t, b) \in TapOf(Ats, Acts, Ns, Saws, Ds)
BY DEF TapOf, MovedTap, FreshTap, SeenTap, DraftTap

LEMMA TapMoves ==
    ASSUME NEW t \in Tap, NEW at \in Places
    PROVE  /\ MovedTap(t, at) \in Tap /\ MovedTap(t, at).at = at
           /\ MovedTap(t, at).nonce = t.nonce /\ MovedTap(t, at).draft = t.draft
           /\ MovedTap(t, at).fresh = t.fresh /\ MovedTap(t, at).saw = t.saw
           /\ MovedTap(t, at).action = t.action
<1>1. t.saw \in WizardStates /\ t.draft \in 0..MaxDrafts
  BY DEF Tap
<1>2. MovedTap(t, at) \in Tap
  BY <1>1, RecordsAre, TapsOf
<1> QED BY <1>2 DEF MovedTap, Tap

LEMMA TapReads ==
    ASSUME NEW t \in Tap, NEW fresh \in BOOLEAN
    PROVE  /\ FreshTap(t, fresh) \in Tap /\ FreshTap(t, fresh).fresh = fresh
           /\ FreshTap(t, fresh).nonce = t.nonce /\ FreshTap(t, fresh).draft = t.draft
<1>1. t.saw \in WizardStates /\ t.draft \in 0..MaxDrafts /\ t.at \in Places
  BY DEF Tap, Places
<1>2. FreshTap(t, fresh) \in Tap
  BY <1>1, RecordsAre, TapsOf
<1> QED BY <1>2 DEF FreshTap, Tap

LEMMA TapSees ==
    ASSUME NEW t \in Tap, NEW saw \in WizardStates
    PROVE  /\ SeenTap(t, saw) \in Tap /\ SeenTap(t, saw).saw = saw
           /\ SeenTap(t, saw).nonce = t.nonce /\ SeenTap(t, saw).draft = t.draft
           /\ SeenTap(t, saw).fresh = t.fresh
<1>1. t.draft \in 0..MaxDrafts /\ t.at \in Places
  BY DEF Tap, Places
<1>2. SeenTap(t, saw) \in Tap
  BY <1>1, RecordsAre, TapsOf
<1> QED BY <1>2 DEF SeenTap, Tap

LEMMA TapTakesDraft ==
    ASSUME NEW t \in Tap, NEW b \in 0..MaxDrafts
    PROVE  /\ DraftTap(t, b) \in Tap /\ DraftTap(t, b).draft = b
           /\ DraftTap(t, b).nonce = t.nonce /\ DraftTap(t, b).at = t.at
<1>1. t.saw \in WizardStates /\ t.at \in Places
  BY DEF Tap, Places
<1>2. DraftTap(t, b) \in Tap
  BY <1>1, RecordsAre, TapsOf
<1> QED BY <1>2 DEF DraftTap, Tap

\* A handler moves on, or ends.
LEMMA GoesMoves ==
    ASSUME WizardShape, NEW h \in Taps, NEW at \in Places, Goes(h, at)
    PROVE  /\ tap' \in [Taps -> Tap]
           /\ tap'[h].at = at /\ tap'[h].nonce = tap[h].nonce /\ tap'[h].draft = tap[h].draft
           /\ \A g \in Taps \ {h} : tap'[g] = tap[g]
<1>1. tap \in [Taps -> Tap] /\ tap[h] \in Tap
  BY DEF WizardShape
<1>2. tap' = [tap EXCEPT ![h] = MovedTap(tap[h], at)]
  BY <1>1 DEF Goes, MovedTap
<1> QED BY <1>1, <1>2, TapMoves

LEMMA EndsMoves ==
    ASSUME WizardShape, NEW h \in Taps, Ends(h)
    PROVE  /\ tap' \in [Taps -> Tap] /\ tap'[h].at = "idle" /\ tap'[h].nonce = 0
           /\ \A g \in Taps \ {h} : tap'[g] = tap[g]
BY NoTapIsOne DEF WizardShape, Ends

-----------------------------------------------------------------------------
(***************************************************************************)
(* What leaves each part of the invariant as it is.                        *)
(***************************************************************************)
\* No handler starts to look, and all was quiet.
LEMMA NobodyLooks ==
    ASSUME AllSuspended, UNCHANGED storage,
           \A g \in Taps : tap'[g].at \in Looking => tap[g].at \in Looking
    PROVE  LooksStand'
<1> SUFFICES ASSUME storage = "memory" PROVE LooksStand'
  BY DEF LooksStand
<1>1. \A g \in Taps : tap[g].at \notin Looking
  BY DEF AllSuspended, Running, Looking
<1>2. \A g \in Taps : tap'[g].at \notin Looking
  BY <1>1
<1> QED BY <1>2 DEF LooksStand, Looking

\* No dialogue is claimed or drafted, none is calmed, and the current one is
\* as it was, or has nothing to say.
LEMMA NobodyClaims ==
    ASSUME ClaimsStand, UNCHANGED storage, upset \subseteq upset',
           \A g \in Taps : tap'[g].at = "making" =>
               tap[g].at = "making" /\ tap'[g].nonce = tap[g].nonce,
           \A b \in Drafts : draft'[b].nonce = draft[b].nonce,
           \/ UNCHANGED wizard
           \/ wizard'.nonce = 0 \/ wizard'.nonce \in upset'
           \/ wizard'.state = "creating" \/ ~Taken(wizard.nonce)'
    PROVE  ClaimsStand'
<1> SUFFICES ASSUME storage = "memory" PROVE ClaimsStand'
  BY DEF ClaimsStand
<1>1. /\ \A b, c \in Drafts :
            Calm(draft[b].nonce) /\ draft[b].nonce = draft[c].nonce => b = c
      /\ \A g, h \in Taps :
            /\ tap[g].at = "making" /\ tap[h].at = "making"
            /\ Calm(tap[g].nonce) /\ tap[g].nonce = tap[h].nonce
            => g = h
      /\ \A h \in Taps : tap[h].at = "making" /\ Calm(tap[h].nonce) =>
            \A b \in Drafts : draft[b].nonce # tap[h].nonce
      /\ Calm(wizard.nonce) /\ Taken(wizard.nonce) => wizard.state = "creating"
  BY DEF ClaimsStand
<1>2. (\A b, c \in Drafts : Calm(draft[b].nonce) /\ draft[b].nonce = draft[c].nonce => b = c)'
  BY <1>1 DEF Calm
<1>3. (\A g, h \in Taps :
         /\ tap[g].at = "making" /\ tap[h].at = "making"
         /\ Calm(tap[g].nonce) /\ tap[g].nonce = tap[h].nonce
         => g = h)'
  BY <1>1 DEF Calm
<1>4. (\A h \in Taps : tap[h].at = "making" /\ Calm(tap[h].nonce) =>
         \A b \in Drafts : draft[b].nonce # tap[h].nonce)'
  BY <1>1 DEF Calm
<1>5. (Calm(wizard.nonce) /\ Taken(wizard.nonce) => wizard.state = "creating")'
  BY <1>1 DEF Calm, Taken
<1> QED BY <1>2, <1>3, <1>4, <1>5 DEF ClaimsStand

\* No row changes, and no handler leaves one.
LEMMA NoDraftMoves ==
    ASSUME DraftsStand, UNCHANGED draft,
           \A g \in Taps : tap[g].at \in Shaping =>
               tap'[g].at \in Shaping /\ tap'[g].draft = tap[g].draft
    PROVE  DraftsStand'
<1>1. \A b \in Drafts : BeingMade(b) => BeingMade(b)'
  BY DEF BeingMade, Shaping
<1> QED BY <1>1 DEF DraftsStand

LEMMA OthersShape ==
    ASSUME WizardShape, NEW h \in Taps, NEW b \in Drafts, BeingMade(b),
           \A g \in Taps \ {h} : tap'[g] = tap[g],
           tap[h].draft # b \/ tap[h].at \notin Shaping
    PROVE  BeingMade(b)'
BY DEF BeingMade, Shaping

\* A step of one handler, and of the dialogue.
LEMMA ShapeOfStep ==
    ASSUME WizardShape, NEW h \in Taps, UNCHANGED <<storage, nonces>>,
           wizard'.state \in WizardStates, wizard'.nonce \in Nat,
           tap' \in [Taps -> Tap], tap'[h].nonce <= nonces,
           tap'[h].at \in OnDraft => tap'[h].draft \in Drafts,
           \A g \in Taps \ {h} : tap'[g] = tap[g],
           draft' \in [Drafts -> Draft], \A b \in Drafts : draft'[b].nonce <= nonces
    PROVE  WizardShape'
<1>1. \A g \in Taps : /\ tap'[g].nonce <= nonces
                      /\ tap'[g].at \in OnDraft => tap'[g].draft \in Drafts
  BY DEF WizardShape
<1> QED BY <1>1 DEF WizardShape

\* A dialogue that does not say that it is claimed is not.
LEMMA NotClaimed ==
    ASSUME ClaimsStand, storage = "memory", wizard.state # "creating"
    PROVE  wizard.nonce = 0 \/ wizard.nonce \in upset \/ ~Taken(wizard.nonce)
BY DEF ClaimsStand, Calm

LEMMA WizardFields ==
    ASSUME WizardShape, NEW state \in WizardStates,
           wizard' = [wizard EXCEPT !.state = state]
    PROVE  wizard'.state = state /\ wizard'.nonce = wizard.nonce
BY DEF WizardShape

-----------------------------------------------------------------------------
(***************************************************************************)
(* Messages.                                                               *)
(***************************************************************************)

\* The dialogue changes, and nothing else.
LEMMA MessagesKeep ==
    ASSUME WizardInv, AllSuspended, UNCHANGED <<storage, nonces, upset, tap, draft>>,
           wizard'.state \in WizardStates, wizard'.nonce \in Nat,
           wizard'.nonce = 0 \/ (wizard'.nonce = wizard.nonce /\ wizard.state # "creating")
    PROVE  WizardInv'
<1>1. WizardShape'
  BY DEF WizardInv, WizardShape
<1>2. LooksStand'
  BY NobodyLooks
<1>3. ClaimsStand'
  <2> SUFFICES ASSUME storage = "memory" PROVE ClaimsStand'
    BY DEF ClaimsStand
  <2>1. wizard'.nonce = 0 \/ wizard'.nonce \in upset' \/ ~Taken(wizard.nonce)'
    BY NotClaimed DEF WizardInv, Taken
  <2> QED BY <2>1, NobodyClaims DEF WizardInv
<1>4. DraftsStand'
  BY NoDraftMoves DEF WizardInv
<1> QED BY <1>1, <1>2, <1>3, <1>4 DEF WizardInv

LEMMA DialogueKeeps ==
    ASSUME WizardInv, WizardContent \/ WizardButton \/ LeaveWizard
    PROVE  WizardInv'
<1>2. CASE WizardContent
  <2>1. wizard'.state = "button" /\ wizard'.nonce = wizard.nonce
    BY <1>2, WizardFields DEF WizardContent, WizardInv, WizardStates
  <2> QED BY <1>2, <2>1, MessagesKeep DEF WizardContent, WizardInv, WizardShape, WizardStates
<1>3. CASE WizardButton
  <2>1. wizard'.state = "audience" /\ wizard'.nonce = wizard.nonce
    BY <1>3, WizardFields DEF WizardButton, WizardInv, WizardStates
  <2> QED BY <1>3, <2>1, MessagesKeep DEF WizardButton, WizardInv, WizardShape, WizardStates
<1>4. CASE LeaveWizard
  <2>1. wizard'.state = "none" /\ wizard'.nonce = 0
    BY <1>4 DEF LeaveWizard, NoWizard
  <2> QED BY <1>4, <2>1, MessagesKeep DEF LeaveWizard, WizardStates
<1> QED BY <1>2, <1>3, <1>4

LEMMA WizardStartKeeps ==
    ASSUME WizardInv, WizardStart
    PROVE  WizardInv'
<1>1. /\ AllSuspended /\ UNCHANGED <<storage, upset, tap, draft>>
      /\ nonces' = nonces + 1 /\ wizard'.state = "content" /\ wizard'.nonce = nonces + 1
      /\ nonces \in Nat /\ WizardShape
  BY DEF WizardStart, WizardInv, WizardShape
<1>2. WizardShape'
  <2>1. /\ \A h \in Taps : tap[h].nonce \in Nat /\ tap[h].nonce <= nonces
        /\ \A b \in Drafts : draft[b].nonce \in Nat /\ draft[b].nonce <= nonces
    BY <1>1 DEF WizardShape, Tap, Draft, Nonces
  <2>2. /\ \A h \in Taps : tap[h].nonce <= nonces + 1
        /\ \A b \in Drafts : draft[b].nonce <= nonces + 1
    BY <1>1, <2>1
  <2> QED BY <1>1, <2>2 DEF WizardShape, WizardStates
<1>3. LooksStand'
  BY <1>1, NobodyLooks
<1>4. ClaimsStand'
  <2>1. ~Taken(wizard.nonce)'
    <3>1. ASSUME NEW h \in Taps PROVE tap[h].nonce # nonces + 1
      BY <1>1 DEF WizardShape, Tap, Nonces
    <3>2. ASSUME NEW b \in Drafts PROVE draft[b].nonce # nonces + 1
      BY <1>1 DEF WizardShape, Draft, Nonces
    <3> QED BY <1>1, <3>1, <3>2 DEF Taken
  <2> QED BY <1>1, <2>1, NobodyClaims DEF WizardInv
<1>5. DraftsStand'
  BY <1>1, NoDraftMoves DEF WizardInv
<1> QED BY <1>2, <1>3, <1>4, <1>5 DEF WizardInv

-----------------------------------------------------------------------------
(***************************************************************************)
(* Taps on the dialogue.                                                   *)
(***************************************************************************)
\* A tap as it begins, on the dialogue or on a card.
Tapped(t, at, action, nonce) == [t EXCEPT !.at = at, !.action = action, !.nonce = nonce]
TappedCard(t, at, action, b) == [t EXCEPT !.at = at, !.action = action, !.draft = b]

LEMMA TappedOf ==
    ASSUME NEW Ats, NEW Acts, NEW Ns, NEW Saws, NEW Ds, NEW t \in TapOf(Ats, Acts, Ns, Saws, Ds),
           NEW at \in Ats, NEW action \in Acts, NEW nonce \in Ns, NEW b \in Ds
    PROVE  /\ Tapped(t, at, action, nonce) \in TapOf(Ats, Acts, Ns, Saws, Ds)
           /\ TappedCard(t, at, action, b) \in TapOf(Ats, Acts, Ns, Saws, Ds)
BY DEF TapOf, Tapped, TappedCard

LEMMA TappedIsOne ==
    ASSUME NEW at \in Places, NEW action \in Actions, NEW nonce \in Nat
    PROVE  /\ Tapped(NoTap, at, action, nonce) \in Tap
           /\ Tapped(NoTap, at, action, nonce).at = at
           /\ Tapped(NoTap, at, action, nonce).nonce = nonce
<1>1. NoTap \in Tap /\ 0 \in 0..MaxDrafts
  BY NoTapIsOne, WizardAssumption
<1>2. Tapped(NoTap, at, action, nonce) \in Tap
  BY <1>1, RecordsAre, TappedOf
<1> QED BY <1>1, <1>2 DEF Tapped, Tap

LEMMA TappedCardIsOne ==
    ASSUME NEW at \in Places, NEW action \in Actions, NEW b \in 0..MaxDrafts
    PROVE  /\ TappedCard(NoTap, at, action, b) \in Tap
           /\ TappedCard(NoTap, at, action, b).at = at
           /\ TappedCard(NoTap, at, action, b).nonce = 0
           /\ TappedCard(NoTap, at, action, b).draft = b
<1>1. NoTap \in Tap /\ NoTap.nonce = 0
  BY NoTapIsOne
<1>2. TappedCard(NoTap, at, action, b) \in Tap
  BY <1>1, RecordsAre, TappedOf
<1> QED BY <1>1, <1>2 DEF TappedCard, Tap

LEMMA TapWizardKeeps ==
    ASSUME WizardInv, NEW h \in Taps, NEW action \in Actions, NEW n \in 1..nonces,
           TapWizard(h, action, n)
    PROVE  WizardInv'
<1>1. /\ AllSuspended /\ tap[h].at = "idle" /\ WizardShape /\ nonces \in Nat
      /\ n \in Nat /\ n <= nonces
      /\ UNCHANGED <<storage, wizard, nonces, upset, draft>>
      /\ tap' = [tap EXCEPT ![h] = [NoTap EXCEPT !.at = "data", !.action = action, !.nonce = n]]
  BY DEF TapWizard, WizardInv, WizardShape
<1>2. 0 \in 0..MaxDrafts /\ "data" \in Places
  BY WizardAssumption DEF Places
<1>3. tap' = [tap EXCEPT ![h] = Tapped(NoTap, "data", action, n)]
  BY <1>1 DEF Tapped
<1>4. /\ tap' \in [Taps -> Tap] /\ tap'[h].at = "data" /\ tap'[h].nonce = n
      /\ \A g \in Taps \ {h} : tap'[g] = tap[g]
  <2>1. /\ Tapped(NoTap, "data", action, n) \in Tap
        /\ Tapped(NoTap, "data", action, n).at = "data"
        /\ Tapped(NoTap, "data", action, n).nonce = n
    BY <1>1, <1>2, TappedIsOne
  <2> QED BY <1>1, <1>3, <2>1 DEF WizardShape
<1>5. WizardShape'
  BY <1>1, <1>4, ShapeOfStep DEF WizardShape, OnDraft, Shaping
<1>6. LooksStand'
  <2> SUFFICES ASSUME storage = "memory" PROVE LooksStand'
    BY <1>1 DEF LooksStand
  <2>1. \A g \in Taps \ {h} : tap'[g].at \notin Looking
    BY <1>1, <1>4 DEF AllSuspended, Running, Looking
  <2> QED BY <1>4, <2>1 DEF LooksStand, Looking
<1>7. ClaimsStand'
  BY <1>1, <1>4, NobodyClaims DEF WizardInv
<1>8. DraftsStand'
  BY <1>1, <1>4, NoDraftMoves DEF WizardInv, Shaping
<1> QED BY <1>5, <1>6, <1>7, <1>8 DEF WizardInv

\* In memory, the handler that looks is alone.
LEMMA LooksAlone ==
    ASSUME NEW h \in Taps, Suspended(h), storage = "memory", NEW g \in Taps \ {h}
    PROVE  tap[g].at \notin Looking
BY DEF Suspended, Running, Looking

LEMMA ReadDataKeeps ==
    ASSUME WizardInv, NEW h \in Taps, ReadData(h)
    PROVE  WizardInv'
<1> DEFINE fresh == wizard.nonce = tap[h].nonce
<1>1. /\ Suspended(h) /\ tap[h].at = "data" /\ WizardShape
      /\ UNCHANGED <<storage, wizard, nonces, upset, draft>>
      /\ tap \in [Taps -> Tap] /\ tap[h] \in Tap /\ fresh \in BOOLEAN
      /\ "state" \in Places
  BY DEF ReadData, WizardInv, WizardShape, Places
<1>2. tap' = [tap EXCEPT ![h] = MovedTap(FreshTap(tap[h], fresh), "state")]
  BY <1>1 DEF ReadData, MovedTap, FreshTap
<1> HIDE DEF fresh
<1>3. /\ tap' \in [Taps -> Tap] /\ tap'[h].at = "state" /\ tap'[h].nonce = tap[h].nonce
      /\ tap'[h].fresh = fresh
      /\ \A g \in Taps \ {h} : tap'[g] = tap[g]
  <2>1. FreshTap(tap[h], fresh) \in Tap /\ FreshTap(tap[h], fresh).nonce = tap[h].nonce
        /\ FreshTap(tap[h], fresh).fresh = fresh
    BY <1>1, TapReads
  <2>2. /\ MovedTap(FreshTap(tap[h], fresh), "state") \in Tap
        /\ MovedTap(FreshTap(tap[h], fresh), "state").at = "state"
        /\ MovedTap(FreshTap(tap[h], fresh), "state").nonce = tap[h].nonce
        /\ MovedTap(FreshTap(tap[h], fresh), "state").fresh = fresh
    BY <1>1, <2>1, TapMoves
  <2> QED BY <1>1, <1>2, <2>2
<1>4. WizardShape'
  BY <1>1, <1>3, ShapeOfStep DEF WizardShape, OnDraft, Shaping
<1>5. LooksStand'
  <2> SUFFICES ASSUME storage = "memory" PROVE LooksStand'
    BY <1>1 DEF LooksStand
  <2>1. \A g \in Taps \ {h} : tap'[g].at \notin Looking
    BY <1>1, <1>3, LooksAlone
  <2> QED BY <1>1, <1>3, <2>1 DEF LooksStand, Looking, fresh
<1>6. ClaimsStand'
  BY <1>1, <1>3, NobodyClaims DEF WizardInv
<1>7. DraftsStand'
  BY <1>1, <1>3, NoDraftMoves DEF WizardInv, Shaping
<1> QED BY <1>4, <1>5, <1>6, <1>7 DEF WizardInv

LEMMA ReadStateKeeps ==
    ASSUME WizardInv, NEW h \in Taps, ReadState(h)
    PROVE  WizardInv'
<1>1. /\ Suspended(h) /\ tap[h].at = "state" /\ WizardShape
      /\ UNCHANGED <<storage, wizard, nonces, upset, draft>>
      /\ tap \in [Taps -> Tap] /\ tap[h] \in Tap /\ wizard.state \in WizardStates
      /\ "act" \in Places
  BY DEF ReadState, WizardInv, WizardShape, Places
<1>2. tap' = [tap EXCEPT ![h] = MovedTap(SeenTap(tap[h], wizard.state), "act")]
  BY <1>1 DEF ReadState, MovedTap, SeenTap
<1>3. /\ tap' \in [Taps -> Tap] /\ tap'[h].at = "act" /\ tap'[h].nonce = tap[h].nonce
      /\ tap'[h].fresh = tap[h].fresh /\ tap'[h].saw = wizard.state
      /\ \A g \in Taps \ {h} : tap'[g] = tap[g]
  <2>1. /\ SeenTap(tap[h], wizard.state) \in Tap
        /\ SeenTap(tap[h], wizard.state).nonce = tap[h].nonce
        /\ SeenTap(tap[h], wizard.state).fresh = tap[h].fresh
        /\ SeenTap(tap[h], wizard.state).saw = wizard.state
    BY <1>1, TapSees
  <2>2. /\ MovedTap(SeenTap(tap[h], wizard.state), "act") \in Tap
        /\ MovedTap(SeenTap(tap[h], wizard.state), "act").at = "act"
        /\ MovedTap(SeenTap(tap[h], wizard.state), "act").nonce = tap[h].nonce
        /\ MovedTap(SeenTap(tap[h], wizard.state), "act").fresh = tap[h].fresh
        /\ MovedTap(SeenTap(tap[h], wizard.state), "act").saw = wizard.state
    BY <1>1, <2>1, TapMoves
  <2> QED BY <1>1, <1>2, <2>2
<1>4. WizardShape'
  BY <1>1, <1>3, ShapeOfStep DEF WizardShape, OnDraft, Shaping
<1>5. LooksStand'
  <2> SUFFICES ASSUME storage = "memory" PROVE LooksStand'
    BY <1>1 DEF LooksStand
  <2>1. \A g \in Taps \ {h} : tap'[g].at \notin Looking
    BY <1>1, <1>3, LooksAlone
  <2>2. tap[h].fresh => wizard.nonce = tap[h].nonce
    BY <1>1 DEF WizardInv, LooksStand
  <2> QED BY <1>1, <1>3, <2>1, <2>2 DEF LooksStand, Looking
<1>6. ClaimsStand'
  BY <1>1, <1>3, NobodyClaims DEF WizardInv
<1>7. DraftsStand'
  BY <1>1, <1>3, NoDraftMoves DEF WizardInv, Shaping
<1> QED BY <1>4, <1>5, <1>6, <1>7 DEF WizardInv

LEMMA ActKeeps ==
    ASSUME WizardInv, NEW h \in Taps, Act(h)
    PROVE  WizardInv'
<1>1. /\ Suspended(h) /\ tap[h].at = "act" /\ WizardShape
      /\ UNCHANGED <<storage, nonces, upset, draft>>
      /\ tap \in [Taps -> Tap] /\ tap[h] \in Tap /\ nonces \in Nat
      /\ draft \in [Drafts -> Draft] /\ \A b \in Drafts : draft[b].nonce <= nonces
      /\ wizard.state \in WizardStates /\ wizard.nonce \in Nat
      /\ tap[h].nonce \in Nat /\ tap[h].nonce <= nonces
      /\ {"audience", "creating"} \subseteq WizardStates /\ "making" \in Places
  BY DEF Act, WizardInv, WizardShape, Places, Tap, Nonces, WizardStates
<1>2. ASSUME tap'[h].at \notin Looking, \A g \in Taps \ {h} : tap'[g] = tap[g]
      PROVE  LooksStand'
  <2> SUFFICES ASSUME storage = "memory" PROVE LooksStand'
    BY <1>1 DEF LooksStand
  <2>1. \A g \in Taps : tap'[g].at \notin Looking
    BY <1>1, <1>2, LooksAlone
  <2> QED BY <2>1 DEF LooksStand, Looking
<1>3. ASSUME NEW state, storage = "memory", tap[h].fresh, tap[h].saw = state, state # "creating"
      PROVE  /\ wizard.nonce = tap[h].nonce
             /\ wizard.nonce = 0 \/ wizard.nonce \in upset \/ ~Taken(wizard.nonce)
  BY <1>1, <1>3, NotClaimed DEF WizardInv, LooksStand
<1>4. ASSUME Ends(h), wizard'.state \in WizardStates, wizard'.nonce \in Nat,
             \/ UNCHANGED wizard \/ wizard'.nonce = 0
             \/ wizard'.nonce = wizard.nonce /\ Asks(h, "skip", {"button"})
      PROVE  WizardInv'
  <2>1. /\ tap' \in [Taps -> Tap] /\ tap'[h].at = "idle" /\ tap'[h].nonce = 0
        /\ \A g \in Taps \ {h} : tap'[g] = tap[g]
    BY <1>1, <1>4, EndsMoves
  <2>2. WizardShape'
    BY <1>1, <1>4, <2>1, ShapeOfStep DEF OnDraft, Shaping
  <2>3. LooksStand'
    BY <1>2, <2>1 DEF Looking
  <2>4. ClaimsStand'
    <3> SUFFICES ASSUME storage = "memory" PROVE ClaimsStand'
      BY <1>1 DEF ClaimsStand
    <3>1. wizard'.nonce = wizard.nonce /\ Asks(h, "skip", {"button"})
             => wizard'.nonce = 0 \/ wizard'.nonce \in upset' \/ ~Taken(wizard.nonce)'
      <4>1. SUFFICES ASSUME wizard'.nonce = wizard.nonce, tap[h].fresh, tap[h].saw = "button"
                     PROVE  wizard'.nonce = 0 \/ wizard'.nonce \in upset' \/ ~Taken(wizard.nonce)'
        BY DEF Asks
      <4>2. wizard.nonce = 0 \/ wizard.nonce \in upset \/ ~Taken(wizard.nonce)
        BY <1>3, <4>1
      <4>3. Taken(wizard.nonce)' => Taken(wizard.nonce)
        <5>1. (\E g \in Taps : tap[g].at = "making" /\ tap[g].nonce = wizard.nonce)'
                 => \E g \in Taps : tap[g].at = "making" /\ tap[g].nonce = wizard.nonce
          BY <2>1, <4>1
        <5> QED BY <1>1, <4>1, <5>1 DEF Taken
      <4> QED BY <1>1, <4>1, <4>2, <4>3
    <3>2. \A g \in Taps : tap'[g].at = "making" =>
             tap[g].at = "making" /\ tap'[g].nonce = tap[g].nonce
      BY <2>1
    <3> QED BY <1>1, <1>4, <3>1, <3>2, NobodyClaims DEF WizardInv
  <2>5. DraftsStand'
    BY <1>1, <2>1, NoDraftMoves DEF WizardInv, Shaping
  <2> QED BY <2>2, <2>3, <2>4, <2>5 DEF WizardInv
<1>5. CASE wizard' = NoWizard /\ Ends(h)
  BY <1>4, <1>5 DEF NoWizard, WizardStates
<1>6. CASE Asks(h, "skip", {"button"}) /\ wizard' = [wizard EXCEPT !.state = "audience"] /\ Ends(h)
  <2>1. wizard'.state = "audience" /\ wizard'.nonce = wizard.nonce
    BY <1>1, <1>6, WizardFields
  <2> QED BY <1>1, <1>4, <1>6, <2>1
<1>7. CASE Asks(h, "segment", {"audience"}) /\ wizard' = Claimed(wizard) /\ Goes(h, "making")
  <2>1. wizard'.state = "creating" /\ wizard'.nonce = wizard.nonce
    BY <1>1, <1>7, WizardFields DEF Claimed
  <2>2. /\ tap' \in [Taps -> Tap] /\ tap'[h].at = "making" /\ tap'[h].nonce = tap[h].nonce
        /\ tap'[h].draft = tap[h].draft /\ \A g \in Taps \ {h} : tap'[g] = tap[g]
    BY <1>1, <1>7, GoesMoves
  <2>3. WizardShape'
    BY <1>1, <2>1, <2>2, ShapeOfStep DEF OnDraft, Shaping
  <2>4. LooksStand'
    BY <1>2, <2>2 DEF Looking
  <2>5. ClaimsStand'
    <3> SUFFICES ASSUME storage = "memory" PROVE ClaimsStand'
      BY <1>1 DEF ClaimsStand
    <3>1. /\ wizard.nonce = tap[h].nonce
          /\ wizard.nonce = 0 \/ wizard.nonce \in upset \/ ~Taken(wizard.nonce)
      BY <1>3, <1>7 DEF Asks
    <3>2. Calm(tap[h].nonce) => /\ \A g \in Taps : tap[g].at = "making" =>
                                      tap[g].nonce # tap[h].nonce
                                /\ \A b \in Drafts : draft[b].nonce # tap[h].nonce
      BY <3>1 DEF Calm, Taken
    <3>3. (\A b, c \in Drafts : Calm(draft[b].nonce) /\ draft[b].nonce = draft[c].nonce => b = c)'
      BY <1>1 DEF Calm, WizardInv, ClaimsStand
    <3>4. (\A g, k \in Taps : /\ tap[g].at = "making" /\ tap[k].at = "making"
                              /\ Calm(tap[g].nonce) /\ tap[g].nonce = tap[k].nonce
                              => g = k)'
      <4>1. \A g, k \in Taps : /\ tap[g].at = "making" /\ tap[k].at = "making"
                               /\ Calm(tap[g].nonce) /\ tap[g].nonce = tap[k].nonce
                               => g = k
        BY DEF WizardInv, ClaimsStand
      <4> QED BY <1>1, <2>2, <3>2, <4>1 DEF Calm
    <3>5. (\A g \in Taps : tap[g].at = "making" /\ Calm(tap[g].nonce) =>
             \A b \in Drafts : draft[b].nonce # tap[g].nonce)'
      <4>1. \A g \in Taps : tap[g].at = "making" /\ Calm(tap[g].nonce) =>
               \A b \in Drafts : draft[b].nonce # tap[g].nonce
        BY DEF WizardInv, ClaimsStand
      <4> QED BY <1>1, <2>2, <3>2, <4>1 DEF Calm
    <3> QED BY <2>1, <3>3, <3>4, <3>5 DEF ClaimsStand
  <2>6. DraftsStand'
    BY <1>1, <2>2, NoDraftMoves DEF WizardInv, Shaping
  <2> QED BY <2>3, <2>4, <2>5, <2>6 DEF WizardInv
<1>8. CASE UNCHANGED wizard /\ Ends(h)
  BY <1>1, <1>4, <1>8
<1> QED BY <1>5, <1>6, <1>7, <1>8 DEF Act

-----------------------------------------------------------------------------
(***************************************************************************)
(* Rows.                                                                   *)
(***************************************************************************)
MadeDraft(d, status, nonce) == [d EXCEPT !.status = status, !.nonce = nonce]
CardDraft(d, card) == [d EXCEPT !.card = card]
StatusDraft(d, status) == [d EXCEPT !.status = status]
CleanDraft(d, status) == [d EXCEPT !.status = status, !.cleaned = TRUE]
LostDraft(d) == [d EXCEPT !.lost = TRUE]
QueuedDraft(d, status, queued) == [d EXCEPT !.status = status, !.queued = queued]

LEMMA DraftsOf ==
    ASSUME NEW Ss, NEW Ns, NEW Qs, NEW d \in DraftOf(Ss, Ns, Qs), NEW status \in Ss,
           NEW nonce \in Ns, NEW card \in BOOLEAN, NEW queued \in Qs
    PROVE  /\ MadeDraft(d, status, nonce) \in DraftOf(Ss, Ns, Qs)
           /\ CardDraft(d, card) \in DraftOf(Ss, Ns, Qs)
           /\ StatusDraft(d, status) \in DraftOf(Ss, Ns, Qs)
           /\ CleanDraft(d, status) \in DraftOf(Ss, Ns, Qs)
           /\ LostDraft(d) \in DraftOf(Ss, Ns, Qs)
           /\ QueuedDraft(d, status, queued) \in DraftOf(Ss, Ns, Qs)
BY DEF DraftOf, MadeDraft, CardDraft, StatusDraft, CleanDraft, LostDraft, QueuedDraft

\* Any row has these.
LEMMA RowKinds == "draft" \in Statuses /\ 0 \in Nat /\ TRUE \in BOOLEAN
BY DEF Statuses

LEMMA MadeDraftIs ==
    ASSUME NEW d \in Draft, NEW status \in Statuses, NEW nonce \in Nat
    PROVE  /\ MadeDraft(d, status, nonce) \in Draft
           /\ MadeDraft(d, status, nonce).status = status
           /\ MadeDraft(d, status, nonce).nonce = nonce
           /\ MadeDraft(d, status, nonce).queued = d.queued
           /\ MadeDraft(d, status, nonce).cleaned = d.cleaned
<1>1. MadeDraft(d, status, nonce) \in Draft
  BY RowKinds, RecordsAre, DraftsOf
<1> QED BY <1>1 DEF MadeDraft, Draft

LEMMA CardDraftIs ==
    ASSUME NEW d \in Draft, NEW card \in BOOLEAN
    PROVE  /\ CardDraft(d, card) \in Draft
           /\ CardDraft(d, card).nonce = d.nonce /\ CardDraft(d, card).status = d.status
           /\ CardDraft(d, card).queued = d.queued /\ CardDraft(d, card).cleaned = d.cleaned
           /\ CardDraft(d, card).card = card
<1>1. CardDraft(d, card) \in Draft
  BY RowKinds, RecordsAre, DraftsOf
<1> QED BY <1>1 DEF CardDraft, Draft

LEMMA StatusDraftIs ==
    ASSUME NEW d \in Draft, NEW status \in Statuses
    PROVE  /\ StatusDraft(d, status) \in Draft
           /\ StatusDraft(d, status).nonce = d.nonce /\ StatusDraft(d, status).status = status
           /\ StatusDraft(d, status).queued = d.queued
           /\ StatusDraft(d, status).cleaned = d.cleaned
<1>1. StatusDraft(d, status) \in Draft
  BY RowKinds, RecordsAre, DraftsOf
<1> QED BY <1>1 DEF StatusDraft, Draft

LEMMA CleanDraftIs ==
    ASSUME NEW d \in Draft, NEW status \in Statuses
    PROVE  /\ CleanDraft(d, status) \in Draft
           /\ CleanDraft(d, status).nonce = d.nonce /\ CleanDraft(d, status).status = status
           /\ CleanDraft(d, status).queued = d.queued
<1>1. CleanDraft(d, status) \in Draft
  BY RowKinds, RecordsAre, DraftsOf
<1> QED BY <1>1 DEF CleanDraft, Draft

LEMMA LostDraftIs ==
    ASSUME NEW d \in Draft
    PROVE  /\ LostDraft(d) \in Draft
           /\ LostDraft(d).nonce = d.nonce /\ LostDraft(d).status = d.status
           /\ LostDraft(d).queued = d.queued /\ LostDraft(d).cleaned = d.cleaned
           /\ LostDraft(d).lost
<1>1. LostDraft(d) \in Draft
  BY RowKinds, RecordsAre, DraftsOf
<1> QED BY <1>1 DEF LostDraft, Draft

LEMMA QueuedDraftIs ==
    ASSUME NEW d \in Draft, NEW status \in Statuses, NEW queued \in Nat
    PROVE  /\ QueuedDraft(d, status, queued) \in Draft
           /\ QueuedDraft(d, status, queued).nonce = d.nonce
           /\ QueuedDraft(d, status, queued).status = status
           /\ QueuedDraft(d, status, queued).queued = queued
           /\ QueuedDraft(d, status, queued).cleaned = d.cleaned
<1>1. QueuedDraft(d, status, queued) \in Draft
  BY RowKinds, RecordsAre, DraftsOf
<1> QED BY <1>1 DEF QueuedDraft, Draft

\* A handler that holds the dialogue's claim no longer, or never did, goes on.
LEMMA HandlerKeeps ==
    ASSUME WizardInv, NEW h \in Taps, AllSuspended, UNCHANGED <<storage, nonces>>,
           wizard'.state \in WizardStates, wizard'.nonce \in Nat, upset \subseteq upset',
           tap' \in [Taps -> Tap], tap'[h].nonce <= nonces,
           tap'[h].at \notin Looking \cup {"making"},
           tap'[h].at \in OnDraft => tap'[h].draft \in Drafts,
           \A g \in Taps \ {h} : tap'[g] = tap[g],
           draft' \in [Drafts -> Draft], \A b \in Drafts : draft'[b].nonce = draft[b].nonce,
           \/ UNCHANGED wizard
           \/ wizard'.nonce = 0 \/ wizard'.nonce \in upset' \/ ~Taken(wizard.nonce)'
    PROVE  WizardShape' /\ LooksStand' /\ ClaimsStand'
<1>1. WizardShape /\ \A b \in Drafts : draft'[b].nonce <= nonces
  BY DEF WizardInv, WizardShape
<1>2. WizardShape'
  BY <1>1, ShapeOfStep
<1>3. LooksStand'
  BY NobodyLooks
<1>4. ClaimsStand'
  <2>1. \A g \in Taps : tap'[g].at = "making" =>
           tap[g].at = "making" /\ tap'[g].nonce = tap[g].nonce
    OBVIOUS
  <2> QED BY <2>1, NobodyClaims DEF WizardInv
<1> QED BY <1>2, <1>3, <1>4

\* A row changes.
LEMMA RowChanges ==
    ASSUME WizardShape, NEW b \in Drafts, NEW d \in Draft, draft' = [draft EXCEPT ![b] = d],
           d.nonce = draft[b].nonce
    PROVE  /\ draft' \in [Drafts -> Draft] /\ draft'[b] = d
           /\ \A c \in Drafts \ {b} : draft'[c] = draft[c]
           /\ \A c \in Drafts : draft'[c].nonce = draft[c].nonce
BY DEF WizardShape

\* What a row comes to when its handler, or the one of its card, has changed it.
LEMMA RowStands ==
    ASSUME WizardShape, DraftsStand, NEW h \in Taps, NEW b \in Drafts,
           tap[h].at \in Shaping => tap[h].draft = b,
           \A g \in Taps \ {h} : tap'[g] = tap[g],
           \A c \in Drafts \ {b} : draft'[c] = draft[c],
           draft'[b].status = "draft" =>
              /\ draft'[b].queued = 0 /\ ~draft'[b].cleaned
              /\ draft'[b].card \/ draft'[b].lost \/ BeingMade(b)',
           draft'[b].queued <= 1,
           draft'[b].cleaned => draft'[b].queued = 0
    PROVE  DraftsStand'
<1>1. ASSUME NEW c \in Drafts \ {b}
      PROVE  /\ draft'[c].status = "draft" =>
                   /\ draft'[c].queued = 0 /\ ~draft'[c].cleaned
                   /\ draft'[c].card \/ draft'[c].lost \/ BeingMade(c)'
             /\ draft'[c].queued <= 1
             /\ draft'[c].cleaned => draft'[c].queued = 0
  <2>1. BeingMade(c) => BeingMade(c)'
    <3>1. tap[h].draft # c \/ tap[h].at \notin Shaping
      BY <1>1
    <3> QED BY <1>1, <3>1, OthersShape
  <2> QED BY <1>1, <2>1 DEF DraftsStand
<1> QED BY <1>1 DEF DraftsStand

-----------------------------------------------------------------------------
LEMMA CreateDraftKeeps ==
    ASSUME WizardInv, NEW h \in Taps, CreateDraft(h)
    PROVE  WizardInv'
<1>1. /\ AllSuspended /\ tap[h].at = "making" /\ WizardShape
      /\ UNCHANGED <<storage, wizard, nonces, upset>>
      /\ tap \in [Taps -> Tap] /\ tap[h] \in Tap /\ tap[h].nonce \in Nat /\ tap[h].nonce <= nonces
      /\ draft \in [Drafts -> Draft] /\ "made" \in Places
      /\ {"draft", "none"} \subseteq Statuses
      /\ wizard.state \in WizardStates /\ wizard.nonce \in Nat
  BY DEF CreateDraft, WizardInv, WizardShape, Tap, Nonces, Places, Statuses
<1>2. PICK b \in Drafts :
         /\ draft' = [draft EXCEPT ![b] =
               [NoDraft EXCEPT !.status = "draft", !.nonce = tap[h].nonce]]
         /\ tap' = [tap EXCEPT ![h].at = "made", ![h].draft = b]
  BY DEF CreateDraft
<1>3. b \in 0..MaxDrafts
  BY WizardAssumption DEF Drafts
<1>4. /\ tap' \in [Taps -> Tap] /\ tap'[h].at = "made" /\ tap'[h].nonce = tap[h].nonce
      /\ tap'[h].draft = b /\ \A g \in Taps \ {h} : tap'[g] = tap[g]
  <2>1. tap' = [tap EXCEPT ![h] = DraftTap(MovedTap(tap[h], "made"), b)]
    BY <1>1, <1>2 DEF DraftTap, MovedTap
  <2>2. /\ MovedTap(tap[h], "made") \in Tap /\ MovedTap(tap[h], "made").at = "made"
        /\ MovedTap(tap[h], "made").nonce = tap[h].nonce
    BY <1>1, TapMoves
  <2>3. /\ DraftTap(MovedTap(tap[h], "made"), b) \in Tap
        /\ DraftTap(MovedTap(tap[h], "made"), b).at = "made"
        /\ DraftTap(MovedTap(tap[h], "made"), b).nonce = tap[h].nonce
        /\ DraftTap(MovedTap(tap[h], "made"), b).draft = b
    BY <1>3, <2>2, TapTakesDraft
  <2> QED BY <1>1, <2>1, <2>3
<1>5. /\ draft' \in [Drafts -> Draft]
      /\ draft'[b].status = "draft" /\ draft'[b].nonce = tap[h].nonce
      /\ draft'[b].queued = 0 /\ ~draft'[b].cleaned
      /\ \A c \in Drafts \ {b} : draft'[c] = draft[c]
  <2>1. draft' = [draft EXCEPT ![b] = MadeDraft(NoDraft, "draft", tap[h].nonce)]
    BY <1>2 DEF MadeDraft
  <2>2. "draft" \in Statuses /\ NoDraft \in Draft /\ tap[h].nonce \in Nat
    BY <1>1, NoDraftIsOne
  <2>3. /\ MadeDraft(NoDraft, "draft", tap[h].nonce) \in Draft
        /\ MadeDraft(NoDraft, "draft", tap[h].nonce).status = "draft"
        /\ MadeDraft(NoDraft, "draft", tap[h].nonce).nonce = tap[h].nonce
        /\ MadeDraft(NoDraft, "draft", tap[h].nonce).queued = 0
        /\ ~MadeDraft(NoDraft, "draft", tap[h].nonce).cleaned
    BY <2>2, NoDraftIsOne, MadeDraftIs
  <2> QED BY <1>1, <2>1, <2>3
<1>6. WizardShape'
  <2>1. \A c \in Drafts : draft'[c].nonce <= nonces
    BY <1>1, <1>5 DEF WizardShape
  <2> QED BY <1>1, <1>4, <1>5, <2>1, ShapeOfStep
<1>7. LooksStand'
  <2>1. \A g \in Taps : tap'[g].at \in Looking => tap[g].at \in Looking
    BY <1>4 DEF Looking
  <2> QED BY <1>1, <2>1, NobodyLooks
<1>8. ClaimsStand'
  <2> SUFFICES ASSUME storage = "memory" PROVE ClaimsStand'
    BY <1>1 DEF ClaimsStand
  <2>1. /\ \A c, d \in Drafts :
              Calm(draft[c].nonce) /\ draft[c].nonce = draft[d].nonce => c = d
        /\ \A g, k \in Taps :
              /\ tap[g].at = "making" /\ tap[k].at = "making"
              /\ Calm(tap[g].nonce) /\ tap[g].nonce = tap[k].nonce
              => g = k
        /\ \A g \in Taps : tap[g].at = "making" /\ Calm(tap[g].nonce) =>
              \A c \in Drafts : draft[c].nonce # tap[g].nonce
        /\ Calm(wizard.nonce) /\ Taken(wizard.nonce) => wizard.state = "creating"
    BY DEF WizardInv, ClaimsStand
  <2>2. (\A c, d \in Drafts : Calm(draft[c].nonce) /\ draft[c].nonce = draft[d].nonce => c = d)'
    BY <1>1, <1>5, <2>1 DEF Calm
  <2>3. (\A g, k \in Taps : /\ tap[g].at = "making" /\ tap[k].at = "making"
                            /\ Calm(tap[g].nonce) /\ tap[g].nonce = tap[k].nonce
                            => g = k)'
    BY <1>1, <1>4, <2>1 DEF Calm
  <2>4. (\A g \in Taps : tap[g].at = "making" /\ Calm(tap[g].nonce) =>
           \A c \in Drafts : draft[c].nonce # tap[g].nonce)'
    BY <1>1, <1>4, <1>5, <2>1 DEF Calm
  <2>5. (Calm(wizard.nonce) /\ Taken(wizard.nonce) => wizard.state = "creating")'
    <3>1. Taken(wizard.nonce)' => Taken(wizard.nonce)
      BY <1>1, <1>4, <1>5 DEF Taken
    <3> QED BY <1>1, <2>1, <3>1 DEF Calm
  <2> QED BY <2>2, <2>3, <2>4, <2>5 DEF ClaimsStand
<1>9. DraftsStand'
  <2>1. BeingMade(b)'
    BY <1>4 DEF BeingMade
  <2>2. DraftsStand /\ tap[h].at \notin Shaping
    BY <1>1 DEF WizardInv, Shaping
  <2> QED BY <1>1, <1>4, <1>5, <2>1, <2>2, RowStands
<1> QED BY <1>6, <1>7, <1>8, <1>9 DEF WizardInv

\* The draft could not be made: whose claim it was may claim again.
LEMMA GivenBackKeeps ==
    ASSUME WizardInv, NEW h \in Taps, AllSuspended, tap[h].at = "making", Ends(h), Upsets(h),
           UNCHANGED <<storage, nonces, draft>>,
           wizard' = [wizard EXCEPT !.state = "audience"]
    PROVE  WizardInv'
<1>1. /\ WizardShape /\ "audience" \in WizardStates /\ nonces \in Nat /\ wizard.nonce \in Nat
      /\ draft \in [Drafts -> Draft]
  BY DEF WizardInv, WizardShape, WizardStates
<1>2. wizard'.state = "audience" /\ wizard'.nonce = wizard.nonce
  BY <1>1, WizardFields
<1>3. /\ tap' \in [Taps -> Tap] /\ tap'[h].at = "idle" /\ tap'[h].nonce = 0
      /\ \A g \in Taps \ {h} : tap'[g] = tap[g]
  BY <1>1, EndsMoves
<1>4. upset \subseteq upset' /\ (wizard.nonce # tap[h].nonce => wizard.nonce \in upset')
  BY DEF Upsets
<1>5. DraftsStand'
  BY <1>3, NoDraftMoves DEF WizardInv, Shaping
<1>6. CASE storage = "memory"
  <2>1. wizard'.nonce = 0 \/ wizard'.nonce \in upset' \/ ~Taken(wizard.nonce)'
    <3> SUFFICES ASSUME wizard.nonce = tap[h].nonce, wizard.nonce # 0, wizard.nonce \notin upset'
                 PROVE  ~Taken(wizard.nonce)'
      BY <1>2, <1>4
    <3>1. Calm(tap[h].nonce)
      BY <1>4 DEF Calm
    <3>2. \A g \in Taps \ {h} : ~(tap[g].at = "making" /\ tap[g].nonce = tap[h].nonce)
      BY <1>6, <3>1 DEF WizardInv, ClaimsStand
    <3>3. \A b \in Drafts : draft[b].nonce # tap[h].nonce
      BY <1>6, <3>1 DEF WizardInv, ClaimsStand
    <3> QED BY <1>2, <1>3, <3>2, <3>3 DEF Taken
  <2> QED BY <1>1, <1>2, <1>3, <1>4, <1>5, <2>1, HandlerKeeps
          DEF WizardInv, Looking, OnDraft, Shaping
<1>7. CASE storage # "memory"
  <2>1. WizardShape'
    BY <1>1, <1>2, <1>3, ShapeOfStep DEF WizardShape, OnDraft, Shaping
  <2> QED BY <1>5, <1>7, <2>1 DEF WizardInv, LooksStand, ClaimsStand
<1> QED BY <1>6, <1>7

LEMMA CreateEndsKeep ==
    ASSUME WizardInv, NEW h \in Taps, EmptySegment(h) \/ CreateFails(h)
    PROVE  WizardInv'
<1>1. CASE EmptySegment(h)
  BY <1>1, GivenBackKeeps DEF EmptySegment
<1>2. CASE CreateFails(h) /\ wizard.state = "creating"
  BY <1>2, GivenBackKeeps DEF CreateFails
<1>3. CASE CreateFails(h) /\ wizard.state # "creating"
  <2>1. /\ AllSuspended /\ tap[h].at = "making" /\ Ends(h) /\ WizardShape
        /\ UNCHANGED <<storage, nonces, draft, wizard, upset>>
    BY <1>3 DEF CreateFails, WizardInv
  <2>2. /\ tap' \in [Taps -> Tap] /\ tap'[h].at = "idle" /\ tap'[h].nonce = 0
        /\ \A g \in Taps \ {h} : tap'[g] = tap[g]
    BY <2>1, EndsMoves
  <2>3. WizardShape' /\ LooksStand' /\ ClaimsStand'
    BY <2>1, <2>2, HandlerKeeps DEF WizardShape, Looking, OnDraft, Shaping
  <2>4. DraftsStand'
    BY <2>1, <2>2, NoDraftMoves DEF WizardInv, Shaping
  <2> QED BY <2>3, <2>4 DEF WizardInv
<1> QED BY <1>1, <1>2, <1>3

LEMMA ClearStateKeeps ==
    ASSUME WizardInv, NEW h \in Taps, ClearState(h)
    PROVE  WizardInv'
<1>1. /\ AllSuspended /\ tap[h].at = "made" /\ WizardShape /\ Goes(h, "preview")
      /\ UNCHANGED <<storage, nonces, upset, draft>> /\ "preview" \in Places
      /\ wizard'.state \in WizardStates /\ wizard'.nonce = 0
      /\ tap[h].draft \in Drafts /\ tap[h].nonce <= nonces /\ draft \in [Drafts -> Draft]
  BY DEF ClearState, WizardInv, WizardShape, Places, NoWizard, WizardStates, OnDraft, Shaping
<1>2. /\ tap' \in [Taps -> Tap] /\ tap'[h].at = "preview" /\ tap'[h].nonce = tap[h].nonce
      /\ tap'[h].draft = tap[h].draft /\ \A g \in Taps \ {h} : tap'[g] = tap[g]
  BY <1>1, GoesMoves
<1>3. WizardShape' /\ LooksStand' /\ ClaimsStand'
  BY <1>1, <1>2, HandlerKeeps DEF Looking
<1>4. DraftsStand'
  BY <1>1, <1>2, NoDraftMoves DEF WizardInv, Shaping
<1> QED BY <1>3, <1>4 DEF WizardInv

\* A handler that works on a row: what holds of both, and how it ends.
LEMMA HandlerEnds ==
    ASSUME WizardShape, NEW h \in Taps, Ends(h)
    PROVE  /\ tap' \in [Taps -> Tap] /\ tap'[h].nonce <= nonces
           /\ tap'[h].at = "idle" /\ tap'[h].at \notin Looking \cup {"making"} \cup OnDraft
           /\ \A g \in Taps \ {h} : tap'[g] = tap[g]
BY EndsMoves DEF WizardShape, Looking, OnDraft, Shaping

LEMMA HandlerGoes ==
    ASSUME WizardShape, NEW h \in Taps, NEW at \in OnDraft, tap[h].at \in OnDraft, Goes(h, at)
    PROVE  /\ tap' \in [Taps -> Tap] /\ tap'[h].nonce <= nonces
           /\ tap'[h].at = at /\ tap'[h].at \notin Looking \cup {"making"}
           /\ tap'[h].draft = tap[h].draft /\ tap'[h].draft \in Drafts
           /\ \A g \in Taps \ {h} : tap'[g] = tap[g]
<1>1. at \in Places
  BY DEF OnDraft, Shaping, Places
<1> QED BY <1>1, GoesMoves DEF WizardShape, Looking, OnDraft, Shaping

\* A handler of a row is done with it.
LEMMA RowKeeps ==
    ASSUME WizardInv, NEW h \in Taps, AllSuspended, tap[h].at \in OnDraft,
           UNCHANGED <<storage, wizard, nonces, upset>>, Ends(h),
           NEW d \in Draft, draft' = [draft EXCEPT ![tap[h].draft] = d],
           d.nonce = draft[tap[h].draft].nonce,
           d.status = "draft" => d.queued = 0 /\ ~d.cleaned /\ (d.card \/ d.lost),
           d.queued <= 1, d.cleaned => d.queued = 0
    PROVE  WizardInv'
<1> PICK b \in Drafts : b = tap[h].draft
  BY DEF WizardInv, WizardShape
<1>1. WizardShape /\ DraftsStand /\ draft' = [draft EXCEPT ![b] = d]
  BY DEF WizardInv, WizardShape
<1>2. /\ tap' \in [Taps -> Tap] /\ tap'[h].nonce <= nonces
      /\ tap'[h].at \notin Looking \cup {"making"} \cup OnDraft
      /\ \A g \in Taps \ {h} : tap'[g] = tap[g]
  BY <1>1, HandlerEnds
<1>3. /\ draft' \in [Drafts -> Draft] /\ draft'[b] = d
      /\ \A c \in Drafts \ {b} : draft'[c] = draft[c]
      /\ \A c \in Drafts : draft'[c].nonce = draft[c].nonce
  BY <1>1, RowChanges
<1>4. WizardShape' /\ LooksStand' /\ ClaimsStand'
  <2>1. wizard.state \in WizardStates /\ wizard.nonce \in Nat
    BY <1>1 DEF WizardShape
  <2> QED BY <1>2, <1>3, <2>1, HandlerKeeps
<1>5. DraftsStand'
  BY <1>1, <1>2, <1>3, RowStands
<1> QED BY <1>4, <1>5 DEF WizardInv

\* It leaves the row as it is, when that is nothing that only it would look after.
LEMMA RowLeft ==
    ASSUME WizardInv, NEW h \in Taps, AllSuspended, tap[h].at \in OnDraft, Ends(h),
           tap[h].at \in Shaping => draft[tap[h].draft].status # "draft",
           UNCHANGED <<storage, wizard, nonces, upset, draft>>
    PROVE  WizardInv'
<1> PICK b \in Drafts : b = tap[h].draft
  BY DEF WizardInv, WizardShape
<1>1. WizardShape /\ DraftsStand /\ draft \in [Drafts -> Draft]
      /\ wizard.state \in WizardStates /\ wizard.nonce \in Nat
  BY DEF WizardInv, WizardShape
<1>2. /\ tap' \in [Taps -> Tap] /\ tap'[h].nonce <= nonces
      /\ tap'[h].at \notin Looking \cup {"making"} \cup OnDraft
      /\ \A g \in Taps \ {h} : tap'[g] = tap[g]
  BY <1>1, HandlerEnds
<1>3. WizardShape' /\ LooksStand' /\ ClaimsStand'
  BY <1>1, <1>2, HandlerKeeps
<1>4. DraftsStand'
  <2>1. draft[b].status = "draft" => (BeingMade(b) => BeingMade(b)')
    <3>1. draft[b].status = "draft" => tap[h].at \notin Shaping
      OBVIOUS
    <3> QED BY <1>1, <1>2, <3>1, OthersShape
  <2> QED BY <1>1, <1>2, <2>1, RowStands DEF DraftsStand
<1> QED BY <1>3, <1>4 DEF WizardInv

LEMMA PreviewKeeps ==
    ASSUME WizardInv, NEW h \in Taps, NEW card \in BOOLEAN, NEW error \in BOOLEAN,
           Preview(h, card, error)
    PROVE  WizardInv'
<1> DEFINE b == tap[h].draft
           d == CardDraft(draft[b], card)
<1>1. /\ AllSuspended /\ tap[h].at = "preview" /\ tap[h].at \in OnDraft
      /\ WizardShape /\ DraftsStand
      /\ card \/ error
      /\ UNCHANGED <<storage, wizard, nonces, upset>> /\ draft' = [draft EXCEPT ![b] = d]
      /\ b \in Drafts /\ draft[b] \in Draft
      /\ wizard.state \in WizardStates /\ wizard.nonce \in Nat
  BY DEF Preview, WizardInv, WizardShape, OnDraft, Shaping, CardDraft
<1>2. /\ d \in Draft /\ d.nonce = draft[b].nonce /\ d.status = draft[b].status
      /\ d.queued = draft[b].queued /\ d.cleaned = draft[b].cleaned /\ d.card = card
  BY <1>1, CardDraftIs
<1> HIDE DEF d
<1>3. /\ draft[b].status = "draft" => draft[b].queued = 0 /\ ~draft[b].cleaned
      /\ draft[b].queued <= 1 /\ (draft[b].cleaned => draft[b].queued = 0)
  BY <1>1 DEF DraftsStand
<1>4. CASE error
  <2>1. Goes(h, "discard") /\ "discard" \in OnDraft
    BY <1>4 DEF Preview, OnDraft, Shaping
  <2>2. /\ tap' \in [Taps -> Tap] /\ tap'[h].nonce <= nonces
        /\ tap'[h].at = "discard" /\ tap'[h].at \notin Looking \cup {"making"}
        /\ tap'[h].draft = b /\ tap'[h].draft \in Drafts
        /\ \A g \in Taps \ {h} : tap'[g] = tap[g]
    BY <1>1, <2>1, HandlerGoes
  <2>3. /\ draft' \in [Drafts -> Draft] /\ draft'[b] = d
        /\ \A c \in Drafts \ {b} : draft'[c] = draft[c]
        /\ \A c \in Drafts : draft'[c].nonce = draft[c].nonce
    BY <1>1, <1>2, RowChanges
  <2>4. WizardShape' /\ LooksStand' /\ ClaimsStand'
    BY <1>1, <2>2, <2>3, HandlerKeeps
  <2>5. BeingMade(b)'
    BY <2>2 DEF BeingMade
  <2>6. DraftsStand'
    BY <1>1, <1>2, <1>3, <2>2, <2>3, <2>5, RowStands
  <2> QED BY <2>4, <2>6 DEF WizardInv
<1>5. CASE ~error
  <2>1. Ends(h) /\ card
    BY <1>1, <1>5 DEF Preview
  <2> QED BY <1>1, <1>2, <1>3, <2>1, RowKeeps
<1> QED BY <1>4, <1>5

LEMMA DiscardDraftKeeps ==
    ASSUME WizardInv, NEW h \in Taps, DiscardDraft(h)
    PROVE  WizardInv'
<1> DEFINE b == tap[h].draft
           d == CleanDraft(draft[b], "cancelled")
<1>1. /\ AllSuspended /\ tap[h].at = "discard" /\ tap[h].at \in OnDraft /\ WizardShape
      /\ UNCHANGED <<storage, wizard, nonces, upset>> /\ Ends(h) /\ DraftsStand
      /\ b \in Drafts /\ draft[b] \in Draft /\ draft \in [Drafts -> Draft]
  BY DEF DiscardDraft, WizardInv, WizardShape, OnDraft, Shaping
<1>2. CASE draft[b].status = "draft"
  <2>1. draft' = [draft EXCEPT ![b] = d]
    BY <1>1, <1>2 DEF DiscardDraft, Discardable, CleanDraft
  <2>2. /\ d \in Draft /\ d.nonce = draft[b].nonce /\ d.status = "cancelled"
        /\ d.queued = draft[b].queued
    <3>1. "cancelled" \in Statuses
      BY DEF Statuses
    <3> QED BY <1>1, <3>1, CleanDraftIs
  <2>3. draft[b].queued = 0
    BY <1>1, <1>2 DEF DraftsStand
  <2> HIDE DEF d
  <2>4. d.status # "draft" /\ d.queued <= 1 /\ (d.cleaned => d.queued = 0)
    BY <2>2, <2>3
  <2> QED BY <1>1, <2>1, <2>2, <2>4, RowKeeps
<1>3. CASE draft[b].status # "draft"
  <2>1. UNCHANGED draft
    BY <1>3 DEF DiscardDraft, Discardable
  <2> QED BY <1>1, <1>3, <2>1, RowLeft
<1> QED BY <1>2, <1>3

LEMMA DiscardFailsKeeps ==
    ASSUME WizardInv, NEW h \in Taps, DiscardFails(h)
    PROVE  WizardInv'
<1> DEFINE b == tap[h].draft
           d == LostDraft(draft[b])
<1>1. /\ AllSuspended /\ tap[h].at \in OnDraft /\ WizardShape
      /\ UNCHANGED <<storage, wizard, nonces, upset>> /\ Ends(h) /\ DraftsStand
      /\ b \in Drafts /\ draft[b] \in Draft /\ draft' = [draft EXCEPT ![b] = d]
  BY DEF DiscardFails, WizardInv, WizardShape, OnDraft, Shaping, LostDraft
<1>2. /\ d \in Draft /\ d.nonce = draft[b].nonce /\ d.status = draft[b].status
      /\ d.queued = draft[b].queued /\ d.cleaned = draft[b].cleaned /\ d.lost
  BY <1>1, LostDraftIs
<1>3. /\ draft[b].status = "draft" => draft[b].queued = 0 /\ ~draft[b].cleaned
      /\ draft[b].queued <= 1 /\ (draft[b].cleaned => draft[b].queued = 0)
  BY <1>1 DEF DraftsStand
<1> HIDE DEF d
<1> QED BY <1>1, <1>2, <1>3, RowKeeps

-----------------------------------------------------------------------------
(***************************************************************************)
(* Taps on a card, and the restart.                                        *)
(***************************************************************************)
LEMMA TapCardKeeps ==
    ASSUME WizardInv, NEW h \in Taps, NEW action \in Actions, NEW b \in Drafts,
           TapCard(h, action, b)
    PROVE  WizardInv'
<1>1. /\ AllSuspended /\ tap[h].at = "idle" /\ WizardShape
      /\ UNCHANGED <<storage, wizard, nonces, upset, draft>>
      /\ tap' = [tap EXCEPT ![h] = TappedCard(NoTap, "load", action, b)]
      /\ b \in 0..MaxDrafts /\ "load" \in Places /\ nonces \in Nat
      /\ wizard.state \in WizardStates /\ wizard.nonce \in Nat /\ draft \in [Drafts -> Draft]
  BY WizardAssumption DEF TapCard, WizardInv, WizardShape, Drafts, Places, TappedCard
<1>2. /\ TappedCard(NoTap, "load", action, b) \in Tap
      /\ TappedCard(NoTap, "load", action, b).at = "load"
      /\ TappedCard(NoTap, "load", action, b).nonce = 0
      /\ TappedCard(NoTap, "load", action, b).draft = b
  BY <1>1, TappedCardIsOne
<1>3. /\ tap' \in [Taps -> Tap] /\ tap'[h].at = "load" /\ tap'[h].nonce = 0
      /\ tap'[h].draft = b /\ \A g \in Taps \ {h} : tap'[g] = tap[g]
  BY <1>1, <1>2 DEF WizardShape
<1>4. WizardShape' /\ LooksStand' /\ ClaimsStand'
  BY <1>1, <1>3, HandlerKeeps DEF Looking
<1>5. DraftsStand'
  BY <1>1, <1>3, NoDraftMoves DEF WizardInv, Shaping
<1> QED BY <1>4, <1>5 DEF WizardInv

LEMMA LoadDraftKeeps ==
    ASSUME WizardInv, NEW h \in Taps, LoadDraft(h)
    PROVE  WizardInv'
<1>1. /\ AllSuspended /\ tap[h].at = "load" /\ tap[h].at \in OnDraft /\ tap[h].at \notin Shaping
      /\ UNCHANGED <<storage, wizard, nonces, upset, draft>> /\ WizardShape
      /\ wizard.state \in WizardStates /\ wizard.nonce \in Nat /\ draft \in [Drafts -> Draft]
  BY DEF LoadDraft, WizardInv, WizardShape, OnDraft, Shaping
<1>2. CASE Goes(h, "loaded")
  <2>1. "loaded" \in OnDraft
    BY DEF OnDraft
  <2>2. /\ tap' \in [Taps -> Tap] /\ tap'[h].nonce <= nonces
        /\ tap'[h].at \notin Looking \cup {"making"}
        /\ tap'[h].draft \in Drafts
        /\ \A g \in Taps \ {h} : tap'[g] = tap[g]
    BY <1>1, <1>2, <2>1, HandlerGoes
  <2>3. WizardShape' /\ LooksStand' /\ ClaimsStand'
    BY <1>1, <2>2, HandlerKeeps
  <2>4. DraftsStand'
    BY <1>1, <2>2, NoDraftMoves DEF WizardInv
  <2> QED BY <2>3, <2>4 DEF WizardInv
<1>3. CASE Ends(h)
  BY <1>1, <1>3, RowLeft
<1> QED BY <1>2, <1>3 DEF LoadDraft

LEMMA QueueLoadedKeeps ==
    ASSUME WizardInv, NEW h \in Taps, QueueLoaded(h)
    PROVE  WizardInv'
<1> DEFINE b == tap[h].draft
           n == draft[b].queued + 1
           d == QueuedDraft(draft[b], "queued", n)
<1>1. /\ AllSuspended /\ tap[h].at \in OnDraft /\ tap[h].at \notin Shaping /\ WizardShape
      /\ UNCHANGED <<storage, wizard, nonces, upset>> /\ Ends(h) /\ DraftsStand
      /\ b \in Drafts /\ draft[b] \in Draft /\ draft[b].queued \in Nat
  BY DEF QueueLoaded, WizardInv, WizardShape, OnDraft, Shaping, Draft
<1>2. CASE StillDraft(b) /\ draft' = [draft EXCEPT ![b].status = "queued", ![b].queued = @ + 1]
  <2>1. draft' = [draft EXCEPT ![b] = d]
    BY <1>1, <1>2 DEF QueuedDraft
  <2>2. draft[b].queued = 0 /\ ~draft[b].cleaned
    BY <1>1, <1>2 DEF DraftsStand, StillDraft
  <2>3. /\ d \in Draft /\ d.nonce = draft[b].nonce /\ d.status = "queued"
        /\ d.queued = n /\ d.cleaned = draft[b].cleaned
    <3>1. "queued" \in Statuses /\ n \in Nat
      BY <1>1 DEF Statuses
    <3> HIDE DEF n
    <3> QED BY <1>1, <3>1, QueuedDraftIs
  <2> HIDE DEF d
  <2>4. d.queued <= 1 /\ ~d.cleaned
    BY <2>2, <2>3
  <2> QED BY <1>1, <2>1, <2>3, <2>4, RowKeeps
<1>3. CASE UNCHANGED draft
  BY <1>1, <1>3, RowLeft
<1> QED BY <1>2, <1>3 DEF QueueLoaded

LEMMA DropLoadedKeeps ==
    ASSUME WizardInv, NEW h \in Taps, DropLoaded(h)
    PROVE  WizardInv'
<1> DEFINE b == tap[h].draft
           d == StatusDraft(draft[b], "cancelled")
<1>1. /\ AllSuspended /\ tap[h].at \in OnDraft /\ tap[h].at \notin Shaping /\ WizardShape
      /\ UNCHANGED <<storage, wizard, nonces, upset>> /\ Ends(h) /\ DraftsStand
      /\ b \in Drafts /\ draft[b] \in Draft
  BY DEF DropLoaded, WizardInv, WizardShape, OnDraft, Shaping
<1>2. CASE draft' = [draft EXCEPT ![b].status = "cancelled"]
  <2>1. draft' = [draft EXCEPT ![b] = d]
    BY <1>1, <1>2 DEF StatusDraft
  <2>2. /\ d \in Draft /\ d.nonce = draft[b].nonce /\ d.status = "cancelled"
        /\ d.queued = draft[b].queued /\ d.cleaned = draft[b].cleaned
    <3>1. "cancelled" \in Statuses
      BY DEF Statuses
    <3> QED BY <1>1, <3>1, StatusDraftIs
  <2> HIDE DEF d
  <2>3. d.queued <= 1 /\ (d.cleaned => d.queued = 0)
    BY <1>1, <2>2 DEF DraftsStand
  <2> QED BY <1>1, <2>1, <2>2, <2>3, RowKeeps
<1>3. CASE UNCHANGED draft
  BY <1>1, <1>3, RowLeft
<1> QED BY <1>2, <1>3 DEF DropLoaded

LEMMA BotRestartsKeeps == WizardInv /\ BotRestarts => WizardInv'
<1> SUFFICES ASSUME WizardInv, BotRestarts PROVE WizardInv'
  OBVIOUS
<1>1. /\ WizardShape /\ DraftsStand /\ UNCHANGED <<storage, nonces, upset>>
      /\ wizard' = NoWizard \/ UNCHANGED wizard
      /\ tap' = [h \in Taps |-> NoTap] /\ nonces \in Nat
      /\ draft \in [Drafts -> Draft]
  BY DEF BotRestarts, WizardInv, WizardShape
<1>2. \A h \in Taps : tap'[h] \in Tap /\ tap'[h].at = "idle" /\ tap'[h].nonce = 0
  BY <1>1, NoTapIsOne
<1>3. ASSUME NEW b \in Drafts
      PROVE  /\ draft'[b] = draft[b] \/ draft'[b] = LostDraft(draft[b])
             /\ BeingMade(b) => draft'[b] = LostDraft(draft[b])
  BY DEF BotRestarts, LostDraft, BeingMade
<1>4. ASSUME NEW b \in Drafts
      PROVE  /\ draft'[b] \in Draft /\ draft'[b].nonce = draft[b].nonce
             /\ draft'[b].status = draft[b].status /\ draft'[b].queued = draft[b].queued
             /\ draft'[b].cleaned = draft[b].cleaned
             /\ draft'[b] # draft[b] => draft'[b].lost
             /\ BeingMade(b) => draft'[b].lost
  <2>1. draft[b] \in Draft
    BY <1>1
  <2>2. /\ LostDraft(draft[b]) \in Draft /\ LostDraft(draft[b]).nonce = draft[b].nonce
        /\ LostDraft(draft[b]).status = draft[b].status
        /\ LostDraft(draft[b]).queued = draft[b].queued
        /\ LostDraft(draft[b]).cleaned = draft[b].cleaned /\ LostDraft(draft[b]).lost
    BY <2>1, LostDraftIs
  <2> QED BY <1>3, <2>1, <2>2
<1>5. wizard'.state \in WizardStates /\ wizard'.nonce \in Nat
  BY <1>1 DEF WizardShape, NoWizard, WizardStates
<1>6. tap' \in [Taps -> Tap] /\ draft' \in [Drafts -> Draft]
  <2>1. draft' = [b \in Drafts |-> draft'[b]]
    BY DEF BotRestarts
  <2> QED BY <1>1, <1>4, <2>1, NoTapIsOne
<1>7. WizardShape'
  BY <1>1, <1>2, <1>4, <1>5, <1>6 DEF WizardShape, OnDraft, Shaping
<1>8. LooksStand'
  BY <1>2 DEF LooksStand, Looking
<1>9. ClaimsStand'
  <2>1. UNCHANGED wizard \/ wizard'.nonce = 0
    BY <1>1 DEF NoWizard
  <2> QED BY <1>1, <1>2, <1>4, <2>1, NobodyClaims DEF WizardInv
<1>10. DraftsStand'
  BY <1>1, <1>4 DEF DraftsStand
<1> QED BY <1>7, <1>8, <1>9, <1>10 DEF WizardInv

LEMMA TapStepKeeps ==
    ASSUME WizardInv, NEW h \in Taps, TapStep(h)
    PROVE  WizardInv'
<1>1. \A action \in {"cancel", "skip", "segment", "send", "drop"} : action \in Actions
  BY DEF Actions
<1>2. ASSUME NEW action \in {"cancel", "skip", "segment"}, NEW n \in 1..nonces,
             TapWizard(h, action, n)
      PROVE  WizardInv'
  BY <1>1, <1>2, TapWizardKeeps
<1>3. ASSUME NEW action \in {"send", "drop"}, NEW b \in Drafts, TapCard(h, action, b)
      PROVE  WizardInv'
  BY <1>1, <1>3, TapCardKeeps
<1>4. ASSUME NEW card \in BOOLEAN, NEW error \in BOOLEAN, Preview(h, card, error)
      PROVE  WizardInv'
  BY <1>4, PreviewKeeps
<1> QED BY <1>2, <1>3, <1>4, ReadDataKeeps, ReadStateKeeps, ActKeeps, CreateDraftKeeps,
       CreateEndsKeep, ClearStateKeeps, DiscardDraftKeeps, DiscardFailsKeeps, LoadDraftKeeps,
       QueueLoadedKeeps, DropLoadedKeeps DEF TapStep

LEMMA WizardKeeps == WizardInv /\ [WizardNext]_wizardVars => WizardInv'
<1> SUFFICES ASSUME WizardInv, [WizardNext]_wizardVars PROVE WizardInv'
  OBVIOUS
<1>1. CASE UNCHANGED wizardVars
  <2>1. UNCHANGED <<storage, wizard, nonces, upset, tap, draft>>
    BY <1>1 DEF wizardVars
  <2>2. WizardShape' /\ LooksStand' /\ DraftsStand'
    BY <2>1 DEF WizardInv, WizardShape, LooksStand, DraftsStand, BeingMade
  <2>3. ClaimsStand'
    BY <2>1, NobodyClaims DEF WizardInv
  <2> QED BY <2>2, <2>3 DEF WizardInv
<1>2. CASE WizardNext
  BY <1>2, WizardStartKeeps, DialogueKeeps, TapStepKeeps, BotRestartsKeeps DEF WizardNext
<1> QED BY <1>1, <1>2

\* With the dialogue in memory a dialogue makes one draft; a draft is on a card, in
\* the making or lost, is queued once, and no cleanup takes a queued broadcast.
THEOREM DraftsSettled == WizardSpec => []DraftsAreSettled
<1>1. WizardSpec => []WizardInv
  BY WizardStarts, WizardKeeps, PTL DEF WizardSpec
<1> QED BY <1>1, WizardInvTells, PTL

-----------------------------------------------------------------------------
(***************************************************************************)
(* Listing: how the adapters walk a source.                                *)
(***************************************************************************)
\* A vacancy that is dealt with: in the store, or known to be left out.
Settled == stored \cup missed

ListingRecord ==
  [at : {"none", "window", "page"}, hi : Nat, windows : Seq(Nat \X Nat), since : Int,
   full : BOOLEAN, newest : Nat, page : Nat, pages : Nat, seen : SUBSET Items, moved : BOOLEAN]

ListingTypes ==
  /\ adapter \in {"hh", "osonish", "vacancy_gov"}
  /\ now \in Nat /\ date \in [Items -> Nat \cup {Never}]
  /\ removed \subseteq Items /\ stored \subseteq Items /\ missed \subseteq Items
  /\ cursor \in Nat \cup {Never}
  /\ listing \in ListingRecord

\* Nothing is dated, saved or begun later than now, and a walk does not look for
\* what may still be published.
ClockInv ==
  /\ Lookback <= now
  /\ \A i \in Items : date[i] <= now
  /\ cursor <= now /\ listing.hi <= now
  /\ adapter # "hh" =>
       /\ listing.at # "window"
       /\ listing.at = "page" =>
            listing.newest <= now /\ listing.since <= listing.hi - MaxDelay

\* hh's windows follow each other, and what is older than the first is settled.
WindowsFollow(windows, hi) ==
  /\ windows # <<>>
  /\ \A k \in 1..Len(windows) : windows[k][1] <= windows[k][2] /\ windows[k][2] <= hi
  /\ \A k \in 1..Len(windows) - 1 : windows[k][2] = windows[k + 1][1]

WindowsInv ==
  adapter = "hh" /\ listing.at # "none" =>
    /\ WindowsFollow(listing.windows, listing.hi)
    /\ \A i \in Listed : date[i] < Window[1] /\ date[i] < listing.hi - Overlap => i \in Settled

\* What is left of a window is on the pages still to come.
PagesInv ==
  adapter = "hh" /\ listing.at = "page" /\ ~listing.moved =>
    \A i \in InWindow \ Settled :
      /\ Position(i, InWindow) >= listing.page * PerPage
      /\ Position(i, InWindow) < listing.pages * PerPage

\* What is left of a walk is on the pages still to come, or too young for the
\* cursor that the walk will save.
WalkInv ==
  adapter # "hh" /\ listing.at = "page" =>
    /\ \A i \in listing.seen : Published(i) /\ (i \in Listed => i \in Settled)
    /\ \A i \in Listed : date[i] < listing.since => i \in Settled
    /\ ~listing.moved => \A i \in Listed \ Settled :
         date[i] >= listing.newest - Overlap \/ Position(i, Listed) >= listing.page * PerPage

ListingInv ==
  /\ ListingTypes /\ ClockInv /\ WindowsInv /\ PagesInv /\ WalkInv /\ NothingIsLeftBehind

-----------------------------------------------------------------------------
(***************************************************************************)
(* Numbers.                                                                *)
(***************************************************************************)
LEMMA DivIs ==
  ASSUME NEW a \in Nat, NEW p \in Nat \ {0}
  PROVE  a \div p \in Nat /\ (a \div p) * p <= a /\ a < (a \div p) * p + p
OBVIOUS

LEMMA MulMono ==
  ASSUME NEW a \in Nat, NEW b \in Nat, NEW p \in Nat \ {0}, a < b
  PROVE  a * p + p <= b * p
OBVIOUS

LEMMA MulMonoLe ==
  ASSUME NEW a \in Nat, NEW b \in Nat, NEW p \in Nat \ {0}, a <= b
  PROVE  a * p <= b * p /\ a * p \in Nat /\ b * p \in Nat
<1>1. a * p \in Nat /\ b * p \in Nat
  OBVIOUS
<1>2. CASE a = b
  BY <1>1, <1>2
<1>3. CASE a < b
  <2>1. a * p + p <= b * p
    BY <1>3, MulMono
  <2> QED BY <1>1, <2>1
<1> QED BY <1>2, <1>3

LEMMA DivIsOnly ==
  ASSUME NEW a \in Nat, NEW p \in Nat \ {0}, NEW k \in Nat, k * p <= a, a < k * p + p
  PROVE  a \div p = k
<1> DEFINE d == a \div p
<1>1. d \in Nat /\ d * p <= a /\ a < d * p + p
  BY DivIs
<1> HIDE DEF d
<1>2. d * p \in Nat /\ k * p \in Nat
  BY <1>1
<1>3. ~(d < k)
  <2> SUFFICES ASSUME d < k PROVE FALSE
    OBVIOUS
  <2>1. d * p + p <= k * p
    BY <1>1, MulMono
  <2> QED BY <1>1, <1>2, <2>1
<1>4. ~(k < d)
  <2> SUFFICES ASSUME k < d PROVE FALSE
    OBVIOUS
  <2>1. k * p + p <= d * p
    BY <1>1, MulMono
  <2> QED BY <1>1, <1>2, <2>1
<1> QED BY <1>1, <1>3, <1>4 DEF d

\* A set of numbers has a smallest one: the smaller of two numbers is the smaller
\* initial segment.
LEMMA SmallestExists ==
  ASSUME NEW S \in SUBSET Nat, S # {}
  PROVE  \E d \in S : \A e \in S : d <= e
<1> DEFINE Below == {0..d : d \in S}
<1>1. Below \subseteq FiniteSubsetsOf(Nat) /\ Below # {}
  <2>1. \A d \in S : 0..d \subseteq Nat /\ IsFiniteSet(0..d)
    BY FS_Interval
  <2> QED BY <2>1 DEF FiniteSubsetsOf
<1>2. PICK x \in Below : \A y \in Below : <<y, x>> \notin StrictSubsetOrdering(Nat)
  BY <1>1, FS_StrictSubsetOrderingWellFounded, WFMin
<1>3. PICK d \in S : x = 0..d
  BY <1>2
<1>4. ASSUME NEW e \in S, ~(d <= e) PROVE FALSE
  <2>1. 0..e \in Below
    BY <1>4
  <2>2. 0..e \subseteq Nat /\ 0..d \subseteq Nat
    OBVIOUS
  <2>3. 0..e \subseteq 0..d /\ d \in 0..d /\ d \notin 0..e
    BY <1>4
  <2>4. <<0..e, 0..d>> \in StrictSubsetOrdering(Nat)
    BY <2>2, <2>3 DEF StrictSubsetOrdering
  <2> QED BY <2>1, <2>4, <1>2, <1>3
<1> QED BY <1>4

LEMMA MostIs ==
  ASSUME NEW S \in SUBSET Nat, S # {}, NEW bound \in Nat, \A x \in S : x <= bound
  PROVE  Most(S) \in S /\ Most(S) \in Nat /\ \A y \in S : y <= Most(S)
<1> DEFINE gaps == {bound - x : x \in S}
<1>1. gaps \in SUBSET Nat /\ gaps # {}
  <2>1. \A x \in S : x \in Nat /\ x <= bound
    OBVIOUS
  <2>2. PICK x \in S : TRUE
    OBVIOUS
  <2>3. bound - x \in gaps
    OBVIOUS
  <2>4. \A x1 \in S : bound - x1 \in Nat
    BY <2>1
  <2> QED BY <2>3, <2>4
<1>2. PICK d \in gaps : \A e \in gaps : d <= e
  BY <1>1, SmallestExists
<1>3. PICK x \in S : d = bound - x
  BY <1>2
<1>4. \A y \in S : x >= y
  <2> SUFFICES ASSUME NEW y \in S PROVE x >= y
    OBVIOUS
  <2>1. bound - y \in gaps
    OBVIOUS
  <2>2. d <= bound - y
    BY <1>2, <2>1
  <2> QED BY <1>3, <2>2
<1>5. \E z \in S : \A y \in S : z >= y
  BY <1>4
<1>6. Most(S) \in S /\ \A y \in S : Most(S) >= y
  BY <1>5 DEF Most
<1> QED BY <1>6

LEMMA MostOfTwo ==
  ASSUME NEW a \in Int, NEW b \in Int
  PROVE  Most({a, b}) \in {a, b} /\ Most({a, b}) >= a /\ Most({a, b}) >= b
<1>1. \E z \in {a, b} : \A y \in {a, b} : z >= y
  OBVIOUS
<1>2. Most({a, b}) \in {a, b} /\ \A y \in {a, b} : Most({a, b}) >= y
  BY <1>1 DEF Most
<1> QED BY <1>2

LEMMA LeastOfTwo ==
  ASSUME NEW a \in Int, NEW b \in Int
  PROVE  Least({a, b}) \in {a, b} /\ Least({a, b}) <= a /\ Least({a, b}) <= b
<1>1. \E z \in {a, b} : \A y \in {a, b} : z <= y
  OBVIOUS
<1>2. Least({a, b}) \in {a, b} /\ \A y \in {a, b} : Least({a, b}) <= y
  BY <1>1 DEF Least
<1> QED BY <1>2

-----------------------------------------------------------------------------
(***************************************************************************)
(* Pages of a sorted list.                                                 *)
(***************************************************************************)
LEMMA FiniteSources ==
  ASSUME NEW S \in SUBSET Items
  PROVE  IsFiniteSet(S) /\ Cardinality(S) \in Nat
<1>1. IsFiniteSet(S)
  BY ListingAssumption, FS_Subset
<1> QED BY <1>1, FS_CardinalityType

LEMMA PositionIs ==
  ASSUME ListingTypes, NEW S \in SUBSET Items, NEW i \in Items
  PROVE  /\ Position(i, S) \in Nat
         /\ i \in S => Position(i, S) < Cardinality(S)
<1> DEFINE front == {j \in S : Before(j, i)}
<1>1. front \in SUBSET S /\ Position(i, S) = Cardinality(front)
  BY DEF Position
<1>2. i \notin front
  <2>1. date[i] \in Int /\ i \in Int
    BY ListingAssumption DEF ListingTypes, Never
  <2> QED BY <2>1 DEF Before
<1> HIDE DEF front
<1>3. IsFiniteSet(S) /\ Cardinality(S) \in Nat
  BY FiniteSources
<1>4. Cardinality(front) \in Nat
  BY <1>1, FiniteSources
<1>5. Cardinality(front) <= Cardinality(S) /\ (Cardinality(S) = Cardinality(front) => S = front)
  BY <1>1, <1>3, FS_Subset
<1> QED BY <1>1, <1>2, <1>3, <1>4, <1>5

LEMMA Earlier ==
  ASSUME ListingTypes, NEW S \in SUBSET Items, NEW i \in S, NEW j \in S, Before(i, j)
  PROVE  Position(i, S) < Position(j, S)
<1> DEFINE fi == {x \in S : Before(x, i)}
           fj == {x \in S : Before(x, j)}
<1>0. \A x \in Items : date[x] \in Int /\ x \in Int
  BY ListingAssumption DEF ListingTypes, Never
<1>1. fi \in SUBSET fj /\ i \in fj /\ i \notin fi
  BY <1>0 DEF Before
<1>2. Position(i, S) = Cardinality(fi) /\ Position(j, S) = Cardinality(fj)
  BY DEF Position
<1>3. fi \in SUBSET Items /\ fj \in SUBSET Items
  OBVIOUS
<1> HIDE DEF fi, fj
<1>4. IsFiniteSet(fj) /\ Cardinality(fj) \in Nat /\ Cardinality(fi) \in Nat
  BY <1>3, FiniteSources
<1>5. Cardinality(fi) <= Cardinality(fj) /\ (Cardinality(fj) = Cardinality(fi) => fj = fi)
  BY <1>1, <1>4, FS_Subset
<1> QED BY <1>1, <1>2, <1>4, <1>5

\* What stands behind another vacancy is not newer, and no two stand in one place.
LEMMA Later ==
  ASSUME ListingTypes, NEW S \in SUBSET Items, NEW i \in S, NEW j \in S
  PROVE  /\ Position(i, S) <= Position(j, S) => date[j] <= date[i]
         /\ Position(i, S) = Position(j, S) => i = j
<1>0. date[i] \in Int /\ i \in Int /\ date[j] \in Int /\ j \in Int
  BY ListingAssumption DEF ListingTypes, Never
<1>1. Position(i, S) \in Nat /\ Position(j, S) \in Nat
  BY PositionIs
<1>2. Before(i, j) \/ Before(j, i) \/ i = j
  BY <1>0 DEF Before
<1>3. CASE Before(i, j)
  <2>1. Position(i, S) < Position(j, S)
    BY <1>3, Earlier
  <2>2. date[j] <= date[i]
    BY <1>0, <1>3 DEF Before
  <2> QED BY <1>1, <2>1, <2>2
<1>4. CASE Before(j, i)
  <2>1. Position(j, S) < Position(i, S)
    BY <1>4, Earlier
  <2> QED BY <1>1, <2>1
<1>5. CASE i = j
  BY <1>0, <1>5
<1> QED BY <1>2, <1>3, <1>4, <1>5

LEMMA OnPage ==
  ASSUME ListingTypes, NEW S \in SUBSET Items, NEW k \in Nat, NEW i \in S
  PROVE  /\ i \in PageOf(S, k) =>
              k * PerPage <= Position(i, S) /\ Position(i, S) < k * PerPage + PerPage
         /\ k * PerPage <= Position(i, S) /\ Position(i, S) < k * PerPage + PerPage =>
              i \in PageOf(S, k)
         /\ k * PerPage \in Nat /\ PerPage \in Nat \ {0} /\ (k + 1) * PerPage = k * PerPage + PerPage
<1>1. PerPage \in Nat \ {0}
  BY ListingAssumption
<1>2. Position(i, S) \in Nat
  BY PositionIs
<1>3. i \in PageOf(S, k) <=> Position(i, S) \div PerPage = k
  BY DEF PageOf
<1> DEFINE pos == Position(i, S)
<1> HIDE DEF pos
<1>4. (pos \div PerPage) * PerPage <= pos /\ pos < (pos \div PerPage) * PerPage + PerPage
  BY <1>1, <1>2, DivIs DEF pos
<1>5. k * PerPage <= pos /\ pos < k * PerPage + PerPage => pos \div PerPage = k
  BY <1>1, <1>2, DivIsOnly DEF pos
<1>6. k * PerPage \in Nat /\ (k + 1) * PerPage = k * PerPage + PerPage
  BY <1>1
<1> QED BY <1>1, <1>3, <1>4, <1>5, <1>6 DEF pos

\* Behind an empty page there is nothing.
LEMMA EmptyPage ==
  ASSUME ListingTypes, NEW S \in SUBSET Items, NEW k \in Nat, PageOf(S, k) = {}
  PROVE  \A i \in S : Position(i, S) < k * PerPage
<1> DEFINE p == k * PerPage
           behind == {Position(x, S) : x \in {y \in S : Position(y, S) >= p}}
<1>0. PerPage \in Nat \ {0} /\ p \in Nat
  BY ListingAssumption
<1>1. \A x \in S : Position(x, S) \in Nat
  BY PositionIs
<1> HIDE DEF p
<1>2. SUFFICES ASSUME NEW i \in S, Position(i, S) >= p PROVE FALSE
  BY <1>0, <1>1 DEF p
<1>3. behind \in SUBSET Nat /\ behind # {}
  BY <1>1, <1>2
<1>4. PICK d \in behind : \A e \in behind : d <= e
  BY <1>3, SmallestExists
<1>5. PICK j \in S : d = Position(j, S) /\ d >= p
  BY <1>4
<1> DEFINE front == {x \in S : Before(x, j)}
           place == [x \in front |-> Position(x, S)]
<1>6. \A x \in front : Position(x, S) \in 0..(p - 1)
  <2> SUFFICES ASSUME NEW x \in front PROVE Position(x, S) < p
    BY <1>0, <1>1
  <2>1. Position(x, S) < d
    BY <1>5, Earlier
  <2>2. SUFFICES ASSUME Position(x, S) >= p PROVE FALSE
    BY <1>0, <1>1
  <2>3. Position(x, S) \in behind
    BY <2>2
  <2>4. Position(x, S) \in Nat /\ d \in Nat
    BY <1>1, <1>5
  <2> QED BY <1>4, <2>1, <2>3, <2>4
<1>7. IsFiniteSet(front) /\ Cardinality(front) \in Nat
  BY FiniteSources
<1>8. IsFiniteSet(0..(p - 1)) /\ Cardinality(0..(p - 1)) = p
  <2>1. 0 \in Int /\ p - 1 \in Int
    BY <1>0
  <2>2. /\ IsFiniteSet(0..(p - 1))
        /\ Cardinality(0..(p - 1)) = IF 0 > p - 1 THEN 0 ELSE (p - 1) - 0 + 1
    BY <2>1, FS_Interval
  <2>3. (IF 0 > p - 1 THEN 0 ELSE (p - 1) - 0 + 1) = p
    BY <1>0
  <2> QED BY <2>2, <2>3
<1>9. d = Cardinality(front)
  BY <1>5 DEF Position
<1>10. ~(p < d)
  <2> SUFFICES ASSUME p < d PROVE FALSE
    OBVIOUS
  <2>1. place \in [front -> 0..(p - 1)]
    BY <1>6
  <2>2. \E x, y \in front : x # y /\ place[x] = place[y]
    <3> DEFINE T == 0..(p - 1)
    <3>1. IsFiniteSet(T) /\ Cardinality(T) < Cardinality(front) /\ place \in [front -> T]
      BY <1>8, <1>9, <2>1
    <3> HIDE DEF front, place, T
    <3> QED BY <1>7, <3>1, FS_PigeonHole
  <2>3. PICK x \in front, y \in front : x # y /\ place[x] = place[y]
    BY <2>2
  <2>4. Position(x, S) = Position(y, S)
    BY <2>3
  <2> QED BY <2>3, <2>4, Later
<1>11. d = p
  BY <1>0, <1>1, <1>5, <1>10
<1>12. j \in PageOf(S, k)
  <2>1. p <= Position(j, S) /\ Position(j, S) < p + PerPage
    BY <1>0, <1>5, <1>11
  <2> QED BY <2>1, OnPage DEF p
<1> QED BY <1>12

\* And behind the last page.
LEMMA LastPageIs ==
  ASSUME ListingTypes, NEW S \in SUBSET Items
  PROVE  /\ PagesOf(S) \in Nat
         /\ \A i \in S : Position(i, S) < PagesOf(S) * PerPage
<1> DEFINE n == Cardinality(S)
           q == (n + PerPage - 1) \div PerPage
<1>0. PerPage \in Nat \ {0}
  BY ListingAssumption
<1>1. n \in Nat
  BY FiniteSources
<1> HIDE DEF n
<1>2. q \in Nat /\ n + PerPage - 1 < q * PerPage + PerPage
  <2> DEFINE a == n + PerPage - 1
  <2>1. a \in Nat
    BY <1>0, <1>1
  <2> HIDE DEF a
  <2>2. a \div PerPage \in Nat /\ a < (a \div PerPage) * PerPage + PerPage
    BY <1>0, <2>1, DivIs
  <2> QED BY <2>2 DEF a
<1> HIDE DEF q
<1>3. PagesOf(S) = Most({1, q})
  BY DEF PagesOf, n, q
<1>4. PagesOf(S) \in Nat /\ q <= PagesOf(S)
  BY <1>2, <1>3, MostOfTwo
<1>5. q * PerPage <= PagesOf(S) * PerPage
  <2>1. q * PerPage \in Nat /\ PagesOf(S) * PerPage \in Nat
    BY <1>0, <1>2, <1>4
  <2>2. CASE q = PagesOf(S)
    BY <2>1, <2>2
  <2>3. CASE q < PagesOf(S)
    <3>1. q * PerPage + PerPage <= PagesOf(S) * PerPage
      BY <1>0, <1>2, <1>4, <2>3, MulMono
    <3> QED BY <1>0, <2>1, <3>1
  <2> QED BY <1>2, <1>4, <2>2, <2>3
<1>6. ASSUME NEW i \in S PROVE Position(i, S) < PagesOf(S) * PerPage
  <2>1. Position(i, S) \in Nat /\ Position(i, S) < n
    BY PositionIs DEF n
  <2>2. q * PerPage \in Nat /\ PagesOf(S) * PerPage \in Nat
    BY <1>0, <1>2, <1>4
  <2> QED BY <1>0, <1>1, <1>2, <1>5, <2>1, <2>2
<1> QED BY <1>4, <1>6

-----------------------------------------------------------------------------
(***************************************************************************)
(* What the invariant says in numbers.                                     *)
(***************************************************************************)
LEMMA Bounds ==
  ASSUME ListingTypes
  PROVE  /\ Overlap \in Nat /\ Lookback \in Nat /\ MaxDelay \in Nat
         /\ MaxDelay <= Overlap /\ MaxDelay <= Lookback
         /\ PerPage \in Nat \ {0} /\ MaxPages \in Nat \ {0} /\ MinWindow \in Nat
         /\ now \in Nat /\ cursor \in Int /\ (cursor # Never => cursor \in Nat)
         /\ \A i \in Items : date[i] \in Int
         /\ \A i \in Listed : date[i] \in Nat /\ i \in Items
         /\ listing \in ListingRecord /\ Listed \in SUBSET Items
BY ListingAssumption DEF ListingTypes, Never, Listed, Published

LEMMA RecordIs ==
  ASSUME NEW r \in ListingRecord
  PROVE  /\ r.at \in {"none", "window", "page"} /\ r.hi \in Nat /\ r.windows \in Seq(Nat \X Nat)
         /\ r.since \in Int /\ r.newest \in Nat /\ r.page \in Nat /\ r.pages \in Nat
         /\ r.seen \in SUBSET Items /\ r.moved \in BOOLEAN
BY DEF ListingRecord

LEMMA NoListingIs ==
  NoListing \in ListingRecord /\ NoListing.at = "none" /\ NoListing.hi = 0 /\ NoListing.moved = FALSE
  /\ NoListing.seen = {} /\ NoListing.page = 0
<1>1. <<>> \in Seq(Nat \X Nat) /\ Never \in Int
  BY DEF Never
<1> QED BY <1>1 DEF NoListing, ListingRecord

\* Between runs nothing is to be said of a listing.
LEMMA AtRest ==
  ASSUME ListingInv, listing' = NoListing, UNCHANGED <<adapter, now, date, removed>>,
         stored' \subseteq Items, missed' \subseteq Items,
         cursor' \in Nat \cup {Never}, cursor' <= now, NothingIsLeftBehind'
  PROVE  ListingInv'
<1>1. ListingTypes /\ ClockInv
  BY DEF ListingInv
<1>2. now \in Nat
  BY <1>1, Bounds
<1>3. ListingTypes'
  BY <1>1, NoListingIs DEF ListingTypes
<1>4. ClockInv'
  BY <1>1, <1>2, NoListingIs DEF ClockInv
<1>5. WindowsInv' /\ PagesInv' /\ WalkInv'
  BY NoListingIs DEF WindowsInv, PagesInv, WalkInv
<1> QED BY <1>3, <1>4, <1>5 DEF ListingInv

-----------------------------------------------------------------------------
(***************************************************************************)
(* The source moves.                                                       *)
(***************************************************************************)
LEMMA MovesIs ==
  ASSUME ListingTypes, NEW i, Moves(i)
  PROVE  /\ listing' \in ListingRecord
         /\ listing'.at = listing.at /\ listing'.hi = listing.hi
         /\ listing'.windows = listing.windows /\ listing'.since = listing.since
         /\ listing'.newest = listing.newest /\ listing'.page = listing.page
         /\ listing'.pages = listing.pages /\ listing'.seen = listing.seen
         /\ ~listing'.moved => ~listing.moved
         /\ listing.at = "page" /\ (i \notin Listed => adapter = "hh") => listing'.moved
<1>1. listing \in ListingRecord
  BY DEF ListingTypes
<1>2. CASE listing.at = "page" /\ (i \notin Listed => adapter = "hh")
  <2>1. listing' = [listing EXCEPT !.moved = TRUE]
    BY <1>2 DEF Moves
  <2> QED BY <1>1, <2>1 DEF ListingRecord
<1>3. CASE ~(listing.at = "page" /\ (i \notin Listed => adapter = "hh"))
  <2>1. listing' = listing
    BY <1>3 DEF Moves
  <2> QED BY <1>1, <1>3, <2>1
<1> QED BY <1>2, <1>3

LEMMA AppearKeeps ==
  ASSUME ListingInv, NEW i \in Items, Appear(i)
  PROVE  ListingInv'
<1>1. ListingTypes /\ ClockInv
  BY DEF ListingInv
<1> DEFINE m == Most({0, now - MaxDelay})
<1>2. PICK t \in m..now : date' = [date EXCEPT ![i] = t]
  BY DEF Appear
<1>3. /\ ~Published(i) /\ Moves(i)
      /\ UNCHANGED <<adapter, now, removed, stored, cursor, sweep, stops, missed>>
  BY DEF Appear
<1>4. /\ Overlap \in Nat /\ Lookback \in Nat /\ MaxDelay \in Nat /\ MaxDelay <= Overlap
      /\ now \in Nat /\ cursor \in Int
  BY <1>1, Bounds
<1>5. m \in Int /\ m >= 0 /\ m >= now - MaxDelay
  <2>1. now - MaxDelay \in Int
    BY <1>4
  <2> QED BY <2>1, MostOfTwo
<1> HIDE DEF m
<1>6. t \in Nat /\ t <= now /\ t >= now - MaxDelay /\ t >= now - Overlap
  BY <1>4, <1>5
<1>7. date \in [Items -> Nat \cup {Never}]
  BY <1>1 DEF ListingTypes
<1>8. date'[i] = t /\ \A j \in Items : j # i => date'[j] = date[j]
  BY <1>2, <1>7
<1>9. \A j \in Listed' : j # i => j \in Listed /\ date'[j] = date[j]
  BY <1>3, <1>8 DEF Listed, Published
<1>10. \A j \in Listed : j # i /\ j \in Listed' /\ date'[j] = date[j]
  BY <1>3, <1>8 DEF Listed, Published
<1>11. /\ listing' \in ListingRecord
       /\ listing'.at = listing.at /\ listing'.hi = listing.hi
       /\ listing'.windows = listing.windows /\ listing'.since = listing.since
       /\ listing'.newest = listing.newest /\ listing'.page = listing.page
       /\ listing'.pages = listing.pages /\ listing'.seen = listing.seen
       /\ ~listing'.moved => ~listing.moved
       /\ listing.at = "page" /\ (i \notin Listed => adapter = "hh") => listing'.moved
  BY <1>1, <1>3, MovesIs
<1>12. listing.hi \in Nat /\ listing.hi <= now /\ listing.since \in Int /\ listing.newest \in Nat
  BY <1>1, RecordIs DEF ListingTypes, ClockInv
<1>13. ListingTypes'
  BY <1>1, <1>2, <1>3, <1>6, <1>11 DEF ListingTypes
<1>14. ClockInv'
  <2>1. \A j \in Items : date'[j] <= now
    BY <1>1, <1>6, <1>8 DEF ClockInv
  <2> QED BY <1>1, <1>3, <1>11, <2>1 DEF ClockInv
<1>15. WindowsInv'
  <2> SUFFICES ASSUME adapter = "hh", listing.at # "none"
               PROVE  /\ WindowsFollow(listing.windows, listing.hi)
                      /\ \A j \in Listed' : date'[j] < Window[1] /\ date'[j] < listing.hi - Overlap
                            => j \in Settled
    BY <1>3, <1>11 DEF WindowsInv, Window, Settled, WindowsFollow
  <2>1. WindowsInv
    BY DEF ListingInv
  <2>2. ~(date'[i] < listing.hi - Overlap)
    BY <1>4, <1>6, <1>8, <1>12
  <2> QED BY <1>9, <2>1, <2>2 DEF WindowsInv
<1>16. PagesInv'
  BY <1>3, <1>11 DEF PagesInv
<1>17. WalkInv'
  <2> SUFFICES ASSUME adapter # "hh", listing.at = "page"
               PROVE  /\ \A j \in listing.seen : Published(j)' /\ (j \in Listed' => j \in Settled)
                      /\ \A j \in Listed' : date'[j] < listing.since => j \in Settled
                      /\ ~listing'.moved => \A j \in Listed' \ Settled :
                           \/ date'[j] >= listing.newest - Overlap
                           \/ Position(j, Listed)' >= listing.page * PerPage
    BY <1>3, <1>11 DEF WalkInv, Settled
  <2>0. /\ \A j \in listing.seen : Published(j) /\ (j \in Listed => j \in Settled)
        /\ \A j \in Listed : date[j] < listing.since => j \in Settled
        /\ ~listing.moved => \A j \in Listed \ Settled :
             date[j] >= listing.newest - Overlap \/ Position(j, Listed) >= listing.page * PerPage
    BY DEF ListingInv, WalkInv
  <2>1. listing.newest <= now /\ listing.since <= listing.hi - MaxDelay
    BY <1>1 DEF ClockInv
  <2>2. \A j \in listing.seen : Published(j)' /\ (j \in Listed' => j \in Settled)
    <3> SUFFICES ASSUME NEW j \in listing.seen
                 PROVE  Published(j)' /\ (j \in Listed' => j \in Settled)
      OBVIOUS
    <3>1. j # i /\ j \in Items
      BY <1>1, <1>3, <2>0, RecordIs DEF ListingTypes
    <3> QED BY <1>8, <1>9, <2>0, <3>1 DEF Published
  <2>3. ~(date'[i] < listing.since) /\ date'[i] >= listing.newest - Overlap
    BY <1>4, <1>6, <1>8, <1>12, <2>1
  <2>4. ASSUME NEW j \in Listed PROVE Position(j, Listed)' >= Position(j, Listed)
    <3> DEFINE old == {x \in Listed : Before(x, j)}
               new == {x \in Listed' : Before(x, j)'}
    <3>1. old \in SUBSET new /\ new \in SUBSET Items
      BY <1>10 DEF Before, Listed
    <3>2. Position(j, Listed) = Cardinality(old) /\ Position(j, Listed)' = Cardinality(new)
      BY DEF Position
    <3> HIDE DEF old, new
    <3>3. IsFiniteSet(new) /\ Cardinality(new) \in Nat
      BY <3>1, FiniteSources
    <3>4. Cardinality(old) <= Cardinality(new) /\ Cardinality(old) \in Nat
      BY <3>1, <3>3, FS_Subset, FS_CardinalityType
    <3> QED BY <3>2, <3>3, <3>4
  <2>5. ASSUME ~listing'.moved, NEW j \in Listed' \ Settled
        PROVE  \/ date'[j] >= listing.newest - Overlap
               \/ Position(j, Listed)' >= listing.page * PerPage
    <3>1. CASE j = i
      BY <2>3, <3>1
    <3>2. CASE j # i
      <4>1. j \in Listed \ Settled /\ date'[j] = date[j] /\ ~listing.moved
        BY <1>9, <1>11, <2>5, <3>2
      <4>2. date[j] >= listing.newest - Overlap \/ Position(j, Listed) >= listing.page * PerPage
        BY <2>0, <4>1
      <4>3. Position(j, Listed)' >= Position(j, Listed)
        BY <2>4, <4>1
      <4>4. Position(j, Listed) \in Nat /\ listing.page * PerPage \in Nat
        <5>1. Listed \in SUBSET Items /\ j \in Items /\ PerPage \in Nat /\ listing.page \in Nat
          BY <1>1, <4>1, Bounds, RecordIs
        <5>2. Position(j, Listed) \in Nat
          BY <1>1, <5>1, PositionIs
        <5>3. listing.page * PerPage \in Nat
          <6> DEFINE page == listing.page
          <6>1. page \in Nat
            BY <5>1
          <6> HIDE DEF page
          <6>2. page * PerPage \in Nat
            BY <5>1, <6>1
          <6> QED BY <6>2 DEF page
        <5> QED BY <5>2, <5>3
      <4>5. Position(j, Listed)' \in Nat
        <5> DEFINE new == {x \in Listed' : Before(x, j)'}
        <5>1. new \in SUBSET Items /\ Position(j, Listed)' = Cardinality(new)
          BY DEF Position, Listed
        <5> HIDE DEF new
        <5> QED BY <5>1, FiniteSources
      <4> DEFINE bar == listing.page * PerPage
                 then == Position(j, Listed)
                 next == Position(j, Listed)'
      <4>6. bar \in Nat /\ then \in Nat /\ next \in Nat /\ next >= then
        BY <4>3, <4>4, <4>5
      <4>7. then >= bar => next >= bar
        <5> HIDE DEF bar, then, next
        <5> QED BY <4>6
      <4> QED BY <4>1, <4>2, <4>7
    <3> QED BY <3>1, <3>2
  <2>6. \A j \in Listed' : date'[j] < listing.since => j \in Settled
    BY <1>9, <2>0, <2>3
  <2> QED BY <2>2, <2>5, <2>6
<1>18. NothingIsLeftBehind'
  <2> SUFFICES ASSUME NEW j \in Listed', cursor # Never, date'[j] < cursor - Overlap
               PROVE  j \in Settled
    BY <1>3 DEF NothingIsLeftBehind, Settled
  <2>1. cursor <= now
    BY <1>1 DEF ClockInv
  <2>2. j # i
    BY <1>4, <1>6, <1>8, <2>1
  <2> QED BY <1>9, <2>2 DEF ListingInv, NothingIsLeftBehind, Settled
<1> QED BY <1>13, <1>14, <1>15, <1>16, <1>17, <1>18 DEF ListingInv

LEMMA WithdrawKeeps ==
  ASSUME ListingInv, NEW i \in Items, Withdraw(i)
  PROVE  ListingInv'
<1>1. ListingTypes /\ ClockInv
  BY DEF ListingInv
<1>2. /\ i \in Listed /\ removed' = removed \cup {i}
      /\ stored' = stored \ {i} /\ missed' = missed \ {i} /\ Moves(i)
      /\ UNCHANGED <<adapter, now, date, cursor, sweep, stops>>
  BY DEF Withdraw
<1>3. /\ listing' \in ListingRecord
      /\ listing'.at = listing.at /\ listing'.hi = listing.hi
      /\ listing'.windows = listing.windows /\ listing'.since = listing.since
      /\ listing'.newest = listing.newest /\ listing'.page = listing.page
      /\ listing'.pages = listing.pages /\ listing'.seen = listing.seen
      /\ listing.at = "page" => listing'.moved
  BY <1>1, <1>2, MovesIs
<1>4. \A j \in Listed' : j \in Listed /\ j # i
  BY <1>2 DEF Listed, Published
<1>5. \A j : j \in Settled /\ j # i => j \in Settled'
  BY <1>2 DEF Settled
<1>6. ListingTypes'
  BY <1>1, <1>2, <1>3 DEF ListingTypes
<1>7. ClockInv'
  BY <1>1, <1>2, <1>3 DEF ClockInv
<1>8. WindowsInv'
  <2> SUFFICES ASSUME adapter = "hh", listing.at # "none"
               PROVE  /\ WindowsFollow(listing.windows, listing.hi)
                      /\ \A j \in Listed' : date[j] < Window[1] /\ date[j] < listing.hi - Overlap
                            => j \in Settled'
    BY <1>2, <1>3 DEF WindowsInv, Window, WindowsFollow
  <2>1. WindowsInv
    BY DEF ListingInv
  <2> QED BY <1>4, <1>5, <2>1 DEF WindowsInv
<1>9. PagesInv'
  BY <1>3 DEF PagesInv
<1>10. WalkInv'
  <2> SUFFICES ASSUME adapter # "hh", listing.at = "page"
               PROVE  /\ \A j \in listing.seen : Published(j)' /\ (j \in Listed' => j \in Settled')
                      /\ \A j \in Listed' : date[j] < listing.since => j \in Settled'
    BY <1>2, <1>3 DEF WalkInv
  <2>1. /\ \A j \in listing.seen : Published(j) /\ (j \in Listed => j \in Settled)
        /\ \A j \in Listed : date[j] < listing.since => j \in Settled
    BY DEF ListingInv, WalkInv
  <2> QED BY <1>2, <1>4, <1>5, <2>1 DEF Published
<1>11. NothingIsLeftBehind'
  <2> SUFFICES ASSUME NEW j \in Listed', cursor # Never, date[j] < cursor - Overlap
               PROVE  j \in Settled'
    BY <1>2 DEF NothingIsLeftBehind, Settled
  <2>1. j \in Settled
    BY <1>4 DEF ListingInv, NothingIsLeftBehind, Settled
  <2> QED BY <1>4, <1>5, <2>1
<1> QED BY <1>6, <1>7, <1>8, <1>9, <1>10, <1>11 DEF ListingInv

LEMMA TickKeeps ==
  ASSUME ListingInv, \/ ListingTick
                     \/ UNCHANGED listingVars
  PROVE  ListingInv'
<1>1. ListingTypes /\ ClockInv
  BY DEF ListingInv
<1>2. /\ now' \in {now, now + 1}
      /\ UNCHANGED <<adapter, date, removed, stored, cursor, listing, missed>>
  BY DEF ListingTick, listingVars
<1>3. now \in Nat /\ cursor \in Int /\ (\A j \in Items : date[j] \in Int) /\ Lookback \in Nat
  BY <1>1, Bounds
<1>4. listing.hi \in Nat /\ listing.newest \in Nat
  BY <1>1, RecordIs DEF ListingTypes
<1>5. ListingTypes'
  BY <1>1, <1>2, <1>3 DEF ListingTypes
<1>6. ClockInv'
  BY <1>1, <1>2, <1>3, <1>4 DEF ClockInv
<1>7. Listed' = Listed /\ Settled' = Settled /\ InWindow' = InWindow /\ Window' = Window
  BY <1>2 DEF Listed, Published, Settled, InWindow, Window
<1>9. WindowsInv'
  BY <1>2, <1>7 DEF ListingInv, WindowsInv, WindowsFollow
<1>10. PagesInv'
  BY <1>2, <1>7 DEF ListingInv, PagesInv, Position, Before
<1>11. WalkInv'
  BY <1>2, <1>7 DEF ListingInv, WalkInv, Position, Before, Published
<1>12. NothingIsLeftBehind'
  BY <1>2, <1>7 DEF ListingInv, NothingIsLeftBehind, Settled
<1> QED BY <1>5, <1>6, <1>9, <1>10, <1>11, <1>12 DEF ListingInv

LEMMA StopKeeps ==
  ASSUME ListingInv, Stop
  PROVE  ListingInv'
<1>1. ListingTypes /\ ClockInv /\ NothingIsLeftBehind
  BY DEF ListingInv
<1>2. listing' = NoListing /\ UNCHANGED <<adapter, now, date, removed, stored, cursor, missed>>
  BY DEF Stop
<1>3. NothingIsLeftBehind'
  BY <1>1, <1>2 DEF NothingIsLeftBehind, Listed, Published
<1> QED BY <1>1, <1>2, <1>3, AtRest DEF ListingTypes, ClockInv

-----------------------------------------------------------------------------
(***************************************************************************)
(* A run.                                                                  *)
(***************************************************************************)
\* What is settled stays so while the source stands still.
LEMMA StillBehind ==
  ASSUME NothingIsLeftBehind, UNCHANGED <<date, removed, cursor>>, Settled \subseteq Settled'
  PROVE  NothingIsLeftBehind'
BY DEF NothingIsLeftBehind, Listed, Published, Settled

LEMMA StartWindowsKeeps ==
  ASSUME ListingInv, StartWindows
  PROVE  ListingInv'
<1>1. ListingTypes /\ ClockInv /\ NothingIsLeftBehind
  BY DEF ListingInv
<1> DEFINE start == HHStart
<1>2. /\ adapter = "hh"
      /\ listing' = [NoListing EXCEPT !.at = "window", !.hi = now, !.windows = <<<<start, now>>>>]
      /\ missed' = missed \cup TooOld(start)
      /\ UNCHANGED <<adapter, now, date, removed, stored, cursor, sweep, stops>>
  BY DEF StartWindows
<1>3. /\ Overlap \in Nat /\ Lookback \in Nat /\ now \in Nat /\ cursor \in Int
      /\ Lookback <= now /\ cursor <= now
  BY <1>1, Bounds DEF ClockInv
<1>4. start \in Nat /\ start <= now
  <2> DEFINE other == IF cursor = Never THEN now - Lookback ELSE cursor - Overlap
  <2>1. now - Lookback \in Nat /\ other \in Int /\ now - Lookback <= now /\ other <= now
    BY <1>3
  <2>2. start = Most({now - Lookback, other})
    BY DEF HHStart
  <2> HIDE DEF other, start
  <2>3. start \in {now - Lookback, other} /\ start >= now - Lookback
    BY <2>1, <2>2, MostOfTwo
  <2> QED BY <2>1, <2>3
<1> HIDE DEF start
<1> DEFINE next == [NoListing EXCEPT !.at = "window", !.hi = now, !.windows = <<<<start, now>>>>]
<1>5. /\ next \in ListingRecord /\ next.at = "window" /\ next.hi = now
      /\ next.windows = <<<<start, now>>>>
  <2>1. <<<<start, now>>>> \in Seq(Nat \X Nat)
    BY <1>3, <1>4
  <2> QED BY <1>3, <2>1, NoListingIs DEF ListingRecord
<1>6. listing' = next
  BY <1>2
<1> HIDE DEF next
<1>7. Listed' = Listed /\ Settled \subseteq Settled' /\ TooOld(start) \subseteq Settled'
  BY <1>2 DEF Listed, Published, Settled
<1>8. ListingTypes'
  BY <1>1, <1>2, <1>5, <1>6 DEF ListingTypes, TooOld, Listed
<1>9. ClockInv'
  BY <1>1, <1>2, <1>3, <1>5, <1>6 DEF ClockInv
<1>10. WindowsInv'
  <2>1. Window' = <<start, now>>
    BY <1>5, <1>6 DEF Window
  <2>2. WindowsFollow(listing'.windows, listing'.hi)
    <3> DEFINE ws == <<<<start, now>>>>
    <3>1. Len(ws) = 1 /\ ws[1] = <<start, now>> /\ ws # <<>>
      OBVIOUS
    <3> HIDE DEF ws
    <3>2. WindowsFollow(ws, now)
      <4>1. 1..Len(ws) = {1} /\ 1..Len(ws) - 1 = {}
        BY <3>1
      <4>2. ws[1][1] = start /\ ws[1][2] = now /\ now <= now
        BY <1>3, <3>1
      <4> QED BY <1>4, <3>1, <4>1, <4>2 DEF WindowsFollow
    <3> QED BY <1>5, <1>6, <3>2 DEF ws
  <2>3. \A i \in Listed : date[i] < start => i \in Settled'
    BY <1>7 DEF TooOld
  <2> QED BY <1>2, <1>7, <2>1, <2>2, <2>3 DEF WindowsInv, WindowsFollow
<1>11. PagesInv' /\ WalkInv'
  BY <1>2, <1>5, <1>6 DEF PagesInv, WalkInv
<1>12. NothingIsLeftBehind'
  BY <1>1, <1>2, <1>7, StillBehind
<1> QED BY <1>8, <1>9, <1>10, <1>11, <1>12 DEF ListingInv

LEMMA StartPagesKeeps ==
  ASSUME ListingInv, StartPages
  PROVE  ListingInv'
<1>1. ListingTypes /\ ClockInv /\ NothingIsLeftBehind
  BY DEF ListingInv
<1> DEFINE full == adapter = "vacancy_gov" /\ SweepDue
           since == IF adapter = "osonish" THEN OsonishSince ELSE GovSince(full)
           newest == Most({0, cursor})
           next == [NoListing EXCEPT !.at = "page", !.hi = now, !.since = since, !.full = full,
                                     !.newest = newest]
<1>2. /\ adapter # "hh" /\ listing' = next
      /\ missed' = IF cursor = Never THEN missed \cup TooOld(since) ELSE missed
      /\ UNCHANGED <<adapter, now, date, removed, stored, cursor, sweep, stops>>
  BY DEF StartPages
<1>3. /\ Overlap \in Nat /\ Lookback \in Nat /\ MaxDelay \in Nat /\ MaxDelay <= Overlap
      /\ Overlap <= Lookback /\ now \in Nat /\ cursor \in Int /\ Lookback <= now /\ cursor <= now
      /\ \A i \in Listed : date[i] \in Nat
  BY <1>1, Bounds, ListingAssumption DEF ClockInv
<1>4. newest \in Nat /\ newest <= now
  <2>1. newest \in {0, cursor} /\ newest >= 0
    BY <1>3, MostOfTwo
  <2> HIDE DEF newest
  <2> QED BY <1>3, <2>1
<1>5. \/ cursor = Never /\ since \in {now - Lookback, Never}
      \/ cursor # Never /\ since \in {cursor - Overlap, Never}
  BY <1>1, <1>2 DEF ListingTypes, OsonishSince, GovSince, SweepDue
<1>6. since \in Int /\ since <= now - MaxDelay
  BY <1>3, <1>5 DEF Never
<1>7. full \in BOOLEAN
  OBVIOUS
<1> HIDE DEF full, since, newest
<1>8. /\ next \in ListingRecord /\ next.at = "page" /\ next.hi = now /\ next.since = since
      /\ next.newest = newest /\ next.seen = {} /\ next.page = 0
  BY <1>3, <1>4, <1>6, <1>7, NoListingIs DEF ListingRecord
<1> HIDE DEF next
<1>9. Listed' = Listed /\ Settled \subseteq Settled'
  BY <1>2 DEF Listed, Published, Settled
<1>10. ListingTypes'
  BY <1>1, <1>2, <1>8 DEF ListingTypes, TooOld, Listed
<1>11. ClockInv'
  BY <1>1, <1>2, <1>3, <1>4, <1>6, <1>8 DEF ClockInv
<1>12. WindowsInv' /\ PagesInv'
  BY <1>2 DEF WindowsInv, PagesInv
<1>13. \A i \in Listed : date[i] < since => i \in Settled'
  <2> SUFFICES ASSUME NEW i \in Listed, date[i] < since PROVE i \in Settled'
    OBVIOUS
  <2>1. since # Never
    BY <1>3 DEF Never
  <2>2. CASE cursor = Never
    BY <1>2, <2>2 DEF TooOld, Settled
  <2>3. CASE cursor # Never
    <3>1. date[i] < cursor - Overlap
      BY <1>5, <2>1, <2>3
    <3> QED BY <1>1, <1>9, <2>3, <3>1 DEF NothingIsLeftBehind, Settled
  <2> QED BY <2>2, <2>3
<1>14. WalkInv'
  <2>1. \A i \in Listed : Position(i, Listed)' >= 0 * PerPage
    <3> SUFFICES ASSUME NEW i \in Listed PROVE Position(i, Listed)' >= 0 * PerPage
      OBVIOUS
    <3>1. Position(i, Listed)' = Position(i, Listed)
      BY <1>2, <1>9 DEF Position, Before
    <3>2. Position(i, Listed) \in Nat /\ PerPage \in Nat
      BY <1>1, Bounds, PositionIs
    <3>3. 0 * PerPage = 0
      BY <3>2
    <3> QED BY <3>1, <3>2, <3>3
  <2> QED BY <1>2, <1>8, <1>9, <1>13, <2>1 DEF WalkInv
<1>15. NothingIsLeftBehind'
  BY <1>1, <1>2, <1>9, StillBehind
<1> QED BY <1>10, <1>11, <1>12, <1>14, <1>15 DEF ListingInv

\* The windows after the first.
LEMMA WindowsAre ==
  ASSUME ListingInv, adapter = "hh", listing.at # "none"
  PROVE  /\ listing.windows \in Seq(Nat \X Nat) /\ listing.windows # <<>>
         /\ Len(listing.windows) \in Nat /\ Len(listing.windows) >= 1
         /\ Window = listing.windows[1] /\ Window = <<Window[1], Window[2]>>
         /\ Window[1] \in Nat /\ Window[2] \in Nat /\ listing.hi \in Nat
         /\ Window[1] <= Window[2] /\ Window[2] <= listing.hi /\ listing.hi <= now
         /\ Tail(listing.windows) \in Seq(Nat \X Nat)
         /\ Len(Tail(listing.windows)) = Len(listing.windows) - 1
         /\ \A k \in 1..Len(listing.windows) - 1 : Tail(listing.windows)[k] = listing.windows[k + 1]
         /\ \A i \in Listed : date[i] < Window[1] /\ date[i] < listing.hi - Overlap => i \in Settled
<1>1. ListingTypes /\ ClockInv /\ WindowsInv
  BY DEF ListingInv
<1> DEFINE ws == listing.windows
<1>2. ws \in Seq(Nat \X Nat) /\ listing.hi \in Nat
  BY <1>1, RecordIs DEF ListingTypes
<1>3. WindowsFollow(ws, listing.hi)
  BY <1>1 DEF WindowsInv
<1>4. \A i \in Listed : date[i] < Window[1] /\ date[i] < listing.hi - Overlap => i \in Settled
  BY <1>1 DEF WindowsInv
<1>5. Window = Head(ws) /\ listing.hi <= now
  BY <1>1 DEF Window, ClockInv
<1> HIDE DEF ws
<1>6. ws # <<>>
  BY <1>3 DEF WindowsFollow
<1>7. /\ Len(ws) \in Nat /\ Len(ws) >= 1 /\ Head(ws) = ws[1] /\ Tail(ws) \in Seq(Nat \X Nat)
      /\ Len(Tail(ws)) = Len(ws) - 1 /\ \A k \in 1..Len(ws) - 1 : Tail(ws)[k] = ws[k + 1]
  BY <1>2, <1>6, HeadTailProperties, EmptySeq, LenProperties
<1>8. 1 \in 1..Len(ws) /\ ws[1] \in Nat \X Nat
  BY <1>2, <1>7
<1>9. ws[1][1] <= ws[1][2] /\ ws[1][2] <= listing.hi
  BY <1>3, <1>8 DEF WindowsFollow
<1>10. ws[1] = <<ws[1][1], ws[1][2]>> /\ ws[1][1] \in Nat /\ ws[1][2] \in Nat
  BY <1>8
<1> QED BY <1>2, <1>4, <1>5, <1>6, <1>7, <1>9, <1>10 DEF ws

LEMMA SplitWindowKeeps ==
  ASSUME ListingInv, SplitWindow
  PROVE  ListingInv'
<1>1. ListingTypes /\ ClockInv /\ NothingIsLeftBehind
  BY DEF ListingInv
<1> DEFINE mid == (Window[1] + Window[2]) \div 2
           ws == listing.windows
           new == <<<<Window[1], mid>>, <<mid, Window[2]>>>> \o Tail(ws)
           next == [listing EXCEPT !.windows = new]
<1>2. /\ listing.at = "window" /\ listing' = next
      /\ UNCHANGED <<adapter, now, date, removed, stored, cursor, sweep, stops, missed>>
  BY DEF SplitWindow
<1>3. adapter = "hh"
  BY <1>1, <1>2 DEF ListingTypes, ClockInv
<1>4. /\ ws \in Seq(Nat \X Nat) /\ ws # <<>> /\ Len(ws) \in Nat /\ Len(ws) >= 1
      /\ Window = ws[1] /\ Window[1] \in Nat /\ Window[2] \in Nat /\ listing.hi \in Nat
      /\ Window[1] <= Window[2] /\ Window[2] <= listing.hi
      /\ Tail(ws) \in Seq(Nat \X Nat) /\ Len(Tail(ws)) = Len(ws) - 1
      /\ \A k \in 1..Len(ws) - 1 : Tail(ws)[k] = ws[k + 1]
      /\ \A i \in Listed : date[i] < Window[1] /\ date[i] < listing.hi - Overlap => i \in Settled
  BY <1>2, <1>3, WindowsAre
<1>5. mid \in Nat /\ Window[1] <= mid /\ mid <= Window[2]
  BY <1>4
<1>6. WindowsFollow(ws, listing.hi)
  BY <1>2, <1>3 DEF ListingInv, WindowsInv
<1> DEFINE w1 == Window[1]
           w2 == Window[2]
           hi == listing.hi
           pair == <<<<w1, mid>>, <<mid, w2>>>>
<1>7. new = pair \o Tail(ws) /\ w1 \in Nat /\ w2 \in Nat /\ hi \in Nat /\ w2 <= hi /\ ws[1][2] = w2
  BY <1>4
<1> HIDE DEF mid, new, w1, w2, ws, hi
<1>8. /\ pair \in Seq(Nat \X Nat) /\ Len(pair) = 2
      /\ pair[1] = <<w1, mid>> /\ pair[2] = <<mid, w2>>
  BY <1>5, <1>7
<1> HIDE DEF pair
<1>9. /\ new \in Seq(Nat \X Nat) /\ Len(new) = Len(ws) + 1
      /\ new[1] = <<w1, mid>> /\ new[2] = <<mid, w2>>
      /\ \A k \in 3..Len(ws) + 1 : new[k] = ws[k - 1]
  <2>1. /\ new \in Seq(Nat \X Nat) /\ Len(new) = Len(pair) + Len(Tail(ws))
        /\ \A k \in 1..Len(pair) + Len(Tail(ws)) :
             new[k] = IF k <= Len(pair) THEN pair[k] ELSE Tail(ws)[k - Len(pair)]
    <3> DEFINE tail == Tail(ws)
    <3>1. pair \in Seq(Nat \X Nat) /\ tail \in Seq(Nat \X Nat) /\ new = pair \o tail
      BY <1>4, <1>7, <1>8
    <3> HIDE DEF tail
    <3>2. /\ new \in Seq(Nat \X Nat) /\ Len(new) = Len(pair) + Len(tail)
          /\ \A k \in 1..Len(pair) + Len(tail) :
               new[k] = IF k <= Len(pair) THEN pair[k] ELSE tail[k - Len(pair)]
      BY <3>1, ConcatProperties
    <3> QED BY <3>2 DEF tail
  <2>2. Len(new) = Len(ws) + 1
    BY <1>4, <1>8, <2>1
  <2>3. new[1] = pair[1] /\ new[2] = pair[2]
    <3>1. /\ 1 \in 1..Len(pair) + Len(Tail(ws)) /\ 2 \in 1..Len(pair) + Len(Tail(ws))
          /\ 1 <= Len(pair) /\ 2 <= Len(pair)
      BY <1>4, <1>8
    <3> QED BY <2>1, <3>1
  <2>4. ASSUME NEW k \in 3..Len(ws) + 1 PROVE new[k] = ws[k - 1]
    <3>0. k \in 1..Len(pair) + Len(Tail(ws)) /\ ~(k <= Len(pair)) /\ k - Len(pair) = k - 2
      BY <1>4, <1>8
    <3>1. new[k] = IF k <= Len(pair) THEN pair[k] ELSE Tail(ws)[k - Len(pair)]
      BY <2>1, <3>0
    <3>3. new[k] = Tail(ws)[k - 2]
      BY <3>0, <3>1
    <3>2. k - 2 \in 1..Len(ws) - 1 /\ (k - 2) + 1 = k - 1
      BY <1>4
    <3> QED BY <1>4, <3>2, <3>3
  <2> QED BY <1>8, <2>1, <2>2, <2>3, <2>4
<1>10. WindowsFollow(new, hi)
  <2>0. /\ \A k \in 1..Len(ws) : ws[k][1] <= ws[k][2] /\ ws[k][2] <= hi
        /\ \A k \in 1..Len(ws) - 1 : ws[k][2] = ws[k + 1][1]
    BY <1>6 DEF WindowsFollow, hi
  <2>1. new # <<>>
    BY <1>4, <1>9
  <2>2. ASSUME NEW k \in 1..Len(new) PROVE new[k][1] <= new[k][2] /\ new[k][2] <= hi
    <3>1. CASE k = 1
      <4>1. new[k][1] = w1 /\ new[k][2] = mid
        BY <1>9, <3>1
      <4>2. w1 <= mid /\ mid <= w2 /\ mid \in Nat
        BY <1>5 DEF w1, w2
      <4>3. mid <= hi
        BY <1>7, <4>2
      <4> QED BY <4>1, <4>2, <4>3
    <3>2. CASE k = 2
      <4>1. new[k][1] = mid /\ new[k][2] = w2
        BY <1>9, <3>2
      <4>2. mid <= w2
        BY <1>5 DEF w2
      <4> QED BY <1>7, <4>1, <4>2
    <3>3. CASE k \in 3..Len(ws) + 1
      <4>1. new[k] = ws[k - 1]
        BY <1>9, <3>3
      <4>2. k - 1 \in 1..Len(ws)
        BY <1>4, <3>3
      <4> QED BY <2>0, <4>1, <4>2
    <3> QED BY <1>4, <1>9, <3>1, <3>2, <3>3
  <2>3. ASSUME NEW k \in 1..Len(new) - 1 PROVE new[k][2] = new[k + 1][1]
    <3>1. CASE k = 1
      BY <1>9, <3>1
    <3>2. CASE k = 2
      <4>1. new[3] = ws[2] /\ 1 \in 1..Len(ws) - 1
        BY <1>4, <1>9, <3>2
      <4>2. ws[1][2] = ws[2][1]
        BY <2>0, <4>1
      <4>3. new[2][2] = w2
        BY <1>9
      <4> QED BY <1>7, <3>2, <4>1, <4>2, <4>3
    <3>3. CASE k \in 3..Len(ws)
      <4>1. k - 1 \in 1..Len(ws) - 1 /\ (k - 1) + 1 = k
        BY <1>4, <3>3
      <4>2. k \in 3..Len(ws) + 1 /\ k + 1 \in 3..Len(ws) + 1 /\ (k + 1) - 1 = k
        BY <1>4, <3>3
      <4>3. new[k] = ws[k - 1] /\ new[k + 1] = ws[k]
        BY <1>9, <4>2
      <4>4. ws[k - 1][2] = ws[(k - 1) + 1][1]
        BY <2>0, <4>1
      <4> QED BY <4>1, <4>3, <4>4
    <3>4. k \in 1..Len(ws)
      BY <1>4, <1>9
    <3>5. k = 1 \/ k = 2 \/ k \in 3..Len(ws)
      BY <1>4, <3>4
    <3> QED BY <3>1, <3>2, <3>3, <3>5
  <2> QED BY <2>1, <2>2, <2>3 DEF WindowsFollow
<1>11. /\ next \in ListingRecord /\ next.at = listing.at /\ next.hi = listing.hi
       /\ next.windows = new
  BY <1>1, <1>9 DEF ListingTypes, ListingRecord
<1> HIDE DEF next
<1>12. ListingTypes'
  BY <1>1, <1>2, <1>11 DEF ListingTypes
<1>13. ClockInv'
  BY <1>1, <1>2, <1>3, <1>11 DEF ClockInv
<1>14. WindowsInv'
  <2>1. Window'[1] = Window[1]
    <3>1. Head(new) = new[1]
      BY <1>4, <1>9
    <3> QED BY <1>2, <1>9, <1>11, <3>1 DEF Window, w1
  <2>2. Listed' = Listed /\ Settled' = Settled
    BY <1>2 DEF Listed, Published, Settled
  <2>3. WindowsFollow(listing'.windows, listing'.hi)
    BY <1>2, <1>10, <1>11 DEF hi
  <2>4. \A i \in Listed' : date'[i] < Window'[1] /\ date'[i] < listing'.hi - Overlap => i \in Settled'
    BY <1>2, <1>4, <1>11, <2>1, <2>2
  <2> QED BY <2>3, <2>4 DEF WindowsInv, WindowsFollow
<1>15. PagesInv' /\ WalkInv'
  BY <1>2, <1>3, <1>11 DEF PagesInv, WalkInv
<1>16. NothingIsLeftBehind'
  BY <1>1, <1>2, StillBehind DEF Settled
<1> QED BY <1>12, <1>13, <1>14, <1>15, <1>16 DEF ListingInv

\* The end of a window: the next one begins where it ended.
LEMMA WindowDoneKeeps ==
  ASSUME ListingInv, adapter = "hh", listing.at # "none", WindowDone,
         UNCHANGED <<adapter, now, date, removed>>,
         stored' \subseteq Items, missed' \subseteq Items,
         Settled \subseteq Settled', InWindow \subseteq Settled'
  PROVE  ListingInv'
<1>1. ListingTypes /\ ClockInv
  BY DEF ListingInv
<1> DEFINE ws == listing.windows
           next == [listing EXCEPT !.at = "window", !.windows = Tail(@), !.moved = FALSE]
<1>2. /\ ws \in Seq(Nat \X Nat) /\ ws # <<>> /\ Len(ws) \in Nat /\ Len(ws) >= 1
      /\ Window = ws[1] /\ Window[1] \in Nat /\ Window[2] \in Nat /\ listing.hi \in Nat
      /\ Window[1] <= Window[2] /\ Window[2] <= listing.hi /\ listing.hi <= now
      /\ Tail(ws) \in Seq(Nat \X Nat) /\ Len(Tail(ws)) = Len(ws) - 1
      /\ \A k \in 1..Len(ws) - 1 : Tail(ws)[k] = ws[k + 1]
      /\ \A i \in Listed : date[i] < Window[1] /\ date[i] < listing.hi - Overlap => i \in Settled
  BY WindowsAre
<1>3. /\ Overlap \in Nat /\ now \in Nat /\ \A i \in Listed : date[i] \in Nat
  BY <1>1, Bounds
<1>4. Listed' = Listed
  BY DEF Listed, Published
<1>5. \A i \in Listed : date[i] < Window[2] /\ date[i] < listing.hi - Overlap => i \in Settled'
  <2> SUFFICES ASSUME NEW i \in Listed, date[i] < Window[2], date[i] < listing.hi - Overlap
               PROVE  i \in Settled'
    OBVIOUS
  <2>1. CASE date[i] < Window[1]
    BY <1>2, <2>1
  <2>2. CASE ~(date[i] < Window[1])
    <3>1. i \in InWindow
      BY <1>2, <1>3, <2>2 DEF InWindow
    <3> QED BY <3>1
  <2> QED BY <2>1, <2>2
<1>6. cursor' = Window[2] /\ cursor' \in Nat /\ cursor' <= now
  BY <1>2, <1>3 DEF WindowDone
<1>7. NothingIsLeftBehind'
  <2> SUFFICES ASSUME NEW i \in Listed, date[i] < Window[2] - Overlap
               PROVE  i \in Settled'
    BY <1>4, <1>6 DEF NothingIsLeftBehind, Settled
  <2>1. date[i] < Window[2] /\ date[i] < listing.hi - Overlap
    <3> DEFINE d == date[i]
               w2 == Window[2]
               hi == listing.hi
    <3>1. d \in Nat /\ w2 \in Nat /\ hi \in Nat /\ w2 <= hi /\ Overlap \in Nat /\ d < w2 - Overlap
      BY <1>2, <1>3
    <3> HIDE DEF d, w2, hi
    <3>2. d < w2 /\ d < hi - Overlap
      BY <3>1
    <3> QED BY <3>2 DEF d, w2, hi
  <2> QED BY <1>5, <2>1
<1>8. CASE Tail(ws) = <<>>
  <2>1. listing' = NoListing
    BY <1>8 DEF WindowDone
  <2> QED BY <1>6, <1>7, <2>1, AtRest
<1>9. CASE Tail(ws) # <<>>
  <2>1. listing' = next
    BY <1>9 DEF WindowDone
  <2>2. /\ next \in ListingRecord /\ next.at = "window" /\ next.hi = listing.hi
        /\ next.windows = Tail(ws)
    BY <1>1, <1>2 DEF ListingTypes, ListingRecord
  <2> HIDE DEF next
  <2>3. WindowsFollow(ws, listing.hi)
    BY DEF ListingInv, WindowsInv
  <2> HIDE DEF ws
  <2>4. Len(ws) >= 2
    BY <1>2, <1>9, EmptySeq
  <2>5. Head(Tail(ws)) = ws[2] /\ ws[2][1] = Window[2]
    <3>1. Head(Tail(ws)) = Tail(ws)[1]
      BY <1>2, <1>9
    <3>2. 1 \in 1..Len(ws) - 1
      BY <1>2, <2>4
    <3>3. Tail(ws)[1] = ws[1 + 1] /\ ws[1][2] = ws[1 + 1][1]
      BY <1>2, <2>3, <3>2 DEF WindowsFollow
    <3>4. 1 + 1 = 2
      OBVIOUS
    <3> QED BY <1>2, <3>1, <3>3, <3>4
  <2>6. WindowsFollow(Tail(ws), listing.hi)
    <3> DEFINE t == Tail(ws)
    <3>1. \A k \in 1..Len(t) : t[k] = ws[k + 1] /\ k + 1 \in 1..Len(ws)
      BY <1>2
    <3>2. \A k \in 1..Len(t) - 1 : /\ t[k] = ws[k + 1] /\ t[k + 1] = ws[(k + 1) + 1]
                                   /\ k + 1 \in 1..Len(ws) - 1
      <4> SUFFICES ASSUME NEW k \in 1..Len(t) - 1
                   PROVE  /\ t[k] = ws[k + 1] /\ t[k + 1] = ws[(k + 1) + 1]
                          /\ k + 1 \in 1..Len(ws) - 1
        OBVIOUS
      <4>1. k \in 1..Len(ws) - 1 /\ k + 1 \in 1..Len(ws) - 1
        BY <1>2
      <4> QED BY <1>2, <4>1
    <3>3. t # <<>>
      BY <1>9
    <3> HIDE DEF t
    <3>4. /\ \A k \in 1..Len(ws) : ws[k][1] <= ws[k][2] /\ ws[k][2] <= listing.hi
          /\ \A k \in 1..Len(ws) - 1 : ws[k][2] = ws[k + 1][1]
      BY <2>3 DEF WindowsFollow
    <3>5. \A k \in 1..Len(t) : t[k][1] <= t[k][2] /\ t[k][2] <= listing.hi
      BY <3>1, <3>4
    <3>6. \A k \in 1..Len(t) - 1 : t[k][2] = t[k + 1][1]
      BY <3>2, <3>4
    <3>7. WindowsFollow(t, listing.hi)
      BY <3>3, <3>5, <3>6 DEF WindowsFollow
    <3> QED BY <3>7 DEF t
  <2>7. ListingTypes'
    BY <1>1, <1>6, <2>1, <2>2 DEF ListingTypes
  <2>8. ClockInv'
    BY <1>1, <1>6, <2>1, <2>2 DEF ClockInv
  <2>9. WindowsInv'
    <3>1. Window'[1] = Window[2]
      BY <2>1, <2>2, <2>5 DEF Window
    <3>2. WindowsFollow(listing'.windows, listing'.hi)
      BY <2>1, <2>2, <2>6
    <3>3. \A i \in Listed' : date'[i] < Window'[1] /\ date'[i] < listing'.hi - Overlap => i \in Settled'
      BY <1>4, <1>5, <2>1, <2>2, <3>1
    <3> QED BY <3>2, <3>3 DEF WindowsInv, WindowsFollow
  <2>10. PagesInv' /\ WalkInv'
    BY <2>1, <2>2 DEF PagesInv, WalkInv
  <2> QED BY <1>7, <2>7, <2>8, <2>9, <2>10 DEF ListingInv
<1> QED BY <1>8, <1>9

\* A further page of the window.
LEMMA PageKeeps ==
  ASSUME ListingInv, adapter = "hh", listing.at # "none",
         NEW page \in Nat, NEW pages \in Nat,
         listing' = [listing EXCEPT !.at = "page", !.page = page, !.pages = pages],
         UNCHANGED <<adapter, now, date, removed, cursor>>,
         stored' \subseteq Items, missed' \subseteq Items, Settled \subseteq Settled',
         ~listing.moved => \A i \in InWindow \ Settled' :
                             /\ Position(i, InWindow) >= page * PerPage
                             /\ Position(i, InWindow) < pages * PerPage
  PROVE  ListingInv'
<1>1. ListingTypes /\ ClockInv /\ NothingIsLeftBehind /\ WindowsInv
  BY DEF ListingInv
<1> DEFINE next == [listing EXCEPT !.at = "page", !.page = page, !.pages = pages]
<1>2. /\ next \in ListingRecord /\ next.at = "page" /\ next.hi = listing.hi
      /\ next.windows = listing.windows /\ next.moved = listing.moved
      /\ next.page = page /\ next.pages = pages
  BY <1>1 DEF ListingTypes, ListingRecord
<1>3. listing' = next
  OBVIOUS
<1> HIDE DEF next
<1>4. Listed' = Listed /\ Window' = Window /\ InWindow' = InWindow
  BY <1>2, <1>3 DEF Listed, Published, Window, InWindow
<1>5. ListingTypes'
  BY <1>1, <1>2, <1>3 DEF ListingTypes
<1>6. ClockInv'
  BY <1>1, <1>2, <1>3 DEF ClockInv
<1>7. WindowsInv'
  BY <1>1, <1>2, <1>3, <1>4 DEF WindowsInv, WindowsFollow
<1>8. PagesInv'
  <2>1. \A i : Position(i, InWindow)' = Position(i, InWindow)
    BY <1>4 DEF Position, Before
  <2> QED BY <1>2, <1>3, <1>4, <2>1 DEF PagesInv
<1>9. WalkInv'
  BY DEF WalkInv
<1>10. NothingIsLeftBehind'
  BY <1>1, StillBehind
<1> QED BY <1>5, <1>6, <1>7, <1>8, <1>9, <1>10 DEF ListingInv

LEMMA FirstPageKeeps ==
  ASSUME ListingInv, FirstPage
  PROVE  ListingInv'
<1>1. ListingTypes /\ ClockInv
  BY DEF ListingInv
<1> DEFINE pages == Least({PagesOf(InWindow), MaxPages})
           out == IF Window[2] - Window[1] <= MinWindow THEN InWindow \ Reachable(InWindow) ELSE {}
<1>2. /\ listing.at = "window" /\ ~TooMany
      /\ IF pages = 1 THEN WindowDone
         ELSE /\ listing' = [listing EXCEPT !.at = "page", !.page = 1, !.pages = pages]
              /\ UNCHANGED cursor
      /\ stored' = stored \cup PageOf(InWindow, 0) /\ missed' = missed \cup out
      /\ UNCHANGED <<adapter, now, date, removed, sweep, stops>>
  BY DEF FirstPage
<1>3. adapter = "hh"
  BY <1>1, <1>2 DEF ListingTypes, ClockInv
<1>4. InWindow \in SUBSET Items /\ InWindow \in SUBSET Listed
  BY DEF InWindow, Listed
<1>5. PerPage \in Nat \ {0} /\ MaxPages \in Nat \ {0} /\ MinWindow \in Nat
  BY <1>1, Bounds
<1>6. Settled \subseteq Settled' /\ stored' \subseteq Items /\ missed' \subseteq Items
  BY <1>1, <1>2, <1>4 DEF Settled, PageOf, Reachable, ListingTypes
<1>7. pages \in Nat /\ pages \in {PagesOf(InWindow), MaxPages}
  <2>1. PagesOf(InWindow) \in Nat
    BY <1>1, <1>4, LastPageIs
  <2>2. pages \in {PagesOf(InWindow), MaxPages}
    <3> DEFINE p == PagesOf(InWindow)
    <3>1. p \in Int /\ MaxPages \in Int
      BY <1>5, <2>1
    <3> HIDE DEF p
    <3>2. Least({p, MaxPages}) \in {p, MaxPages}
      BY <3>1, LeastOfTwo
    <3> QED BY <3>2 DEF p
  <2> HIDE DEF pages
  <2> QED BY <1>5, <2>1, <2>2
<1> HIDE DEF pages
<1>8. ASSUME NEW i \in InWindow \ Settled'
      PROVE  Position(i, InWindow) >= 1 * PerPage /\ Position(i, InWindow) < pages * PerPage
  <2> DEFINE pos == Position(i, InWindow)
  <2>1. pos \in Nat /\ pos < Cardinality(InWindow) /\ Cardinality(InWindow) \in Nat
    BY <1>1, <1>4, PositionIs, FiniteSources
  <2>2. i \notin PageOf(InWindow, 0) /\ i \notin out
    BY <1>2 DEF Settled
  <2>3. pos >= 1 * PerPage
    <3>1. ~(0 * PerPage <= pos /\ pos < 0 * PerPage + PerPage)
      BY <1>1, <1>4, <2>2, OnPage
    <3>2. 0 * PerPage = 0 /\ 1 * PerPage = PerPage
      BY <1>5
    <3> HIDE DEF pos
    <3> QED BY <1>5, <2>1, <3>1, <3>2
  <2>4. pos < PagesOf(InWindow) * PerPage
    BY <1>1, <1>4, LastPageIs
  <2>5. pos < MaxPages * PerPage
    <3>1. CASE Window[2] - Window[1] <= MinWindow
      BY <2>2, <3>1 DEF Reachable
    <3>2. CASE ~(Window[2] - Window[1] <= MinWindow)
      <4>1. Window[1] \in Nat /\ Window[2] \in Nat
        BY <1>2, <1>3, WindowsAre
      <4>2. Window[2] - Window[1] > MinWindow
        BY <1>5, <3>2, <4>1
      <4>3. ~(Cardinality(InWindow) > MaxPages * PerPage)
        BY <1>2, <4>2 DEF TooMany
      <4> DEFINE cap == MaxPages * PerPage
      <4>4. cap \in Nat
        BY <1>5
      <4> HIDE DEF cap, pos
      <4>5. pos < cap
        BY <2>1, <4>3, <4>4 DEF cap
      <4> QED BY <4>5 DEF cap, pos
    <3> QED BY <3>1, <3>2
  <2> QED BY <1>7, <2>3, <2>4, <2>5
<1>9. CASE pages = 1
  <2>1. InWindow \subseteq Settled'
    <3> SUFFICES ASSUME NEW i \in InWindow \ Settled' PROVE FALSE
      OBVIOUS
    <3>1. Position(i, InWindow) \in Nat /\ 1 * PerPage \in Nat
      BY <1>1, <1>4, <1>5, PositionIs
    <3> QED BY <1>8, <1>9, <3>1
  <2> QED BY <1>2, <1>3, <1>6, <1>9, <2>1, WindowDoneKeeps
<1>10. CASE pages # 1
  BY <1>2, <1>3, <1>6, <1>7, <1>8, <1>10, PageKeeps
<1> QED BY <1>9, <1>10

LEMMA NextPageKeeps ==
  ASSUME ListingInv, NextPage
  PROVE  ListingInv'
<1>1. ListingTypes /\ ClockInv /\ PagesInv
  BY DEF ListingInv
<1> DEFINE k == listing.page
           page == PageOf(InWindow, k)
           done == k + 1 >= listing.pages \/ page = {}
<1>2. /\ adapter = "hh" /\ listing.at = "page" /\ stored' = stored \cup page
      /\ done => WindowDone /\ missed' = missed \cup (IF listing.moved THEN InWindow \ stored' ELSE {})
      /\ ~done => /\ listing' = [listing EXCEPT !.page = @ + 1]
                  /\ UNCHANGED <<cursor, missed>>
      /\ UNCHANGED <<adapter, now, date, removed, sweep, stops>>
  BY DEF NextPage
<1>3. InWindow \in SUBSET Items
  BY DEF InWindow, Listed
<1>4. PerPage \in Nat \ {0} /\ listing \in ListingRecord
  BY <1>1, Bounds
<1>5. k \in Nat /\ listing.pages \in Nat
  BY <1>4, RecordIs
<1>6. Settled \subseteq Settled' /\ stored' \subseteq Items /\ missed' \subseteq Items
  BY <1>1, <1>2, <1>3 DEF Settled, PageOf, ListingTypes
<1>7. ASSUME ~listing.moved, NEW i \in InWindow \ Settled'
      PROVE  /\ Position(i, InWindow) >= (k + 1) * PerPage
             /\ Position(i, InWindow) < listing.pages * PerPage
             /\ Position(i, InWindow) \in Nat
  <2>1. i \in InWindow \ Settled /\ i \notin page
    BY <1>2, <1>6, <1>7 DEF Settled
  <2>2. Position(i, InWindow) >= k * PerPage /\ Position(i, InWindow) < listing.pages * PerPage
    BY <1>1, <1>2, <1>7, <2>1 DEF PagesInv
  <2>3. Position(i, InWindow) \in Nat
    BY <1>1, <1>3, PositionIs
  <2>4. /\ ~(k * PerPage <= Position(i, InWindow) /\ Position(i, InWindow) < k * PerPage + PerPage)
        /\ k * PerPage \in Nat /\ (k + 1) * PerPage = k * PerPage + PerPage
    BY <1>1, <1>3, <1>5, <2>1, OnPage
  <2> DEFINE pos == Position(i, InWindow)
             bar == k * PerPage
             end == (k + 1) * PerPage
  <2>5. pos >= end
    <3>1. pos \in Nat /\ bar \in Nat /\ end = bar + PerPage /\ pos >= bar /\ ~(bar <= pos /\ pos < bar + PerPage)
      BY <2>2, <2>3, <2>4
    <3> HIDE DEF pos, bar, end
    <3> QED BY <1>4, <3>1
  <2> QED BY <2>2, <2>3, <2>5
<1> HIDE DEF k
<1>8. CASE done
  <2>1. InWindow \subseteq Settled'
    <3>1. CASE listing.moved
      BY <1>2, <1>8, <3>1 DEF Settled
    <3>2. CASE ~listing.moved
      <4> SUFFICES ASSUME NEW i \in InWindow \ Settled' PROVE FALSE
        OBVIOUS
      <4> DEFINE pos == Position(i, InWindow)
                 end == (k + 1) * PerPage
                 cap == listing.pages * PerPage
      <4>1. pos >= end /\ pos < cap /\ pos \in Nat
        BY <1>7, <3>2
      <4>2. CASE k + 1 >= listing.pages
        <5>1. cap <= end /\ cap \in Nat /\ end \in Nat
          BY <1>4, <1>5, <4>2, MulMonoLe
        <5> HIDE DEF pos, end, cap
        <5> QED BY <4>1, <5>1
      <4>3. CASE page = {}
        <5>1. pos < k * PerPage /\ k * PerPage \in Nat /\ end = k * PerPage + PerPage
          BY <1>1, <1>3, <1>5, <4>3, EmptyPage, OnPage
        <5> DEFINE bar == k * PerPage
        <5>2. pos < bar /\ bar \in Nat /\ end = bar + PerPage
          BY <5>1
        <5> HIDE DEF pos, end, bar
        <5> QED BY <1>4, <4>1, <5>2
      <4> QED BY <1>8, <4>2, <4>3
    <3> QED BY <3>1, <3>2
  <2> QED BY <1>2, <1>6, <1>8, <2>1, WindowDoneKeeps
<1>9. CASE ~done
  <2> DEFINE next == [listing EXCEPT !.page = k + 1]
             same == [listing EXCEPT !.at = "page", !.page = k + 1, !.pages = listing.pages]
  <2>1. next = same
    BY <1>2, <1>4 DEF ListingRecord
  <2>2. listing' = same
    BY <1>2, <1>9, <2>1 DEF k
  <2>3. k + 1 \in Nat
    BY <1>5
  <2>4. ~listing.moved => \A i \in InWindow \ Settled' :
          /\ Position(i, InWindow) >= (k + 1) * PerPage
          /\ Position(i, InWindow) < listing.pages * PerPage
    BY <1>7
  <2> HIDE DEF done
  <2> QED BY <1>2, <1>5, <1>6, <1>9, <2>2, <2>3, <2>4, PageKeeps
<1> QED BY <1>8, <1>9

LEMMA ReadPageKeeps ==
  ASSUME ListingInv, ReadPage
  PROVE  ListingInv'
<1>1. ListingTypes /\ ClockInv /\ NothingIsLeftBehind /\ WalkInv
  BY DEF ListingInv
<1> DEFINE k == listing.page
           on == NewOnPage
           newest == Most({listing.newest} \cup Dates(on))
           cut == listing.moved \/ (adapter = "osonish" /\ ~ReachedOld(on) /\ ~LastPage)
           next == [listing EXCEPT !.page = @ + 1, !.newest = newest,
                        !.seen = IF adapter = "vacancy_gov" THEN @ \cup on ELSE @]
<1>2. /\ adapter # "hh" /\ listing.at = "page" /\ stored' = stored \cup on
      /\ Done => /\ cursor' = IF newest = 0 THEN cursor ELSE newest
                 /\ listing' = NoListing
                 /\ missed' = missed \cup (IF cut THEN Listed \ stored' ELSE {})
      /\ ~Done => /\ listing' = IF listing.page + 1 >= MaxPages THEN NoListing ELSE next
                  /\ UNCHANGED <<cursor, missed>>
      /\ UNCHANGED <<adapter, now, date, removed, stops>>
  BY DEF ReadPage
<1>3. /\ Overlap \in Nat /\ PerPage \in Nat \ {0} /\ now \in Nat /\ cursor \in Int
      /\ listing \in ListingRecord /\ Listed \in SUBSET Items
      /\ \A i \in Listed : date[i] \in Nat
  BY <1>1, Bounds
<1>4. k \in Nat /\ listing.newest \in Nat /\ listing.since \in Int /\ listing.hi \in Nat /\ listing.seen \in SUBSET Items
  BY <1>3, RecordIs
<1>5. on \in SUBSET Listed /\ on = PageOf(Listed, k) \ listing.seen
  BY DEF NewOnPage, RawPage, PageOf
<1>6. listing.newest <= now /\ listing.since <= listing.hi - MaxDelay /\ cursor <= now
  BY <1>1, <1>2 DEF ClockInv
<1>7. /\ newest \in {listing.newest} \cup Dates(on) /\ newest \in Nat /\ newest <= now
      /\ \A y \in {listing.newest} \cup Dates(on) : y <= newest
  <2> DEFINE S == {listing.newest} \cup Dates(on)
  <2>1. Dates(on) \in SUBSET Nat /\ \A x \in Dates(on) : x <= now
    BY <1>1, <1>3, <1>5 DEF Dates, ClockInv
  <2>2. S \in SUBSET Nat /\ S # {} /\ \A x \in S : x <= now
    BY <1>4, <1>6, <2>1
  <2>3. newest = Most(S)
    OBVIOUS
  <2> HIDE DEF S, newest
  <2>4. newest \in S /\ newest \in Nat /\ \A y \in S : y <= newest
    BY <1>3, <2>2, <2>3, MostIs
  <2> QED BY <2>2, <2>4 DEF S
<1> HIDE DEF newest
<1>8. Listed' = Listed /\ Settled \subseteq Settled' /\ on \subseteq Settled'
  BY <1>2 DEF Listed, Published, Settled
<1>9. stored' \subseteq Items /\ missed' \subseteq Items
  BY <1>1, <1>2, <1>3, <1>5 DEF ListingTypes
<1>10. \A i \in Listed : Position(i, Listed) \in Nat
  BY <1>1, <1>3, PositionIs
<1> DEFINE bar == k * PerPage
           end == (k + 1) * PerPage
<1>11. /\ bar \in Nat /\ end = bar + PerPage
       /\ \A i \in Listed : bar <= Position(i, Listed) /\ Position(i, Listed) < bar + PerPage
                              => i \in PageOf(Listed, k)
       /\ \A i \in PageOf(Listed, k) : /\ i \in Listed /\ bar <= Position(i, Listed)
                                       /\ Position(i, Listed) < bar + PerPage
  <2>1. bar \in Nat /\ end = bar + PerPage
    BY <1>3, <1>4
  <2>2. \A i \in PageOf(Listed, k) : i \in Listed
    BY DEF PageOf
  <2> QED BY <1>1, <1>3, <1>4, <2>1, <2>2, OnPage
<1>12. /\ \A i \in listing.seen : Published(i) /\ (i \in Listed => i \in Settled)
       /\ \A i \in Listed : date[i] < listing.since => i \in Settled
       /\ ~listing.moved => \A i \in Listed \ Settled :
            date[i] >= listing.newest - Overlap \/ Position(i, Listed) >= bar
  BY <1>1, <1>2 DEF WalkInv
<1> HIDE DEF bar, end, k, on
<1>13. ASSUME ~listing.moved, NEW i \in Listed \ Settled'
       PROVE  date[i] >= newest - Overlap \/ Position(i, Listed) >= end
  <2>1. i \notin Settled /\ i \notin on
    BY <1>8, <1>13
  <2>2. i \notin PageOf(Listed, k)
    BY <1>5, <1>12, <1>13, <2>1
  <2>3. Position(i, Listed) < bar \/ Position(i, Listed) >= end
    BY <1>3, <1>10, <1>11, <1>13, <2>2
  <2>4. CASE Position(i, Listed) < bar
    <3>1. date[i] >= listing.newest - Overlap
      BY <1>10, <1>11, <1>12, <1>13, <2>1, <2>4
    <3>2. CASE newest = listing.newest
      BY <3>1, <3>2
    <3>3. CASE newest \in Dates(on)
      <4>1. PICK j \in on : newest = date[j]
        BY <3>3 DEF Dates
      <4>2. j \in Listed /\ bar <= Position(j, Listed)
        BY <1>5, <1>11, <4>1
      <4>3. Position(i, Listed) <= Position(j, Listed)
        BY <1>10, <1>11, <1>13, <2>4, <4>2
      <4>4. date[j] <= date[i]
        BY <1>1, <1>3, <1>13, <4>2, <4>3, Later
      <4> QED BY <1>3, <1>13, <4>1, <4>2, <4>4
    <3> QED BY <1>7, <3>2, <3>3
  <2> QED BY <2>3, <2>4
<1>14. ASSUME Done, ~cut, NEW i \in Listed \ Settled'
       PROVE  ~(Position(i, Listed) >= end)
  <2> SUFFICES ASSUME Position(i, Listed) >= end PROVE FALSE
    OBVIOUS
  <2>1. CASE PageOf(Listed, k) = {}
    <3>1. Position(i, Listed) < bar
      BY <1>1, <1>3, <1>4, <1>14, <2>1, EmptyPage DEF bar
    <3> QED BY <1>3, <1>10, <1>11, <1>14, <3>1
  <2>2. CASE ReachedOld(on)
    <3>1. Dates(on) \in SUBSET Nat /\ Dates(on) # {} /\ \A x \in Dates(on) : x <= now
      BY <1>1, <1>3, <1>5, <2>2 DEF Dates, ClockInv, ReachedOld
    <3>2. Most(Dates(on)) \in Nat /\ \A y \in Dates(on) : y <= Most(Dates(on))
      BY <1>3, <3>1, MostIs
    <3>3. PICK j \in on : TRUE
      BY <2>2 DEF ReachedOld
    <3>4. date[j] < listing.since /\ j \in Listed /\ Position(j, Listed) < bar + PerPage
      <4>1. date[j] \in Dates(on)
        BY <3>3 DEF Dates
      <4>2. Most(Dates(on)) < listing.since
        BY <2>2 DEF ReachedOld
      <4>3. j \in Listed /\ Position(j, Listed) < bar + PerPage
        BY <1>5, <1>11, <3>3
      <4>4. date[j] \in Nat
        BY <1>3, <4>3
      <4> QED BY <1>4, <3>2, <4>1, <4>2, <4>3, <4>4
    <3>5. Position(j, Listed) <= Position(i, Listed)
      BY <1>3, <1>10, <1>11, <1>14, <3>4
    <3>6. date[i] <= date[j]
      BY <1>1, <1>3, <1>14, <3>4, <3>5, Later
    <3>7. date[i] < listing.since
      BY <1>3, <1>4, <1>14, <3>4, <3>6
    <3> QED BY <1>8, <1>12, <1>14, <3>7
  <2>3. CASE LastPage
    <3> DEFINE all == PagesOf(Listed) * PerPage
    <3>1. PagesOf(Listed) \in Nat /\ Position(i, Listed) < all
      BY <1>1, <1>3, <1>14, LastPageIs
    <3>2. PagesOf(Listed) <= k + 1 /\ k + 1 \in Nat
      BY <1>4, <2>3, <3>1 DEF LastPage, k
    <3>3. all <= end /\ all \in Nat /\ end \in Nat
      BY <1>3, <3>1, <3>2, MulMonoLe DEF end
    <3> HIDE DEF all
    <3> QED BY <1>10, <1>14, <3>1, <3>3
  <2> QED BY <1>14, <2>1, <2>2, <2>3 DEF Done, RawPage, k, on
<1>15. CASE Done
  <2>1. cursor' = IF newest = 0 THEN cursor ELSE newest
    BY <1>2, <1>15
  <2>2. listing' = NoListing /\ missed' = missed \cup (IF cut THEN Listed \ stored' ELSE {})
    BY <1>2, <1>15
  <2>3. cursor' \in Nat \cup {Never} /\ cursor' <= now
    BY <1>1, <1>6, <1>7, <2>1 DEF ListingTypes
  <2>4. NothingIsLeftBehind'
    <3> SUFFICES ASSUME NEW i \in Listed, cursor' # Never, date[i] < cursor' - Overlap, i \notin Settled'
                 PROVE  FALSE
      BY <1>2, <1>8 DEF NothingIsLeftBehind, Settled
    <3>1. CASE newest = 0
      BY <1>1, <1>8, <2>1, <3>1 DEF NothingIsLeftBehind, Settled
    <3>2. CASE newest # 0
      <4>1. ~cut
        BY <2>2 DEF Settled
      <4>2. ~listing.moved
        BY <4>1
      <4>3. date[i] >= newest - Overlap
        BY <1>13, <1>14, <1>15, <4>1, <4>2
      <4> QED BY <1>3, <1>7, <2>1, <3>2, <4>3
    <3> QED BY <3>1, <3>2
  <2> QED BY <1>2, <1>9, <2>2, <2>3, <2>4, AtRest
<1>16. CASE ~Done
  <2>1. NothingIsLeftBehind'
    BY <1>1, <1>2, <1>8, <1>16, StillBehind
  <2>2. CASE listing.page + 1 >= MaxPages
    BY <1>1, <1>2, <1>6, <1>9, <1>16, <2>1, <2>2, AtRest DEF ListingTypes
  <2>3. CASE ~(listing.page + 1 >= MaxPages)
    <3>1. listing' = next
      BY <1>2, <1>16, <2>3
    <3>2. /\ next \in ListingRecord /\ next.at = "page" /\ next.hi = listing.hi
          /\ next.since = listing.since /\ next.newest = newest /\ next.page = k + 1
          /\ next.seen \subseteq listing.seen \cup on /\ next.moved = listing.moved
      <4> DEFINE seen == IF adapter = "vacancy_gov" THEN listing.seen \cup on ELSE listing.seen
      <4>1. seen \in SUBSET Items /\ seen \subseteq listing.seen \cup on
        BY <1>3, <1>4, <1>5
      <4>2. k + 1 \in Nat /\ k = listing.page
        BY <1>4 DEF k
      <4>3. next = [listing EXCEPT !.page = k + 1, !.newest = newest, !.seen = seen]
        BY <4>2
      <4> HIDE DEF next, seen
      <4> QED BY <1>2, <1>3, <1>7, <4>1, <4>2, <4>3 DEF ListingRecord
    <3> HIDE DEF next
    <3>3. ListingTypes'
      BY <1>1, <1>2, <1>9, <1>16, <3>1, <3>2 DEF ListingTypes
    <3>4. ClockInv'
      BY <1>1, <1>2, <1>6, <1>7, <1>16, <3>1, <3>2 DEF ClockInv
    <3>5. WindowsInv' /\ PagesInv'
      BY <1>2 DEF WindowsInv, PagesInv
    <3>6. WalkInv'
      <4>1. \A i \in listing'.seen : Published(i)' /\ (i \in Listed' => i \in Settled')
        BY <1>2, <1>5, <1>8, <1>12, <3>1, <3>2 DEF Published, Listed
      <4>2. \A i \in Listed' : date'[i] < listing'.since => i \in Settled'
        BY <1>2, <1>8, <1>12, <3>1, <3>2
      <4>3. \A i \in Listed : Position(i, Listed)' = Position(i, Listed)
        BY <1>2, <1>8 DEF Position, Before
      <4>4. ~listing'.moved => \A i \in Listed' \ Settled' :
              date'[i] >= listing'.newest - Overlap \/ Position(i, Listed)' >= listing'.page * PerPage
        BY <1>2, <1>8, <1>13, <3>1, <3>2, <4>3 DEF end
      <4> QED BY <4>1, <4>2, <4>4 DEF WalkInv
    <3> QED BY <2>1, <3>3, <3>4, <3>5, <3>6 DEF ListingInv
  <2> QED BY <2>2, <2>3
<1> QED BY <1>15, <1>16

-----------------------------------------------------------------------------
LEMMA ListingBegins ==
  ASSUME ListingInit
  PROVE  ListingInv
<1>1. Lookback \in Nat
  BY ListingAssumption
<1>2. ListingTypes
  BY <1>1, NoListingIs DEF ListingInit, ListingTypes
<1>3. ClockInv
  BY <1>1, NoListingIs DEF ListingInit, ClockInv, Never
<1>4. WindowsInv /\ PagesInv /\ WalkInv
  BY NoListingIs DEF ListingInit, WindowsInv, PagesInv, WalkInv
<1>5. NothingIsLeftBehind
  BY DEF ListingInit, NothingIsLeftBehind
<1> QED BY <1>2, <1>3, <1>4, <1>5 DEF ListingInv

\* What the adapters and the runner keep true of every source: see ListingInv.
THEOREM ListingIsSound == ListingSpec => []ListingInv
<1>1. ListingInit => ListingInv
  BY ListingBegins
<1>2. ListingInv /\ [ListingNext]_listingVars => ListingInv'
  <2> SUFFICES ASSUME ListingInv, [ListingNext]_listingVars
               PROVE  ListingInv'
    OBVIOUS
  <2>1. CASE StartWindows
    BY <2>1, StartWindowsKeeps
  <2>2. CASE StartPages
    BY <2>2, StartPagesKeeps
  <2>3. CASE SplitWindow
    BY <2>3, SplitWindowKeeps
  <2>4. CASE FirstPage
    BY <2>4, FirstPageKeeps
  <2>5. CASE NextPage
    BY <2>5, NextPageKeeps
  <2>6. CASE ReadPage
    BY <2>6, ReadPageKeeps
  <2>7. CASE Stop
    BY <2>7, StopKeeps
  <2>8. CASE ListingTick \/ UNCHANGED listingVars
    BY <2>8, TickKeeps
  <2>9. ASSUME NEW i \in Items, Appear(i) PROVE ListingInv'
    BY <2>9, AppearKeeps
  <2>10. ASSUME NEW i \in Items, Withdraw(i) PROVE ListingInv'
    BY <2>10, WithdrawKeeps
  <2> QED BY <2>1, <2>2, <2>3, <2>4, <2>5, <2>6, <2>7, <2>8, <2>9, <2>10 DEF ListingNext, RunStep
<1> QED BY <1>1, <1>2, PTL DEF ListingSpec

\* A vacancy older than the saved cursor less the overlap is in the store, unless
\* it was out of the adapter's reach, whatever run failed or was cut short where.
THEOREM NothingLeftBehind == ListingSpec => []NothingIsLeftBehind
<1>1. ListingInv => NothingIsLeftBehind
  BY DEF ListingInv
<1> QED BY <1>1, ListingIsSound, PTL
=============================================================================
