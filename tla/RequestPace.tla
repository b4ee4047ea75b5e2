---------------------------- MODULE RequestPace -----------------------------
(***************************************************************************)
(* How requests to one site are spaced: RateLimiter of the adapters         *)
(* (src/src/ingest/base.py), which holds a lock while it sleeps, and          *)
(* osonish_pace (scraping.py), which hands out slots and refuses a caller    *)
(* whose slot is too far away.  The callers are tasks of one event loop,    *)
(* which may wake a sleeper late; a task may be cancelled while it waits.   *)
(***************************************************************************)
EXTENDS Integers, Sequences, FiniteSets, SequencesExt

CONSTANTS
  Callers,
  Interval,        \* RateLimiter.interval, OSONISH_MIN_INTERVAL_SECONDS
  MaxQueue,        \* OSONISH_MAX_QUEUE_SECONDS
  MaxLate,         \* bound: how late the loop wakes a sleeper
  MaxInstant       \* bound: the clock

ASSUME PaceAssumption ==
  /\ Interval \in Nat \ {0} /\ {MaxQueue, MaxInstant} \subseteq Nat
  /\ MaxLate \in 0..Interval

VARIABLES
  pacer,           \* "limiter" or "osonish"
  instant,
  nextAt,          \* RateLimiter._next_at, _osonish_next_at
  queue,           \* the limiter's lock: its holder, then those who wait for it
  sleep,           \* sleep[c]: the slot that c sleeps for, Awake
  asked,           \* history: when c asked
  lastSent,        \* history: when the last request went out
  closest          \* history: the least time between two requests

paceVars == <<pacer, instant, nextAt, queue, sleep, asked, lastSent, closest>>

Awake == -1
Instants == 0..MaxInstant

PaceTypeOK ==
  /\ pacer \in {"limiter", "osonish"} /\ instant \in Instants /\ nextAt \in Nat
  /\ queue \in Seq(Callers) /\ IsInjective(queue)
  /\ sleep \in [Callers -> Nat \cup {Awake}] /\ asked \in [Callers -> Instants]
  /\ lastSent \in Instants \cup {-Interval} /\ closest \in 0..Interval

PaceInit ==
  /\ pacer \in {"limiter", "osonish"} /\ instant = 0 /\ nextAt = 0
  /\ queue = <<>> /\ sleep = [c \in Callers |-> Awake] /\ asked = [c \in Callers |-> 0]
  /\ lastSent = -Interval /\ closest = Interval

Idle(c) == sleep[c] = Awake /\ c \notin ToSet(queue)
Later(a, b) == IF a > b THEN a ELSE b

\* The request goes out.
SendNow ==
  /\ lastSent' = instant
  /\ closest' = IF instant - lastSent < closest THEN instant - lastSent ELSE closest

SleepFor(c, slot) ==
  /\ sleep' = [sleep EXCEPT ![c] = slot]
  /\ UNCHANGED <<lastSent, closest>>

-----------------------------------------------------------------------------
\* Mutant: the slot is not reserved until it has come.
FreeSlot(slot) == nextAt

\* The slot is taken before the first await.
ReserveSlot(slot) == slot + Interval

\* Mutant: nobody is refused.
AnySlot(slot) == FALSE

TooFar(slot) == slot - instant > MaxQueue

AskOsonish(c) ==
  LET slot == Later(instant, nextAt) IN
  /\ pacer = "osonish" /\ Idle(c)
  /\ asked' = [asked EXCEPT ![c] = instant]
  /\ IF TooFar(slot) THEN UNCHANGED <<nextAt, sleep, lastSent, closest>>
     ELSE /\ nextAt' = ReserveSlot(slot)
          /\ IF slot > instant THEN SleepFor(c, slot) ELSE SendNow /\ UNCHANGED sleep
  /\ UNCHANGED <<pacer, instant, queue>>

WakeForOsonish(c) ==
  /\ pacer = "osonish" /\ sleep[c] # Awake /\ instant >= sleep[c]
  /\ sleep' = [sleep EXCEPT ![c] = Awake]
  /\ SendNow
  /\ UNCHANGED <<pacer, instant, nextAt, queue, asked>>

-----------------------------------------------------------------------------
AskLimiter(c) ==
  /\ pacer = "limiter" /\ Idle(c)
  /\ queue' = Append(queue, c)
  /\ asked' = [asked EXCEPT ![c] = instant]
  /\ UNCHANGED <<pacer, instant, nextAt, sleep, lastSent, closest>>

\* The holder of the lock finds its turn come, or sleeps until it has.
TakeTurn(c) ==
  /\ pacer = "limiter" /\ queue # <<>> /\ Head(queue) = c /\ sleep[c] = Awake
  /\ IF instant < nextAt
     THEN SleepFor(c, nextAt) /\ UNCHANGED <<nextAt, queue>>
     ELSE /\ SendNow
          /\ nextAt' = instant + Interval
          /\ queue' = Tail(queue)
          /\ UNCHANGED sleep
  /\ UNCHANGED <<pacer, instant, asked>>

\* The next turn is counted from the slot, not from the late end of the sleep.
WakeForTurn(c) ==
  /\ pacer = "limiter" /\ sleep[c] # Awake /\ instant >= sleep[c]
  /\ SendNow
  /\ nextAt' = sleep[c] + Interval
  /\ queue' = Tail(queue)
  /\ sleep' = [sleep EXCEPT ![c] = Awake]
  /\ UNCHANGED <<pacer, instant, asked>>

-----------------------------------------------------------------------------
\* A cancelled task gives the lock back; osonish's slot stays taken.
CancelWait(c) ==
  /\ ~Idle(c)
  /\ \/ c \notin ToSet(queue) /\ UNCHANGED queue
     \/ \E i \in DOMAIN queue : queue[i] = c /\ queue' = RemoveAt(queue, i)
  /\ sleep' = [sleep EXCEPT ![c] = Awake]
  /\ UNCHANGED <<pacer, instant, nextAt, asked, lastSent, closest>>

Pass ==
  /\ instant < MaxInstant
  /\ \A c \in Callers : sleep[c] # Awake => instant < sleep[c] + MaxLate
  /\ instant' = instant + 1
  /\ UNCHANGED <<pacer, nextAt, queue, sleep, asked, lastSent, closest>>

PaceNext ==
  \/ Pass
  \/ \E c \in Callers : AskOsonish(c) \/ WakeForOsonish(c) \/ AskLimiter(c)
                          \/ TakeTurn(c) \/ WakeForTurn(c) \/ CancelWait(c)

PaceSpec == PaceInit /\ [][PaceNext]_paceVars

-----------------------------------------------------------------------------
\* Two requests to a site never go out closer than the interval, less what the
\* loop was late, however many callers ask at once or give up ("concurrent
\* callers in one event loop never share a slot"); and nobody whom osonish_pace
\* lets wait sleeps past its queue.
RequestsAreSpaced ==
  /\ closest >= Interval - MaxLate
  /\ pacer = "osonish" => \A c \in Callers : sleep[c] # Awake => sleep[c] - asked[c] <= MaxQueue
=============================================================================
