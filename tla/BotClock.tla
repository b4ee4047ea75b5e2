------------------------------ MODULE BotClock ------------------------------
(***************************************************************************)
(* The bot process and the Tashkent calendar its loops live by              *)
(* (src/src/core/timeutil.py).  A day has four phases, which are all that   *)
(* the loops tell apart: before 00:10, after it, the first and the second    *)
(* notification slot of the day.                                            *)
(***************************************************************************)
EXTENDS Naturals

CONSTANTS
  MaxTime,      \* bound: phases
  MaxFaults,    \* bound: crashes, failed writes, unclear answers
  MaxMoves,     \* bound: changes of mind of users and admins
  WeekDays,     \* days of a week
  SendDay       \* SEND_WEEKDAY

ASSUME ClockAssumption ==
  /\ MaxTime \in Nat \ {0} /\ {MaxFaults, MaxMoves} \subseteq Nat
  /\ WeekDays \in Nat \ {0} /\ SendDay \in 0..(WeekDays - 1)

VARIABLES
  now,          \* phases since the first midnight
  up,           \* the process runs
  faults,       \* faults so far
  moves         \* changes of mind so far

clockVars == <<now, up, faults, moves>>

PhasesPerDay == 4
Times == 0..MaxTime
Days == 0..(MaxTime \div PhasesPerDay)
Weeks == 0..((MaxTime \div PhasesPerDay) \div WeekDays)

ClockTypeOK == now \in Times /\ up \in BOOLEAN /\ faults \in 0..MaxFaults /\ moves \in 0..MaxMoves

\* The first start, after the first 00:10.
ClockInit == now = 1 /\ up = TRUE /\ faults = 0 /\ moves = 0

DayKey(t) == t \div PhasesPerDay
Phase(t) == t % PhasesPerDay
Today == DayKey(now)
WeekKey(t) == DayKey(t) \div WeekDays

\* The slots of the day that have come: the user's own two moments, in the model
\* the phases 2 and 3.
SlotsPassed(t) == IF Phase(t) < 2 THEN 0 ELSE Phase(t) - 1

\* Anything that goes wrong counts against the bound.
Fault == faults < MaxFaults /\ faults' = faults + 1 /\ UNCHANGED <<now, up, moves>>
Move == moves < MaxMoves /\ moves' = moves + 1 /\ UNCHANGED <<now, up, faults>>

=============================================================================
