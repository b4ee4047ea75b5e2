----------------------------- MODULE EventQueue -----------------------------
(***************************************************************************)
(* The queue of analytics events (src/webapp/core/event_queue.py): requests *)
(* append to a bounded buffer and never wait, one flusher task writes       *)
(* batches, and stop() drains what is left on a clean shutdown.             *)
(*                                                                         *)
(* Events are numbered in the order of the enqueue calls.  A step ends at   *)
(* an await: taking the rows out of the buffer and writing them are two.    *)
(***************************************************************************)
EXTENDS Naturals, Sequences, SequencesExt

CONSTANTS
  MaxSize,      \* the buffer's limit
  BatchSize,    \* a buffer of this length wakes the flusher
  MaxEvents     \* bound: enqueue calls

ASSUME QueueAssumption ==
  /\ MaxSize \in Nat \ {0} /\ BatchSize \in Nat \ {0} /\ MaxEvents \in Nat

VARIABLES
  issued,       \* enqueue calls so far
  buffer,       \* the deque
  table,        \* rows of resume_events, in the order of their ids
  written,      \* events counted in _written
  dropped,      \* events counted in _dropped
  wakeup,       \* "none", "clear" or "set"
  stopping,
  flusher,      \* the task: where it is, whether it has a connection, its rows
  stopper,      \* stop(): where it is, the rows of its final flush
  stopAt,       \* history: `issued` when stop() was called
  cut           \* history: events of a flush that was cancelled or had no connection

queueVars == <<issued, buffer, table, written, dropped, wakeup, stopping,
               flusher, stopper, stopAt, cut>>

Events == 1..MaxEvents

QueueTypeOK ==
  /\ issued \in 0..MaxEvents /\ stopAt \in 0..MaxEvents
  /\ buffer \in Seq(Events) /\ Len(buffer) <= MaxSize
  /\ table \in Seq(Events)
  /\ written \subseteq Events /\ dropped \subseteq Events /\ cut \subseteq Events
  /\ wakeup \in {"none", "clear", "set"} /\ stopping \in BOOLEAN
  /\ flusher.at \in {"none", "waiting", "opening", "writing", "done"}
  /\ flusher.conn \in BOOLEAN /\ flusher.rows \in Seq(Events)
  /\ stopper.at \in {"none", "draining", "opening", "writing", "stopped"}
  /\ stopper.rows \in Seq(Events)

QueueInit ==
  /\ issued = 0 /\ buffer = <<>> /\ table = <<>>
  /\ written = {} /\ dropped = {} /\ cut = {}
  /\ wakeup = "none" /\ stopping = FALSE
  /\ flusher = [at |-> "none", conn |-> FALSE, rows |-> <<>>]
  /\ stopper = [at |-> "none", rows |-> <<>>]
  /\ stopAt = 0

-----------------------------------------------------------------------------
\* A request records an event; a full buffer drops it and counts the drop.
Enqueue ==
  /\ issued < MaxEvents
  /\ issued' = issued + 1
  /\ IF Len(buffer) >= MaxSize
     THEN /\ dropped' = dropped \cup {issued'}
          /\ UNCHANGED <<buffer, wakeup>>
     ELSE /\ buffer' = Append(buffer, issued')
          /\ wakeup' = IF wakeup # "none" /\ Len(buffer') >= BatchSize THEN "set" ELSE wakeup
          /\ UNCHANGED dropped
  /\ UNCHANGED <<table, written, stopping, flusher, stopper, stopAt, cut>>

StartFlusher ==
  /\ flusher.at = "none" /\ stopper.at = "none"
  /\ stopping' = FALSE /\ wakeup' = "clear"
  /\ flusher' = [flusher EXCEPT !.at = "waiting"]
  /\ UNCHANGED <<issued, buffer, table, written, dropped, stopper, stopAt, cut>>

-----------------------------------------------------------------------------
\* The flusher's loop.

\* The end of a round: a flusher asked to stop ends when nothing is left, and
\* closes its connection.
EndRound(conn) ==
  flusher' = IF stopping /\ buffer = <<>>
             THEN [at |-> "done", conn |-> FALSE, rows |-> <<>>]
             ELSE [at |-> "waiting", conn |-> conn, rows |-> <<>>]

\* All rows leave the buffer before the first await of flush().
TakeRows ==
  /\ flusher' = [at |-> "writing", conn |-> TRUE, rows |-> buffer]
  /\ buffer' = <<>>

\* It wakes by the event or by its interval; the event is cleared first.
Wakes ==
  /\ flusher.at = "waiting"
  /\ wakeup' = "clear"
  /\ UNCHANGED <<issued, table, written, dropped, stopping, stopper, stopAt, cut>>

WakeIdle == Wakes /\ buffer = <<>> /\ EndRound(flusher.conn) /\ UNCHANGED buffer

WakeConnected == Wakes /\ buffer # <<>> /\ flusher.conn /\ TakeRows

WakeUnconnected ==
  /\ Wakes /\ buffer # <<>> /\ ~flusher.conn
  /\ flusher' = [flusher EXCEPT !.at = "opening"]
  /\ UNCHANGED buffer

FlusherOpens ==
  /\ flusher.at = "opening"
  /\ TakeRows
  /\ UNCHANGED <<issued, table, written, dropped, wakeup, stopping, stopper, stopAt, cut>>

\* The rows stay in the buffer for the next round.
FlusherOpenFails ==
  /\ flusher.at = "opening"
  /\ EndRound(FALSE)
  /\ UNCHANGED <<issued, buffer, table, written, dropped, wakeup, stopping, stopper, stopAt, cut>>

FlusherWrites ==
  /\ flusher.at = "writing"
  /\ table' = table \o flusher.rows
  /\ written' = written \cup ToSet(flusher.rows)
  /\ EndRound(TRUE)
  /\ UNCHANGED <<issued, buffer, dropped, wakeup, stopping, stopper, stopAt, cut>>

\* Mutant: the rows are counted and put back.
FlusherPutsBack ==
  /\ flusher.at = "writing"
  /\ dropped' = dropped \cup ToSet(flusher.rows)
  /\ buffer' = flusher.rows \o buffer
  /\ flusher' = [at |-> "waiting", conn |-> TRUE, rows |-> <<>>]
  /\ UNCHANGED <<issued, table, written, wakeup, stopping, stopper, stopAt, cut>>

\* The transaction is rolled back; its rows are counted, not put back.
FlusherWriteFails ==
  /\ flusher.at = "writing"
  /\ dropped' = dropped \cup ToSet(flusher.rows)
  /\ EndRound(TRUE)
  /\ UNCHANGED <<issued, buffer, table, written, wakeup, stopping, stopper, stopAt, cut>>

-----------------------------------------------------------------------------
\* stop(): ask, wait for the flusher, then flush what came in meanwhile.

\* Mutant: stop() relies on the flusher having drained the buffer.
NoFinalFlush ==
  /\ wakeup' = "none"
  /\ stopper' = [at |-> "stopped", rows |-> <<>>]
  /\ UNCHANGED buffer

\* The final flush takes the rows before it opens a connection of its own.
FinalFlush ==
  /\ wakeup' = "none"
  /\ stopper' = IF buffer = <<>> THEN [at |-> "stopped", rows |-> <<>>]
                                 ELSE [at |-> "opening", rows |-> buffer]
  /\ buffer' = <<>>

Stop ==
  /\ stopper.at = "none"
  /\ stopping' = TRUE /\ stopAt' = issued
  /\ IF flusher.at \in {"none", "done"}
     THEN FinalFlush
     ELSE /\ stopper' = [stopper EXCEPT !.at = "draining"]
          /\ wakeup' = "set"
          /\ UNCHANGED buffer
  /\ UNCHANGED <<issued, table, written, dropped, flusher, cut>>

Drained ==
  /\ stopper.at = "draining" /\ flusher.at = "done"
  /\ FinalFlush
  /\ UNCHANGED <<issued, table, written, dropped, stopping, flusher, stopAt, cut>>

\* The flusher took longer than STOP_TIMEOUT_SECONDS and is cancelled.  Rows it
\* was writing are in the table when the commit had reached SQLite's thread;
\* they are counted nowhere.
CutFlusher ==
  /\ stopper.at = "draining" /\ flusher.at # "done"
  /\ flusher' = [at |-> "done", conn |-> FALSE, rows |-> <<>>]
  /\ table' \in {table, table \o flusher.rows}
  /\ cut' = cut \cup ToSet(flusher.rows)
  /\ FinalFlush
  /\ UNCHANGED <<issued, written, dropped, stopping, stopAt>>

StopperOpens ==
  /\ stopper.at = "opening"
  /\ stopper' = [stopper EXCEPT !.at = "writing"]
  /\ UNCHANGED <<issued, buffer, table, written, dropped, wakeup, stopping, flusher, stopAt, cut>>

\* stop() logs the error; the rows are gone and counted nowhere.
StopperOpenFails ==
  /\ stopper.at = "opening"
  /\ cut' = cut \cup ToSet(stopper.rows)
  /\ stopper' = [at |-> "stopped", rows |-> <<>>]
  /\ UNCHANGED <<issued, buffer, table, written, dropped, wakeup, stopping, flusher, stopAt>>

StopperWrites ==
  /\ stopper.at = "writing"
  /\ table' = table \o stopper.rows
  /\ written' = written \cup ToSet(stopper.rows)
  /\ stopper' = [at |-> "stopped", rows |-> <<>>]
  /\ UNCHANGED <<issued, buffer, dropped, wakeup, stopping, flusher, stopAt, cut>>

StopperWriteFails ==
  /\ stopper.at = "writing"
  /\ dropped' = dropped \cup ToSet(stopper.rows)
  /\ stopper' = [at |-> "stopped", rows |-> <<>>]
  /\ UNCHANGED <<issued, buffer, table, written, wakeup, stopping, flusher, stopAt, cut>>

-----------------------------------------------------------------------------
FlusherStep ==
  \/ WakeIdle \/ WakeConnected \/ WakeUnconnected \/ FlusherOpens
  \/ FlusherOpenFails \/ FlusherWrites \/ FlusherWriteFails

StopperStep ==
  \/ Drained \/ CutFlusher
  \/ StopperOpens \/ StopperOpenFails \/ StopperWrites \/ StopperWriteFails

-----------------------------------------------------------------------------
InFlight == ToSet(flusher.rows) \cup ToSet(stopper.rows)

\* Every event is in one place: waiting, in a flush, written, counted as
\* dropped, or in the one flush that a shutdown cut short.  No event is
\* written twice, none is both written and counted as dropped, and the rows
\* have ids in the order of the calls.  "stop() drains the buffer on a clean
\* shutdown": once it returned, every event recorded before it was called is
\* written or counted, unless the shutdown cut a flush short.
EventsAreAccountedFor ==
  /\ 1..issued = ToSet(buffer) \cup InFlight \cup written \cup dropped \cup cut
  /\ written \subseteq ToSet(table) /\ ToSet(table) \subseteq written \cup cut
  /\ ToSet(table) \cap (dropped \cup ToSet(buffer) \cup InFlight) = {}
  /\ dropped \cap (ToSet(buffer) \cup InFlight) = {}
  /\ \A i, j \in DOMAIN table : i < j => table[i] < table[j]
  /\ stopper.at = "stopped" => 1..stopAt \subseteq written \cup dropped \cup cut

=============================================================================
