----------------------------- MODULE WebServer ------------------------------
(***************************************************************************)
(* The API process (src/webapp/main.py, lifespan): requests borrow          *)
(* connections and record events until the shutdown, which stops the event  *)
(* queue first and closes the pool after it.                                *)
(***************************************************************************)
EXTENDS ConnectionPool, EventQueue

VARIABLE phase   \* "starting", "serving", "stopping" (the queue), "closing" (the pool), "down"

serverVars == <<poolVars, queueVars, phase>>

Init == PoolInit /\ QueueInit /\ phase = "starting"

Startup ==
  /\ phase = "starting" /\ phase' = "serving"
  /\ StartFlusher
  /\ UNCHANGED poolVars

\* A request is served only between startup and shutdown; one that is already
\* in may run on while the process shuts down.
Request ==
  \E r \in Requests :
    /\ RequestStep(r)
    /\ req[r] = "idle" => phase = "serving"
    /\ UNCHANGED <<queueVars, phase>>

\* A resume handler records an event, with or without a connection.
Record ==
  /\ phase \notin {"starting", "down"}
  /\ Enqueue
  /\ UNCHANGED <<poolVars, phase>>

BeginShutdown ==
  /\ phase = "serving" /\ phase' = "stopping"
  /\ Stop
  /\ UNCHANGED poolVars

ClosePool ==
  /\ phase = "stopping" /\ stopper.at = "stopped" /\ phase' = "closing"
  /\ StartClose
  /\ UNCHANGED queueVars

ShutDown ==
  /\ phase = "closing" /\ phase' = "down"
  /\ FinishClose
  /\ UNCHANGED queueVars

Background ==
  \/ (\E c \in Conns : ReturnStep(c)) /\ UNCHANGED <<queueVars, phase>>
  \/ CloseIdle /\ UNCHANGED <<queueVars, phase>>
  \/ (FlusherStep \/ StopperStep) /\ UNCHANGED <<poolVars, phase>>

\* The process is down and the last hand-back has ended.
Down ==
  /\ phase = "down" /\ Returns = {} /\ \A r \in Requests : req[r] = "idle"
  /\ UNCHANGED serverVars

Next ==
  \/ Startup \/ Request \/ Record
  \/ BeginShutdown \/ ClosePool \/ ShutDown
  \/ Background \/ Down

Spec == Init /\ [][Next]_serverVars

=============================================================================
