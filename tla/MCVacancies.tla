---------------------------- MODULE MCVacancies ----------------------------
(***************************************************************************)
(* Small instances of the vacancy ingest, one for each value of scene; they *)
(* share no state:                                                         *)
(*   "store"    two copies of one source and one of another, published 0,  *)
(*              10 and 20 days in: neighbours match, the first and the last *)
(*              do not, and one of them changes;                           *)
(*   "clients"  three rows, six pages and a site that answers anything;     *)
(*   "pace"     three callers of one site.                                 *)
(***************************************************************************)
EXTENDS Ingest, SiteClients, RequestPace

CONSTANTS u1, u2, u3, day0, day10, day20, other, s1, s2

VARIABLE scene

MCUids == {u1, u2, u3}
MCJobs == {day0, day10, day20, other}
MCSimilar == {p \in MCJobs \X MCJobs : p[1] = p[2]}
               \cup {<<day0, day10>>, <<day10, day0>>, <<day10, day20>>, <<day20, day10>>}
MCRank == u1 :> 2 @@ u2 :> 3 @@ u3 :> 1
MCSources == <<s1, s2>>
MCSourceOf == u1 :> s1 @@ u2 :> s1 @@ u3 :> s2
MCJobsOf == u1 :> {day0} @@ u2 :> {day10, other} @@ u3 :> {day20}
MCKeyOf == [j \in MCJobs |-> IF j = other THEN "other" ELSE "same"]
MCRetries == [s \in Sites |-> IF s = "osonish" THEN 0 ELSE 1]

MCInit ==
  /\ scene \in {"store", "clients", "pace"}
  /\ IngestInit /\ ClientsInit /\ PaceInit
  /\ scene # "clients" => site = "hh"
  /\ scene # "pace" => pacer = "osonish"

Still(name, its) == scene # name => UNCHANGED its

MCVars == <<scene, ingestVars, clientVars, paceVars>>

MCNext ==
  /\ UNCHANGED scene
  /\ \/ scene = "store" /\ IngestNext
     \/ scene = "clients" /\ ClientsNext
     \/ scene = "pace" /\ PaceNext
     \* The clocks of these two come to their bound.
     \/ scene \in {"clients", "pace"} /\ UNCHANGED MCVars
  /\ Still("store", ingestVars)
  /\ Still("clients", clientVars)
  /\ Still("pace", paceVars)

MCSpec == MCInit /\ [][MCNext]_MCVars
=============================================================================
