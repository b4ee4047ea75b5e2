------------------------------ MODULE MCRoster ------------------------------
(***************************************************************************)
(* Small instances, one for each value of scene; they share no state:      *)
(*   "roster"  two accounts, one of them in ADMIN_IDS, two sessions and    *)
(*             two admin requests, from the tables of admins in MCStarts;  *)
(*   "schema"  the bot and the API start on one file, with one stop.       *)
(***************************************************************************)
EXTENDS Roster, Schema, TLC

VARIABLE scene

MCCalls == {[op |-> op, role |-> Keep, disabled |-> Keep] : op \in {"remove", "ban", "unban", "revoke"}}
           \cup {[op |-> "add", role |-> "owner", disabled |-> Keep],
                 [op |-> "update", role |-> "moderator", disabled |-> Keep],
                 [op |-> "update", role |-> Keep, disabled |-> "yes"]}

Row(role) == [role |-> role, disabled |-> FALSE]

Start(o, a, b, ban) == [admins |-> [u \in Users |-> IF u = o THEN a ELSE b],
                        banned |-> [u \in Users |-> u = o /\ ban]]

\* A fresh table; an owner with a moderator, either of them in ADMIN_IDS; the
\* owner of ADMIN_IDS, banned or not, with a second owner, or with a disabled one.
MCStarts == {Start(o, Row("owner"), Row("moderator"), FALSE) : o \in Users}
            \cup UNION {{Start(o, NoRow, NoRow, FALSE),
                        Start(o, Row("owner"), Row("owner"), TRUE),
                        Start(o, Row("owner"), Row("owner"), FALSE),
                        Start(o, Row("owner"), [Row("owner") EXCEPT !.disabled = TRUE], FALSE)} :
                       o \in AdminIds}

\* The clock moves between two requests.
NoRequestRuns == \A r \in Requests : reqs[r].pc \in {"idle", "done"}

\* Nobody asks to unban who is not banned.
UnbansAreNeeded ==
    \A r \in Requests : reqs[r].pc = "role" /\ reqs[r].call.op = "unban" => banned[reqs[r].target]

\* A stop once m015 or m019 is recorded.
StopPoint == Cardinality(schema \cap ToSet(Migrations)) \in {15, 18}

MCInit ==
    /\ scene \in {"roster", "schema"}
    /\ RosterInit
    /\ SchemaInit
    /\ IF scene = "roster" THEN schema = {}
       ELSE \A u \in Users : admins[u] = NoRow /\ ~banned[u]

MCNext ==
    /\ UNCHANGED scene
    /\ \/ scene = "roster" /\ RosterNext /\ UNCHANGED schemaVars
             /\ (now' # now => NoRequestRuns) /\ UnbansAreNeeded'
       \/ scene = "schema" /\ SchemaNext /\ UNCHANGED rosterVars
             /\ (stops' # stops => StopPoint)

MCVars == <<scene, rosterVars, schemaVars>>
MCSpec == MCInit /\ [][MCNext]_MCVars

Same == Permutations(Sessions) \cup Permutations(Requests)
=============================================================================
