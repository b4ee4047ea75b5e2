---------------------------- MODULE VacancyGroups ----------------------------
(***************************************************************************)
(* Duplicate groups of vacancies (src/src/ingest/dedup.py) as operators on  *)
(* the table: V maps the uids that have a row to their rows.                *)
(*                                                                         *)
(* A job stands for all that is_match compares: employer, district, date,   *)
(* key and title.  Matching is symmetric and not transitive, and a job      *)
(* without an employer matches nothing, not even itself.                    *)
(***************************************************************************)
EXTENDS Integers, FiniteSets, SequencesExt

CONSTANTS
  Uids,         \* vacancies, over all sources
  Jobs,         \* what a row says of its job
  Similar,      \* pairs of jobs that is_match accepts
  Rank,         \* source priority, quality and age, as one number per uid
  None          \* NULL

ASSUME GroupAssumption ==
  /\ Similar \subseteq Jobs \X Jobs
  /\ \A p \in Similar : <<p[2], p[1]>> \in Similar
  /\ Rank \in [Uids -> Nat] /\ \A u, w \in Uids : Rank[u] = Rank[w] => u = w
  /\ IsFiniteSet(Uids) /\ None \notin Uids

Present(V) == DOMAIN V
IsMatch(V, u, w) == <<V[u].job, V[w].job>> \in Similar

\* COALESCE(dedup_group, uid)
Group(V, u) == IF V[u].grp = None THEN u ELSE V[u].grp

\* canonical_rank: open rows first.
Better(V, u, w) ==
  \/ V[u].open /\ ~V[w].open
  \/ V[u].open = V[w].open /\ Rank[u] < Rank[w]

Canonical(V, members) ==
  CHOOSE u \in members : \A w \in members \ {u} : Better(V, u, w)

\* regroup: one group's canonical row is shown, the others point to it.
Regroup(V, g) ==
  LET members == {u \in Present(V) : V[u].grp = g \/ u = g}
      best == Canonical(V, members)
  IN  [u \in Present(V) |->
         IF u \in members
         THEN [V[u] EXCEPT !.grp = best, !.dup = IF u = best THEN None ELSE best]
         ELSE V[u]]

\* One group after the other, each as the one before it left the table.
RegroupEach(V, gs) ==
  LET done[i \in 0..Len(gs)] == IF i = 0 THEN V ELSE Regroup(done[i - 1], gs[i])
  IN  done[Len(gs)]

\* The groups are a set: what the orders of going through it may leave.
RegroupAll(V, groups) == {RegroupEach(V, gs) : gs \in SetToSeqs(groups)}

GroupsOf(V, us) == {V[u].grp : u \in us \cap Present(V)} \ {None}

-----------------------------------------------------------------------------
StillGrouped(V, u) ==
  \E w \in Present(V) \ {u} : V[w].grp = V[u].grp /\ IsMatch(V, u, w)

\* _detach: u leaves; the others find a new canonical row among themselves.
Detach(V, u) ==
  LET g == V[u].grp
      T == [V EXCEPT ![u].grp = u, ![u].dup = None]
      others == {w \in Present(V) \ {u} : V[w].grp = u}
      heir == Canonical(T, others)
      moved == [w \in Present(V) |-> IF w \in others THEN [T[w] EXCEPT !.grp = heir] ELSE T[w]]
  IN  IF g # u THEN Regroup(T, g)
      ELSE IF others = {} THEN T ELSE Regroup(moved, heir)

\* find_match: the groups it may answer.  Which of several matching
\* candidates comes first depends on dates and title ratios.
Matches(V, u) ==
  {Group(V, w) : w \in {x \in Present(V) \ {u} : V[x].open /\ IsMatch(V, u, x)}}
    \ {Group(V, u)}

\* u, with the group it is the canonical row of, joins group g.
Join(V, u, g) ==
  Regroup([w \in Present(V) |->
             IF w = u \/ V[w].grp = u THEN [V[w] EXCEPT !.grp = g] ELSE V[w]], g)

Alone(V, u) ==
  IF V[u].grp = None THEN [V EXCEPT ![u].grp = u, ![u].dup = None] ELSE V

\* assign for one uid: the tables it may leave.
Assign(V, u) ==
  IF V[u].grp # None /\ StillGrouped(V, u)
  THEN {V}
  ELSE LET T == IF V[u].grp = None THEN V ELSE Detach(V, u)
       IN  IF Matches(T, u) = {} THEN {Alone(T, u)}
           ELSE {Join(T, u, g) : g \in Matches(T, u)}

\* assign for those of the listed uids that changed, one after the other.
AssignAll(V, us, changed) ==
  LET done[i \in 0..Len(us)] ==
        IF i = 0 THEN {V}
        ELSE IF us[i] \in changed THEN UNION {Assign(T, us[i]) : T \in done[i - 1]}
        ELSE done[i - 1]
  IN  done[Len(us)]

=============================================================================
