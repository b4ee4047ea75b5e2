-------------------------------- MODULE Saves --------------------------------
(***************************************************************************)
(* The vacancies a user has saved. POST /saves counts the rows in one      *)
(* statement and inserts in another; Pro, read when the request was        *)
(* authenticated, lifts the limit. Old releases left TEXT rows: the one of *)
(* a vacancy counts next to its INTEGER row, the list shows both as one,   *)
(* and DELETE takes both.                                                  *)
(***************************************************************************)
EXTENDS Integers, FiniteSets

CONSTANTS Vacancies,
          Savers,       \* POST requests in flight
          FreeLimit     \* FREE_SAVE_LIMIT

ASSUME SavesAssumption == IsFiniteSet(Vacancies) /\ FreeLimit \in Nat

VARIABLES saved,    \* the rows of one user
          pro,      \* users.user_pro
          saver,    \* saver[s]: the request
          beyond    \* rows that were saved as Pro, or past another save

saveVars == <<saved, pro, saver, beyond>>

SaveRow == [vacancy: Vacancies, text: BOOLEAN]
Saver == [at: {"idle", "known", "counted"}, pro: BOOLEAN, crossed: BOOLEAN]
NoSaver == [at |-> "idle", pro |-> FALSE, crossed |-> FALSE]

SavesTypeOK ==
    /\ saved \subseteq SaveRow /\ beyond \subseteq saved
    /\ pro \in BOOLEAN
    /\ saver \in [Savers -> Saver]

SavesInit ==
    /\ saved \in {S \in SUBSET SaveRow : Cardinality(S) <= FreeLimit}
    /\ pro \in BOOLEAN
    /\ saver = [s \in Savers |-> NoSaver]
    /\ beyond = {}

-----------------------------------------------------------------------------
\* current_user.
Authenticate(s) ==
    /\ saver[s].at = "idle"
    /\ saver' = [saver EXCEPT ![s] = [NoSaver EXCEPT !.at = "known", !.pro = pro]]
    /\ UNCHANGED <<saved, pro, beyond>>

\* Mutant: the save that fills the last place is not the last.
FitsOneMore == Cardinality(saved) <= FreeLimit

\* COUNT(DISTINCT save_id) against the limit.
Fits == Cardinality(saved) < FreeLimit

CountSaves(s) ==
    /\ saver[s].at = "known"
    /\ saver' = [saver EXCEPT ![s] =
          IF saver[s].pro \/ Fits THEN [@ EXCEPT !.at = "counted"] ELSE NoSaver]
    /\ UNCHANGED <<saved, pro, beyond>>

\* INSERT OR IGNORE and the commit.
AddSave(s, v) ==
    LET new == {[vacancy |-> v, text |-> FALSE]} \ saved IN
    /\ saver[s].at = "counted"
    /\ saved' = saved \cup new
    /\ beyond' = IF saver[s].pro \/ saver[s].crossed THEN beyond \cup new ELSE beyond
    /\ saver' = [x \in Savers |->
          IF x = s THEN NoSaver
          ELSE [saver[x] EXCEPT !.crossed = @ \/ (saver[x].at = "counted" /\ new # {})]]
    /\ UNCHANGED pro

RemoveSave(v) ==
    /\ saved' = {w \in saved : w.vacancy # v}
    /\ saved' # saved
    /\ beyond' = beyond \cap saved'
    /\ UNCHANGED <<pro, saver>>

\* Pro is bought, granted or revoked: WalletOps.
SetPro ==
    /\ pro' = ~pro
    /\ UNCHANGED <<saved, saver, beyond>>

AbandonSave(s) ==
    /\ saver[s].at # "idle"
    /\ saver' = [saver EXCEPT ![s] = NoSaver]
    /\ UNCHANGED <<saved, pro, beyond>>

SavesNext ==
    \/ \E s \in Savers : \/ Authenticate(s) \/ CountSaves(s) \/ AbandonSave(s)
                         \/ \E v \in Vacancies : AddSave(s, v)
    \/ \E v \in Vacancies : RemoveSave(v)
    \/ SetPro

SavesSpec == SavesInit /\ [][SavesNext]_saveVars

-----------------------------------------------------------------------------
\* The limit of the free plan is passed by Pro, or by saves that overlap: by
\* nothing else, whatever is removed, bought or revoked meanwhile.
SavesAreLimited == Cardinality(saved \ beyond) <= FreeLimit
=============================================================================
