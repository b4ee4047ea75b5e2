----------------------------- MODULE MCAutoPost ------------------------------
(***************************************************************************)
(* Small instances of AutoPost for TLC.                                    *)
(***************************************************************************)
EXTENDS AutoPost

\* 1 and 2 are the same vacancy in two sources, and all are of one employer.
MCEmployer == [v \in Vacancies |-> "a"]
MCGroup == [v \in Vacancies |-> IF v = 2 THEN 1 ELSE v]
MCSource == [v \in Vacancies |-> IF v = 1 THEN "hh" ELSE "osonish"]
=============================================================================
