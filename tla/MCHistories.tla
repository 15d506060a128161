----------------------------- MODULE MCHistories -----------------------------
(***************************************************************************)
(* An instance of Histories: from Monday, 31 August 2026, to Monday, 7     *)
(* September.  31 August is also a month end.                              *)
(***************************************************************************)
EXTENDS Histories

MCMonthEnds == {0, 30}
BothMondays == {0, 7}
\* The day after the last, and a week later, when the first Monday is out of
\* the scorer's window.
MCAskedAt == {8 * Day, 15 * Day}

MCTriggers == {{}, {"expense"}, {"leave", "sprint"}}

\* Definitions refer to what their shop has.
ASSUME ShopsAreClosed ==
  \A company \in Companies :
    /\ \A routine \in ToSet(company.routines) :
         routine.module \in company.modules /\ routine.personas \subseteq PeopleOf(company)
    /\ \A link \in ToSet(company.cross_app) :
         /\ {link.first[1], link.then[1]} \subseteq company.modules
         /\ link.persona \in PeopleOf(company)

=============================================================================
