------------------------- MODULE MCScheduleRequests -------------------------
(***************************************************************************)
(* Instances of ScheduleRequests for TLC: two requests share one permit.   *)
(***************************************************************************)
EXTENDS ScheduleRequests

CONSTANTS r1, r2, t1, t2, a1

TwoRequests == {r1, r2}
Freezer     == {r2}
TwoTeams    == {t1, t2}
OneAbstract == {a1}
TwoScores   == {0, 1}
OneOrTwo    == {1, 2}
=============================================================================
