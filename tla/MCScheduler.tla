---------------------------- MODULE MCScheduler ----------------------------
(* Three schedules, one per policy, whose occurrences coincide and interleave;*)
(* more are missed in an outage than one startup backfills.                   *)
EXTENDS Scheduler

Occurrences == <<{1, 4}, {2, 4}, {1, 2, 3}>>
Policies == <<"skip", "run-once", "backfill">>
=============================================================================
