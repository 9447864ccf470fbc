---------------------------- MODULE MCScheduler ----------------------------
(* Instances of Scheduler for TLC. *)
EXTENDS Scheduler

(* every has a window at every third instant.  cron has two local times in *)
(* the hour that a fall-back repeats: 11 comes at instants 1 and 3, and 12 *)
(* at 2 and 4.                                                              *)
WindowKeys ==
    [e \in Expressions |->
        CASE e = "every" -> [t \in {u \in 1..Horizon : u % 3 = 1} |-> t]
          [] e = "cron"  -> [t \in 1..Horizon |-> IF t % 2 = 1 THEN 11 ELSE 12]]

TwoSchedules == <<"nightly", "poll">>
TwoInitially == [s \in {"nightly", "poll"} |-> IF s = "poll" THEN "every" ELSE "cron"]
=============================================================================
