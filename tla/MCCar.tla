------------------------------- MODULE MCCar -------------------------------
(***************************************************************************)
(* Values for Car: one tick is 100 ms, so the interval and the buzzer are  *)
(* 2, the turn is 10, the sleeps are 5 and 10; a getCm() completes at most *)
(* one tick.  Distances lie below, at and above the threshold.             *)
(***************************************************************************)
EXTENDS Car

MCDistances == {14, 15, 16}
MCPidDuties == {0, 99}
=============================================================================
