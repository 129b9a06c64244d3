---------------------------- MODULE MCTempTasks ----------------------------
(***************************************************************************)
(* Two temperatures told apart by every sum, queues of two, a ring of two. *)
(***************************************************************************)
EXTENDS TempTasks

MCReadings == {1, 10}
=============================================================================
