----------------------------- MODULE MCRanging -----------------------------
(***************************************************************************)
(* Ranging with one time unit for 5 ms: the wait is 3, the echo limit 5,   *)
(* the longest echo 8, so that every order of the three limits occurs.     *)
(* Two distance units to a time unit; echoes that count reach from below   *)
(* the least distance to beyond the greatest, and jumps occur.             *)
(***************************************************************************)
EXTENDS Ranging
=============================================================================
