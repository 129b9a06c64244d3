------------------------------- MODULE Kalman -------------------------------
(***************************************************************************)
(* kalman_update() of src/buddy5/buddy5.c on distances of a whole number   *)
(* of units.  The filter's q, r and p matter only through the gain: q is 1 *)
(* or doubled from 1 at least, and r is 0.5, so that p >= 1 when the gain  *)
(* is taken, and the gain p / (p + r) is between 2/3 and 1.  The model     *)
(* takes any gain between, and rounds the estimate either way.  (q is      *)
(* doubled without end: after a thousand innovations of more than 10 in a  *)
(* row it is infinite and the estimate not a number.  The model stops      *)
(* short of that.)                                                         *)
(***************************************************************************)
EXTENDS Integers

CONSTANTS
  MIN_DISTANCE_CM, MAX_DISTANCE_CM,
  JUMP,                   \* 50.0: from here on the measurement is weighted 0.7
  X0,                     \* 20.0: the estimate before the first measurement
  DISTANCE_THRESHOLD_CM,
  Settle                  \* a number of measurements: see Settles in Ranging

ASSUME KalmanAssumption ==
  /\ {MIN_DISTANCE_CM, MAX_DISTANCE_CM, X0} \subseteq Nat /\ JUMP \in Nat
  /\ X0 \in MIN_DISTANCE_CM..MAX_DISTANCE_CM
  /\ DISTANCE_THRESHOLD_CM \in MIN_DISTANCE_CM..MAX_DISTANCE_CM
  /\ Settle \in 1..6

Distances == MIN_DISTANCE_CM..MAX_DISTANCE_CM

Distance(a, b) == IF a =< b THEN b - a ELSE a - b

Between(y, a, b) == (a =< y /\ y =< b) \/ (b =< y /\ y =< a)

(* How near the measurement m the new estimate y is, coming from x: a      *)
(* third of the innovation is left at most, or in a jump three tenths.     *)
Step(x, m, y) ==
  IF Distance(x, m) < JUMP
  THEN 3 * Distance(m, y) =< Distance(x, m) + 2
  ELSE 10 * Distance(m, y) =< 3 * Distance(x, m) + 9

(* mutant: the weights of a jump the other way round *)
Estimates_Slow(x, m) ==
  {y \in Distances :
     /\ Between(y, x, m)
     /\ IF Distance(x, m) < JUMP THEN Step(x, m, y)
        ELSE /\ 10 * Distance(m, y) =< 7 * Distance(x, m) + 9
             /\ 10 * Distance(m, y) >= 7 * Distance(x, m) - 9}

(* mutant: the gain is p / r, so that the estimate runs past m *)
Estimates_Overshoot(x, m) == {y \in Distances : Step(x, m, y)}

(* The estimates after a measurement m within the limits.                  *)
Estimates(x, m) == {y \in Distances : Between(y, x, m) /\ Step(x, m, y)}
=============================================================================
