------------------------------ MODULE Ranging ------------------------------
(***************************************************************************)
(* The distance the car acts on: getCm()'s echo (Sonar), turned into a     *)
(* measurement and put through the filter (Kalman).  Each Read of Sonar    *)
(* is one call of kalman_update; a call that gives up leaves the estimate. *)
(***************************************************************************)
EXTENDS Sonar, Kalman

CONSTANT Unit   \* how far sound goes and comes back in a unit of time

(* With the code's numbers: the estimate starts at 20.0, above 15.0, and   *)
(* 3^6 > 400.0 - 2.0.                                                      *)
ASSUME RangingAssumption ==
  /\ Unit \in Nat \ {0}
  /\ X0 > DISTANCE_THRESHOLD_CM
  /\ <<3, 9, 27, 81, 243, 729>>[Settle] > MAX_DISTANCE_CM - MIN_DISTANCE_CM

VARIABLES
  x,           \* distance_filter->x
  heard,       \* history: a measurement of the threshold or less was taken
  near, far    \* history: measurements in a row below or above it, up to Settle

filter == <<x, heard, near, far>>

FilterInit == x = X0 /\ heard = FALSE /\ near = 0 /\ far = 0

(* The distances an echo of so many time units begun stands for.           *)
Measured(width) == {m \in 0..(width * Unit) : (width - 1) * Unit < m}

(* Measurements outside the sensor's range, 0 among them, are dropped.     *)
kalman_update(m) ==
  IF m \in Distances
  THEN /\ x' \in Estimates(x, m)
       /\ heard' = (heard \/ m =< DISTANCE_THRESHOLD_CM)
       /\ near' = IF m < DISTANCE_THRESHOLD_CM THEN Least(near + 1, Settle) ELSE 0
       /\ far' = IF m > DISTANCE_THRESHOLD_CM + 1 THEN Least(far + 1, Settle) ELSE 0
  ELSE UNCHANGED filter

RangingInit == Init /\ FilterInit

RangingNext ==
  /\ Next
  /\ IF pc = "read" /\ pc' = "idle"
     THEN \E m \in Measured(pulse_width) : kalman_update(m)
     ELSE UNCHANGED filter

RangingSpec == RangingInit /\ [][RangingNext]_<<vars, filter>> /\ Fairness

-----------------------------------------------------------------------------
(* No phantom: the estimate is at the threshold or below it only if an     *)
(* echo has said so; the filter does not run past a measurement, whatever  *)
(* its gain, and starts above (buddy5.c 80-97, 159, 343).                  *)
NoPhantom == x =< DISTANCE_THRESHOLD_CM => heard

(* The filter cannot hide an obstacle, nor its going away, for longer than *)
(* Settle measurements: after so many in a row on one side of the          *)
(* threshold the estimate is on that side too, jumps included              *)
(* (buddy5.c 75-97; with the code's numbers Settle is 6).                  *)
Settles ==
  /\ near = Settle => x =< DISTANCE_THRESHOLD_CM
  /\ far = Settle => x > DISTANCE_THRESHOLD_CM
=============================================================================
