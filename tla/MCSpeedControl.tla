--------------------------- MODULE MCSpeedControl ---------------------------
(***************************************************************************)
(* Four speeds and an integral of 3 at most: three passes behind by 1 are  *)
(* just enough to bring the integral from -3 to 0.                         *)
(***************************************************************************)
EXTENDS SpeedControl

MCSpeeds == {0, 1, 3, 99}
=============================================================================
