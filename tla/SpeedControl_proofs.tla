------------------------ MODULE SpeedControl_proofs ------------------------
(***************************************************************************)
(* SpeedControl for every set of speeds and every bound of the integral.   *)
(* A pass behind raises the integral by 1 at least unless it is at its     *)
(* bound, so after n of them it is no less than n above its lower bound;   *)
(* after MAX_INTEGRAL of them it is not negative, and the proportional     *)
(* part alone then asks for more than the derivative can take away.        *)
(***************************************************************************)
EXTENDS SpeedControl, TLAPS

Windup ==
  /\ integral_left >= -MAX_INTEGRAL + behind
  /\ integral_left =< MAX_INTEGRAL - ahead

Inv == TypeOK /\ Windup /\ CatchesUp

LEMMA Constants ==
  /\ MAX_INTEGRAL \in Nat /\ MAX_INTEGRAL >= 1
  /\ TopSpeed \in Nat /\ TopSpeed >= 99 /\ TopSpeed =< 101
  /\ \A v \in Speeds : v \in 0..TopSpeed
BY SpeedAssumption

(* What compute_pid asks for, once the integral is not on the other side.  *)
LEMMA Asked ==
  ASSUME NEW e \in Int, NEW i \in Int, NEW p \in Int, p >= -101, p =< 101
  PROVE  /\ 100 * (3 * e + 2 * i) + 2 * (e - p) \in Int
         /\ e >= 1 /\ i >= 0 => 100 * (3 * e + 2 * i) + 2 * (e - p) >= 99
         /\ e =< -1 /\ i =< 0 => 100 * (3 * e + 2 * i) + 2 * (e - p) =< 0
OBVIOUS

LEMMA Start == Init => Inv
<1> SUFFICES ASSUME Init PROVE Inv
  OBVIOUS
<1>1. TypeOK
  <2>1. speed \in [Wheels -> 0..TopSpeed] /\ pulsed \in [Wheels -> BOOLEAN]
    BY Constants DEF Init
  <2>2. /\ pc \in {"adjust", "test_right", "read_right", "braked"}
        /\ obstacle_detected \in BOOLEAN /\ measured \in BOOLEAN
    BY DEF Init
  <2>3. /\ current \in 0..TopSpeed
        /\ integral_left \in -MAX_INTEGRAL..MAX_INTEGRAL
        /\ prev_error_left \in -TopSpeed..TopSpeed /\ duty \in 0..99
        /\ behind \in 0..MAX_INTEGRAL /\ ahead \in 0..MAX_INTEGRAL
    BY Constants DEF Init
  <2> QED
    BY <2>1, <2>2, <2>3 DEF TypeOK
<1>2. Windup /\ CatchesUp
  BY Constants DEF Init, Windup, CatchesUp
<1> QED
  BY <1>1, <1>2 DEF Inv

(* One pass of compute_pid. *)
LEMMA Pass ==
  ASSUME Inv, NEW error \in Int, error >= -TopSpeed, error =< TopSpeed, compute_pid(error)
  PROVE  /\ integral_left' \in -MAX_INTEGRAL..MAX_INTEGRAL
         /\ prev_error_left' \in -TopSpeed..TopSpeed
         /\ duty' \in 0..99
         /\ behind' \in 0..MAX_INTEGRAL /\ ahead' \in 0..MAX_INTEGRAL
         /\ Windup' /\ CatchesUp'
<1> DEFINE raw == 100 * (3 * error + 2 * Integral(error)) + 2 * (error - prev_error_left)
<1>1. /\ integral_left \in Int /\ prev_error_left \in Int
      /\ behind \in 0..MAX_INTEGRAL /\ ahead \in 0..MAX_INTEGRAL
      /\ integral_left >= -MAX_INTEGRAL + behind
      /\ integral_left =< MAX_INTEGRAL - ahead
      /\ prev_error_left >= -TopSpeed /\ prev_error_left =< TopSpeed
  BY Constants DEF Inv, TypeOK, Windup
<1>2. integral_left' = Integral(error) /\ prev_error_left' = error /\ duty' = Clamp(raw, 0, 99)
  BY DEF compute_pid
<1>3. /\ behind' = IF error >= 1 THEN Least(behind + 1, MAX_INTEGRAL) ELSE 0
      /\ ahead' = IF error =< -1 THEN Least(ahead + 1, MAX_INTEGRAL) ELSE 0
  BY DEF compute_pid
<1>4. /\ behind' \in 0..MAX_INTEGRAL /\ ahead' \in 0..MAX_INTEGRAL
      /\ behind' > 0 => error >= 1 /\ behind' =< behind + 1
      /\ ahead' > 0 => error =< -1 /\ ahead' =< ahead + 1
  BY <1>1, <1>3, Constants DEF Least
<1>5. integral_left + error \in Int /\ -MAX_INTEGRAL \in Int /\ -MAX_INTEGRAL =< MAX_INTEGRAL
  BY <1>1, Constants
<1>6. /\ Integral(error) \in -MAX_INTEGRAL..MAX_INTEGRAL
      /\ integral_left + error =< MAX_INTEGRAL => Integral(error) >= integral_left + error
      /\ integral_left + error >= MAX_INTEGRAL => Integral(error) = MAX_INTEGRAL
      /\ integral_left + error >= -MAX_INTEGRAL => Integral(error) =< integral_left + error
      /\ integral_left + error =< -MAX_INTEGRAL => Integral(error) = -MAX_INTEGRAL
  BY <1>5, Constants DEF Integral, Clamp
<1>7. Integral(error) \in Int
  BY <1>6, Constants
<1>8. Integral(error) >= -MAX_INTEGRAL + behind' /\ Integral(error) =< MAX_INTEGRAL - ahead'
  <2>1. CASE error >= 1
    BY <2>1, <1>1, <1>4, <1>6, <1>7, Constants
  <2>2. CASE error =< -1
    BY <2>2, <1>1, <1>4, <1>6, <1>7, Constants
  <2>3. CASE error = 0
    BY <2>3, <1>1, <1>4, <1>6, <1>7, Constants
  <2> QED
    BY <2>1, <2>2, <2>3
<1>9. /\ raw \in Int
      /\ error >= 1 /\ Integral(error) >= 0 => raw >= 99
      /\ error =< -1 /\ Integral(error) =< 0 => raw =< 0
  <2>1. prev_error_left >= -101 /\ prev_error_left =< 101
    BY <1>1, Constants
  <2> QED
    BY <2>1, <1>1, <1>7, Asked
<1>10. duty' \in 0..99 /\ (raw >= 99 => duty' = 99) /\ (raw =< 0 => duty' = 0)
  <2> HIDE DEF raw
  <2> QED
    BY <1>2, <1>9 DEF Clamp
<1>11. behind' = MAX_INTEGRAL => duty' = 99
  <2> SUFFICES ASSUME behind' = MAX_INTEGRAL PROVE raw >= 99
    BY <1>10
  <2>1. error >= 1 /\ Integral(error) >= 0
    BY <1>4, <1>7, <1>8, Constants
  <2> QED
    BY <2>1, <1>9
<1>12. ahead' = MAX_INTEGRAL => duty' = 0
  <2> SUFFICES ASSUME ahead' = MAX_INTEGRAL PROVE raw =< 0
    BY <1>10
  <2>1. error =< -1 /\ Integral(error) =< 0
    BY <1>4, <1>7, <1>8, Constants
  <2> QED
    BY <2>1, <1>9
<1>13. prev_error_left' \in -TopSpeed..TopSpeed
  BY <1>2, Constants
<1> QED
  BY <1>2, <1>4, <1>6, <1>8, <1>10, <1>11, <1>12, <1>13 DEF Windup, CatchesUp

LEMMA StepKeeps == Inv /\ [Next]_vars => Inv'
<1> SUFFICES ASSUME Inv, [Next]_vars PROVE Inv'
  OBVIOUS
<1> USE DEF Inv
<1>1. ASSUME NEW w \in Wheels, EncoderPulse(w) PROVE Inv'
  <2>1. speed' \in [Wheels -> 0..TopSpeed]
    BY <1>1, Constants DEF EncoderPulse, TypeOK
  <2>2. pulsed' \in [Wheels -> BOOLEAN]
    BY <1>1 DEF EncoderPulse, TypeOK
  <2> QED
    BY <1>1, <2>1, <2>2 DEF EncoderPulse, TypeOK, Windup, CatchesUp, local, pid
<1>2. CASE measureDistanceAndBuzz
  BY <1>2 DEF measureDistanceAndBuzz, TypeOK, Windup, CatchesUp, encoder, local, pid
<1>3. CASE Brake
  <2>1. integral_left' = 0 /\ prev_error_left' = 0 /\ duty' = 0 /\ behind' = 0 /\ ahead' = 0
    BY <1>3 DEF Brake
  <2>2. Windup' /\ CatchesUp'
    BY <2>1, Constants DEF Windup, CatchesUp
  <2>3. /\ integral_left' \in -MAX_INTEGRAL..MAX_INTEGRAL
        /\ prev_error_left' \in -TopSpeed..TopSpeed /\ duty' \in 0..99
        /\ behind' \in 0..MAX_INTEGRAL /\ ahead' \in 0..MAX_INTEGRAL
    BY <2>1, Constants
  <2>4. TypeOK'
    BY <1>3, <2>3 DEF Brake, TypeOK, encoder, local
  <2> QED
    BY <2>2, <2>4
<1>4. CASE ReadLeft
  <2>1. current' \in 0..TopSpeed
    BY <1>4 DEF ReadLeft, TypeOK, Wheels
  <2> QED
    BY <1>4, <2>1 DEF ReadLeft, TypeOK, Windup, CatchesUp, encoder, pid
<1>5. CASE TestRight
  <2>1. measured' \in BOOLEAN
    BY <1>5 DEF TestRight
  <2> QED
    BY <1>5, <2>1 DEF TestRight, TypeOK, Windup, CatchesUp, encoder, pid
<1>6. CASE Adjust
  <2>1. target \in 0..TopSpeed /\ current \in 0..TopSpeed
    BY Constants DEF target, Estimate, TypeOK, Wheels
  <2> DEFINE error == target - current
  <2>2. error \in Int /\ error >= -TopSpeed /\ error =< TopSpeed
    BY <2>1, Constants
  <2>3. compute_pid(error)
    BY <1>6 DEF Adjust
  <2> HIDE DEF error
  <2>4. /\ integral_left' \in -MAX_INTEGRAL..MAX_INTEGRAL
        /\ prev_error_left' \in -TopSpeed..TopSpeed
        /\ duty' \in 0..99
        /\ behind' \in 0..MAX_INTEGRAL /\ ahead' \in 0..MAX_INTEGRAL
        /\ Windup' /\ CatchesUp'
    BY <2>2, <2>3, Pass
  <2>5. TypeOK'
    BY <1>6, <2>4 DEF Adjust, TypeOK, encoder, local
  <2> QED
    BY <2>4, <2>5
<1>7. CASE UNCHANGED vars
  BY <1>7 DEF vars, TypeOK, Windup, CatchesUp, encoder, local, pid
<1> QED
  BY <1>1, <1>2, <1>3, <1>4, <1>5, <1>6, <1>7 DEF Next

-----------------------------------------------------------------------------
(* The integral stays within its bounds and the duty cycle within 0 and    *)
(* 0.99 (buddy2.c 124-142).                                                *)
THEOREM TypeCorrect == Spec => []TypeOK
<1>1. Inv => TypeOK
  BY DEF Inv
<1> QED
  BY <1>1, Start, StepKeeps, PTL DEF Spec

(* MAX_INTEGRAL passes behind, or ahead, are enough, for every set of      *)
(* speeds and every bound of the integral (buddy2.c 60-96, 124-142).       *)
THEOREM WindupBounded == Spec => []CatchesUp
<1>1. Inv => CatchesUp
  BY DEF Inv
<1> QED
  BY <1>1, Start, StepKeeps, PTL DEF Spec
=============================================================================
