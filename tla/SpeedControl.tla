---------------------------- MODULE SpeedControl ----------------------------
(***************************************************************************)
(* How the left wheel follows the right one while the car moves forward:   *)
(* the encoders' speeds (gpio_interrupt_handler of src/buddy5/buddy5.c)    *)
(* and adjust_left_motor_speed with compute_pid (src/buddy2/buddy2.c),     *)
(* called on every pass of main's loop until the car brakes.               *)
(*                                                                         *)
(* A speed is the length of a slot over the time between two pulses, and   *)
(* stays what it was when the pulses stop.  The encoders interrupt between *)
(* any two reads of adjust_left_motor_speed.  Speeds are whole cm/s, duty  *)
(* cycles percents, and the gains 3, 2 and 0.02 are exact in them.         *)
(***************************************************************************)
EXTENDS Integers

CONSTANTS
  Speeds,          \* the speeds two pulses can give; 0 is less than 1.0
  TopSpeed,        \* the greatest of them, and of estimate_speed_from_duty_cycle
  MAX_INTEGRAL     \* 1000.0

(* A car of this size does less than 101 cm/s; the code's own estimate is  *)
(* 99 at most.                                                             *)
ASSUME SpeedAssumption ==
  /\ Speeds \subseteq 0..TopSpeed
  /\ TopSpeed \in 99..101
  /\ MAX_INTEGRAL \in Nat \ {0}

VARIABLES
  pc,                   \* the next read of adjust_left_motor_speed, or "braked"
  obstacle_detected,
  speed, pulsed,        \* of each wheel: the last speed, and whether a pulse has come
  current, measured,    \* current_speed_left; whether right_speed_cm_s was 1 or more
  integral_left, prev_error_left,
  duty,                 \* of the left motor, in percent
  behind, ahead         \* history: passes in a row on which left was slower, or faster

pid     == <<integral_left, prev_error_left, duty, behind, ahead>>
encoder == <<speed, pulsed>>
local   == <<current, measured>>
vars    == <<pc, obstacle_detected, encoder, local, pid>>

Wheels == {"left", "right"}

Init ==
  /\ pc = "adjust" /\ obstacle_detected = FALSE
  /\ speed = [w \in Wheels |-> 0] /\ pulsed = [w \in Wheels |-> FALSE]
  /\ current = 0 /\ measured = FALSE
  /\ integral_left = 0 /\ prev_error_left = 0 /\ duty = 94
  /\ behind = 0 /\ ahead = 0

-----------------------------------------------------------------------------
(* The encoder's interrupt: the first pulse has nothing to be timed from.  *)
EncoderPulse(w) ==
  /\ pulsed' = [pulsed EXCEPT ![w] = TRUE]
  /\ IF pulsed[w] THEN \E v \in Speeds : speed' = [speed EXCEPT ![w] = v]
                  ELSE UNCHANGED speed
  /\ UNCHANGED <<pc, obstacle_detected, local, pid>>

(* measureDistanceAndBuzz, between two passes. *)
measureDistanceAndBuzz ==
  /\ pc = "adjust"
  /\ obstacle_detected' \in BOOLEAN
  /\ UNCHANGED <<pc, encoder, local, pid>>

(* STATE_MOVING_FORWARD at the threshold: both motors stop, and nothing    *)
(* adjusts them again, for the rest of the mission has fixed duty cycles.  *)
Brake ==
  /\ pc = "adjust" /\ pc' = "braked"
  /\ integral_left' = 0 /\ prev_error_left' = 0 /\ duty' = 0
  /\ behind' = 0 /\ ahead' = 0
  /\ UNCHANGED <<obstacle_detected, encoder, local>>

(* adjust_left_motor_speed as far as the first read. *)
ReadLeft ==
  /\ pc = "adjust" /\ ~obstacle_detected
  /\ pc' = "test_right" /\ current' = speed["left"]
  /\ UNCHANGED <<obstacle_detected, encoder, measured, pid>>

(* right_speed_cm_s is read twice, once to test it and once to take it.    *)
TestRight ==
  /\ pc = "test_right" /\ pc' = "read_right"
  /\ measured' = (speed["right"] >= 1)
  /\ UNCHANGED <<obstacle_detected, encoder, current, pid>>

(* estimate_speed_from_duty_cycle of the right motor's 0.99. *)
Estimate == 99

target == IF measured THEN speed["right"] ELSE Estimate

Clamp(v, low, high) == IF v < low THEN low ELSE IF v > high THEN high ELSE v

Least(a, b) == IF a =< b THEN a ELSE b

(* mutant: no clamp against windup *)
Integral_Unclamped(error) == integral_left + error

Integral(error) == Clamp(integral_left + error, -MAX_INTEGRAL, MAX_INTEGRAL)

(* compute_pid, and its result to the left motor. *)
compute_pid(error) ==
  /\ integral_left' = Integral(error)
  /\ duty' = Clamp(100 * (3 * error + 2 * Integral(error)) + 2 * (error - prev_error_left),
                   0, 99)
  /\ prev_error_left' = error
  /\ behind' = IF error >= 1 THEN Least(behind + 1, MAX_INTEGRAL) ELSE 0
  /\ ahead' = IF error =< -1 THEN Least(ahead + 1, MAX_INTEGRAL) ELSE 0

Adjust ==
  /\ pc = "read_right" /\ pc' = "adjust"
  /\ compute_pid(target - current)
  /\ UNCHANGED <<obstacle_detected, encoder, local>>

Next ==
  \/ \E w \in Wheels : EncoderPulse(w)
  \/ measureDistanceAndBuzz \/ Brake
  \/ ReadLeft \/ TestRight \/ Adjust

Spec == Init /\ [][Next]_vars

-----------------------------------------------------------------------------
TypeOK ==
  /\ pc \in {"adjust", "test_right", "read_right", "braked"}
  /\ obstacle_detected \in BOOLEAN
  /\ speed \in [Wheels -> 0..TopSpeed] /\ pulsed \in [Wheels -> BOOLEAN]
  /\ current \in 0..TopSpeed /\ measured \in BOOLEAN
  /\ integral_left \in -MAX_INTEGRAL..MAX_INTEGRAL
  /\ prev_error_left \in -TopSpeed..TopSpeed
  /\ duty \in 0..99
  /\ behind \in 0..MAX_INTEGRAL /\ ahead \in 0..MAX_INTEGRAL

(* The left motor is at its full duty cycle after MAX_INTEGRAL passes in a *)
(* row on which it was slower by 1 cm/s or more, and at none after as many *)
(* on which it was faster, however far the integral was on the other side, *)
(* whichever reads the encoders interrupted, and whether the target was    *)
(* measured, estimated or left over from a wheel that has stopped          *)
(* (buddy2.c 60-96, 124-142).                                              *)
CatchesUp ==
  /\ behind = MAX_INTEGRAL => duty = 99
  /\ ahead = MAX_INTEGRAL => duty = 0
=============================================================================
