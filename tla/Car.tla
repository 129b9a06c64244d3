-------------------------------- MODULE Car --------------------------------
(***************************************************************************)
(* The firmware of the car: the super-loop of src/main.c with the motor    *)
(* control of src/buddy2/buddy2.c and the sensing of src/buddy5/buddy5.c   *)
(* it calls, and the GPIO interrupt that counts encoder pulses between any *)
(* two statements of the loop.                                             *)
(*                                                                         *)
(* Two actors: the loop, whose place is `pc', and the encoder interrupt.   *)
(* The loop's actions are cut where the interrupt can be observed (each    *)
(* store of reset_distance_counters) or where time passes.  Time is        *)
(* counted in ticks; only the loop lets it pass, by sleeping or by waiting *)
(* for an echo.  `age' holds, for each timestamp the code keeps, the time  *)
(* elapsed since, up to the largest value the code can tell apart.         *)
(***************************************************************************)
EXTENDS Naturals

CONSTANTS
  Distances,        \* values of the filtered distance, cm (kalman clamps them to 2..400)
  THRESHOLD,        \* 15 cm: DISTANCE_THRESHOLD_CM and main.c's own literal
  TARGET,           \* pulses of the right wheel in target_distance_cm
  MaxPulses,        \* BOUND: pulses one encoder counts between two resets
  PidDuties,        \* duty cycles compute_pid may return, percent, within 0..99
  CHECK_INTERVAL,   \* ticks in CHECK_INTERVAL_MS
  BUZZ,             \* ticks in the 200 ms of the buzzer
  TURN,             \* ticks in turn_duration
  BRAKE_SLEEP,      \* ticks in sleep_ms(500)
  STOPPED_SLEEP,    \* ticks in sleep_ms(1000)
  GETCM             \* BOUND: ticks one getCm() may take

ASSUME DistancesAssumption == Distances \subseteq Nat \ {0}
ASSUME CountsAssumption ==
  /\ TARGET \in Nat \ {0} /\ MaxPulses \in Nat /\ TARGET =< MaxPulses
  /\ PidDuties \subseteq 0..99
(* getCm() gives up after 15 ms; the check interval is 200 ms.             *)
ASSUME TimesAssumption ==
  /\ CHECK_INTERVAL \in Nat /\ BUZZ \in Nat \ {0} /\ TURN \in Nat \ {0}
  /\ BRAKE_SLEEP \in Nat /\ STOPPED_SLEEP \in Nat /\ GETCM \in Nat
  /\ GETCM =< CHECK_INTERVAL /\ THRESHOLD \in Nat

VARIABLES
  pc,                    \* next piece of the loop
  current_state,         \* RobotState
  current_distance,      \* local of main: the last getCm() of the loop
  distance_filter,       \* FALSE when kalman_init's calloc failed (NULL)
  obstacle_detected, buzzer_on,
  age,                   \* ticks since last_distance_check_time, buzzer_start_time, turning_start_time
  duty, forward,         \* per wheel: PWM duty in percent, direction pins
  pulse_count, incremental_distance, total_distance,   \* per wheel, in pulses
  resets,                \* how many stores of reset_distance_counters are done
  rolled,                \* history: right pulses since the turn ended
  inReset                \* history, per wheel: pulses taken amid the last reset

control  == <<pc, current_state, current_distance>>
sensing  == <<distance_filter, obstacle_detected, buzzer_on>>
motors   == <<duty, forward>>
counters == <<pulse_count, incremental_distance, total_distance, resets>>
history  == <<rolled, inReset>>
vars     == <<control, sensing, age, motors, counters, history>>

Wheels == {"left", "right"}
States == {"forward", "turning", "distance", "stopped"}
Places == {"measure", "sample", "switch", "start_turn", "reset", "drive", "delay"}

(* The largest age of each timestamp that is told apart from older ones.   *)
(* The buzzer's is one more than the longest the buzzer can stay on.       *)
Most(a, b) == IF a >= b THEN a ELSE b
BuzzLimit == BUZZ + Most(BRAKE_SLEEP, STOPPED_SLEEP) + 2 * GETCM
Oldest == [check |-> CHECK_INTERVAL + GETCM + 1, buzz |-> BuzzLimit + 1, turn |-> TURN]
Timestamps == {"check", "buzz", "turn"}

Least(a, b) == IF a =< b THEN a ELSE b
Later(d) == [t \in Timestamps |-> Least(age[t] + d, Oldest[t])]

Readings == IF distance_filter THEN Distances ELSE {0}
GetCmTimes == IF distance_filter THEN 0..GETCM ELSE {0}

TypeOK ==
  /\ pc \in Places /\ current_state \in States
  /\ current_distance \in Distances \cup {0}
  /\ distance_filter \in BOOLEAN
  /\ obstacle_detected \in BOOLEAN /\ buzzer_on \in BOOLEAN
  /\ age \in [Timestamps -> Nat]
  /\ \A t \in Timestamps : age[t] =< Oldest[t]
  /\ duty \in [Wheels -> 0..99] /\ forward \in [Wheels -> BOOLEAN]
  /\ pulse_count \in [Wheels -> Nat]
  /\ incremental_distance \in [Wheels -> Nat]
  /\ total_distance \in [Wheels -> Nat]
  /\ resets \in 0..6
  /\ rolled \in Nat /\ inReset \in [Wheels -> Nat]

Both(v) == [w \in Wheels |-> v]
Motors(l, r) == [w \in Wheels |-> IF w = "left" THEN l ELSE r]

(* main up to the loop: both motors forward, PWM 94/99, buzzer off.        *)
Init ==
  /\ pc = "measure" /\ current_state = "forward" /\ current_distance = 0
  /\ distance_filter \in BOOLEAN
  /\ obstacle_detected = FALSE /\ buzzer_on = FALSE
  /\ age = [t \in Timestamps |-> IF t = "check" THEN 0 ELSE Oldest[t]]
  /\ duty = Motors(94, 99) /\ forward = Both(TRUE)
  /\ pulse_count = Both(0)
  /\ incremental_distance = Both(0)
  /\ total_distance = Both(0)
  /\ resets = 0 /\ rolled = 0 /\ inReset = Both(0)

-----------------------------------------------------------------------------
(* The loop.                                                               *)

(* mutant: no measuring while the buzzer sounds *)
CheckDue_WhenSilent == age["check"] > CHECK_INTERVAL /\ ~buzzer_on

CheckDue == age["check"] > CHECK_INTERVAL

(* measureDistanceAndBuzz when the last check is recent: only the buzzer.  *)
SkipCheck ==
  /\ pc = "measure"
  /\ ~CheckDue
  /\ buzzer_on' = (buzzer_on /\ age["buzz"] < BUZZ)
  /\ pc' = "sample"
  /\ UNCHANGED <<current_state, current_distance, distance_filter,
                 obstacle_detected, age, motors, counters, history>>

(* mutant: a close reading keeps the buzzer on, whatever its 200 ms *)
CheckDistance_KeepsOn ==
  /\ pc = "measure"
  /\ CheckDue
  /\ \E d \in GetCmTimes, distanceCm \in Readings :
       LET close  == distanceCm # 0 /\ distanceCm < THRESHOLD
           starts == close /\ ~buzzer_on
           onFor  == age["buzz"]
       IN  /\ obstacle_detected' = close
           /\ buzzer_on' = (close \/ (buzzer_on /\ onFor < BUZZ))
           /\ age' = [t \in Timestamps |->
                        IF t = "check" \/ (t = "buzz" /\ starts)
                          THEN Least(d, Oldest[t]) ELSE Later(d)[t]]
  /\ pc' = "sample"
  /\ UNCHANGED <<current_state, current_distance, distance_filter,
                 motors, counters, history>>

(* measureDistanceAndBuzz when it is time to check.  current_time is read  *)
(* once, before getCm(): both timestamps it sets are already d old, and    *)
(* the buzzer's age is judged as of before the d ticks.                    *)
CheckDistance ==
  /\ pc = "measure"
  /\ CheckDue
  /\ \E d \in GetCmTimes, distanceCm \in Readings :
       LET close  == distanceCm # 0 /\ distanceCm < THRESHOLD
           starts == close /\ ~buzzer_on
           onFor  == IF starts THEN 0 ELSE age["buzz"]
       IN  /\ obstacle_detected' = close
           /\ buzzer_on' = ((buzzer_on \/ close) /\ onFor < BUZZ)
           /\ age' = [t \in Timestamps |->
                        IF t = "check" \/ (t = "buzz" /\ starts)
                          THEN Least(d, Oldest[t]) ELSE Later(d)[t]]
  /\ pc' = "sample"
  /\ UNCHANGED <<current_state, current_distance, distance_filter,
                 motors, counters, history>>

(* current_distance = getCm() *)
Sample ==
  /\ pc = "sample"
  /\ current_distance' \in Readings
  /\ \E d \in GetCmTimes : age' = Later(d)
  /\ pc' = "switch"
  /\ UNCHANGED <<current_state, sensing, motors, counters, history>>

(* mutant: the threshold itself is not an obstacle *)
AtThreshold_Strict == current_distance < THRESHOLD

AtThreshold == current_distance =< THRESHOLD

(* mutant: only the left motor is stopped *)
Brake_LeftOnly ==
  /\ pc = "switch" /\ current_state = "forward"
  /\ AtThreshold
  /\ duty' = [duty EXCEPT !["left"] = 0]
  /\ age' = Later(BRAKE_SLEEP)
  /\ pc' = "start_turn"
  /\ UNCHANGED <<current_state, current_distance, sensing, forward, counters, history>>

(* STATE_MOVING_FORWARD, obstacle at the threshold: both motors off, then  *)
(* sleep_ms(500).                                                          *)
Brake ==
  /\ pc = "switch" /\ current_state = "forward"
  /\ AtThreshold
  /\ duty' = Both(0)
  /\ age' = Later(BRAKE_SLEEP)
  /\ pc' = "start_turn"
  /\ UNCHANGED <<current_state, current_distance, sensing, forward, counters, history>>

(* adjust_left_motor_speed, which does nothing while obstacle_detected.    *)
AdjustLeft ==
  /\ pc = "switch" /\ current_state = "forward"
  /\ ~AtThreshold
  /\ \/ obstacle_detected /\ UNCHANGED duty
     \/ ~obstacle_detected /\ \E c \in PidDuties : duty' = [duty EXCEPT !["left"] = c]
  /\ pc' = "delay"
  /\ UNCHANGED <<current_state, current_distance, sensing, age, forward, counters, history>>

(* start_turning_right: left forward, right reverse, 55 percent both.      *)
StartTurn ==
  /\ pc = "start_turn"
  /\ forward' = Motors(TRUE, FALSE)
  /\ duty' = Both(55)
  /\ age' = [age EXCEPT !["turn"] = 0]
  /\ current_state' = "turning"
  /\ pc' = "delay"
  /\ UNCHANGED <<current_distance, sensing, counters, history>>

KeepTurning ==
  /\ pc = "switch" /\ current_state = "turning"
  /\ age["turn"] < TURN
  /\ pc' = "delay"
  /\ UNCHANGED <<current_state, current_distance, sensing, age, motors, counters, history>>

(* mutant: turning_complete does not stop the motors *)
FinishTurn_Running ==
  /\ pc = "switch" /\ current_state = "turning"
  /\ age["turn"] >= TURN
  /\ pc' = "reset" /\ resets' = 0
  /\ rolled' = 0 /\ inReset' = Both(0)
  /\ UNCHANGED <<current_state, current_distance, sensing, age, motors,
                 pulse_count, incremental_distance, total_distance>>

(* turning_complete returns true, having stopped both motors.              *)
FinishTurn ==
  /\ pc = "switch" /\ current_state = "turning"
  /\ age["turn"] >= TURN
  /\ duty' = Both(0)
  /\ pc' = "reset" /\ resets' = 0
  /\ rolled' = 0 /\ inReset' = Both(0)
  /\ UNCHANGED <<current_state, current_distance, sensing, age, forward,
                 pulse_count, incremental_distance, total_distance>>

(* mutant: the incremental distances are not reset *)
ResetStore_KeepsDistance ==
  /\ pc = "reset" /\ resets < 6
  /\ LET w == IF resets % 2 = 0 THEN "left" ELSE "right"
         Zeroed(f) == [f EXCEPT ![w] = 0]
     IN /\ pulse_count' = IF resets < 2 THEN Zeroed(pulse_count) ELSE pulse_count
        /\ incremental_distance' = IF resets \in {} THEN Zeroed(incremental_distance)
                                                       ELSE incremental_distance
        /\ total_distance' = IF resets > 3 THEN Zeroed(total_distance) ELSE total_distance
  /\ resets' = resets + 1
  /\ pc' = IF resets = 5 THEN "drive" ELSE "reset"
  /\ UNCHANGED <<current_state, current_distance, sensing, age, motors, history>>

(* reset_distance_counters, one store after the other: both counts, both   *)
(* incremental distances, both totals, the left one first.                 *)
ResetStore ==
  /\ pc = "reset" /\ resets < 6
  /\ LET w == IF resets % 2 = 0 THEN "left" ELSE "right"
         Zeroed(f) == [f EXCEPT ![w] = 0]
     IN /\ pulse_count' = IF resets < 2 THEN Zeroed(pulse_count) ELSE pulse_count
        /\ incremental_distance' = IF resets \in {2, 3} THEN Zeroed(incremental_distance)
                                                       ELSE incremental_distance
        /\ total_distance' = IF resets > 3 THEN Zeroed(total_distance) ELSE total_distance
  /\ resets' = resets + 1
  /\ pc' = IF resets = 5 THEN "drive" ELSE "reset"
  /\ UNCHANGED <<current_state, current_distance, sensing, age, motors, history>>

(* The rest of STATE_TURNING_RIGHT: both motors forward, PWM 94/99.        *)
DriveDistance ==
  /\ pc = "drive"
  /\ forward' = Both(TRUE)
  /\ duty' = Motors(94, 99)
  /\ current_state' = "distance"
  /\ pc' = "delay"
  /\ UNCHANGED <<current_distance, sensing, age, counters, history>>

KeepDriving ==
  /\ pc = "switch" /\ current_state = "distance"
  /\ incremental_distance["right"] < TARGET
  /\ pc' = "delay"
  /\ UNCHANGED <<current_state, current_distance, sensing, age, motors, counters, history>>

Arrive ==
  /\ pc = "switch" /\ current_state = "distance"
  /\ incremental_distance["right"] >= TARGET
  /\ duty' = Both(0)
  /\ current_state' = "stopped"
  /\ pc' = "delay"
  /\ UNCHANGED <<current_distance, sensing, age, forward, counters, history>>

(* STATE_STOPPED: both motors off again, then sleep_ms(1000).              *)
StayStopped ==
  /\ pc = "switch" /\ current_state = "stopped"
  /\ duty' = Both(0)
  /\ age' = Later(STOPPED_SLEEP)
  /\ pc' = "delay"
  /\ UNCHANGED <<current_state, current_distance, sensing, forward, counters, history>>

(* The sleep_ms(1) that ends the loop; d is 1 when it completes a tick.    *)
Delay(d) ==
  /\ pc = "delay"
  /\ age' = Later(d)
  /\ pc' = "measure"
  /\ UNCHANGED <<current_state, current_distance, sensing, motors, counters, history>>

-----------------------------------------------------------------------------
(* From the end of the turn on, the right wheel's pulses are history.      *)
RolledCounts == pc \in {"reset", "drive"} \/ current_state \in {"distance", "stopped"}

(* mutant: the handler forgets the pulse count *)
EncoderPulse_NoCount(w) ==
  /\ total_distance[w] < MaxPulses
  /\ UNCHANGED pulse_count
  /\ incremental_distance' = [incremental_distance EXCEPT ![w] = @ + 1]
  /\ total_distance' = [total_distance EXCEPT ![w] = @ + 1]
  /\ rolled' = IF w = "right" /\ RolledCounts THEN rolled + 1 ELSE rolled
  /\ inReset' = IF pc = "reset" THEN [inReset EXCEPT ![w] = @ + 1] ELSE inReset
  /\ UNCHANGED <<control, sensing, age, motors, resets>>

(* The interrupt: gpio_interrupt_handler for a rising edge of an encoder.  *)
(* A wheel may coast when its duty is 0, so no edge is excluded.           *)
EncoderPulse(w) ==
  /\ total_distance[w] < MaxPulses
  /\ pulse_count' = [pulse_count EXCEPT ![w] = @ + 1]
  /\ incremental_distance' = [incremental_distance EXCEPT ![w] = @ + 1]
  /\ total_distance' = [total_distance EXCEPT ![w] = @ + 1]
  /\ rolled' = IF w = "right" /\ RolledCounts THEN rolled + 1 ELSE rolled
  /\ inReset' = IF pc = "reset" THEN [inReset EXCEPT ![w] = @ + 1] ELSE inReset
  /\ UNCHANGED <<control, sensing, age, motors, resets>>

Loop == \/ SkipCheck \/ CheckDistance \/ Sample
        \/ Brake \/ AdjustLeft \/ StartTurn
        \/ KeepTurning \/ FinishTurn \/ ResetStore \/ DriveDistance
        \/ KeepDriving \/ Arrive \/ StayStopped
        \/ Delay(0) \/ Delay(1)

Next == Loop \/ \E w \in Wheels : EncoderPulse(w)

(* The processor runs the loop; its sleeps add up, so ticks complete again *)
(* and again; and a powered right wheel turns.                             *)
Fairness == /\ WF_vars(Loop)
            /\ SF_vars(Delay(1))
            /\ WF_vars(duty["right"] > 0 /\ EncoderPulse("right"))

Spec == Init /\ [][Next]_vars /\ Fairness

-----------------------------------------------------------------------------
(* The wheels' three counters agree outside reset_distance_counters: the   *)
(* interrupt that lands between its stores can make a total lag behind an  *)
(* incremental distance, and that behind a count, but only by the pulses   *)
(* taken amid the last reset (main.c 29-36 against buddy5.c 232-252).      *)
CountersAgree ==
  pc # "reset" =>
    \A w \in Wheels :
      /\ total_distance[w] =< incremental_distance[w]
      /\ incremental_distance[w] =< pulse_count[w]
      /\ pulse_count[w] =< total_distance[w] + inReset[w]

(* The car never halts short of target_distance_cm: when it has stopped,   *)
(* the right wheel has given TARGET pulses since the turn ended, whatever  *)
(* the interrupt did while the counters were being reset (main.c 102, 127).*)
NeverStopsShort == current_state = "stopped" => rolled >= TARGET

(* The buzzer sounds no longer than its 200 ms and what one pass of the    *)
(* loop can add: two measurements and the longest sleep (buddy5.c 174).    *)
(* It does outlast the "200 ms" of the comment at line 173.                *)
BuzzerBounded == buzzer_on => age["buzz"] =< BuzzLimit

(* adjust_left_motor_speed never acts on an obstacle flag older than the   *)
(* check interval and one measurement (buddy2.c 65 reads what buddy5.c 160 *)
(* or 169 stored up to a check interval before).                           *)
FlagIsFresh ==
  pc = "switch" /\ current_state = "forward"
    => age["check"] =< CHECK_INTERVAL + GETCM

(* A motor is never thrown into reverse, or back, under power: direction   *)
(* pins change only while that motor's duty cycle is 0 (buddy2.c 184-185,  *)
(* main.c 107-108).                                                        *)
DirectionChangesAtRest ==
  [][\A w \in Wheels : forward'[w] # forward[w] => duty[w] = 0]_vars

(* The two motors together, as CarMission sees them. *)
Motion == CASE duty = Both(0) -> "rest"
            [] duty["right"] > 0 /\ forward = Both(TRUE) -> "ahead"
            [] duty["left"] > 0 /\ duty["right"] > 0 /\ forward = Motors(TRUE, FALSE) -> "spin"
            [] OTHER -> "astray"

Mission == INSTANCE CarMission WITH phase <- current_state, motion <- Motion, leg <- rolled

(* The loop carries out the mission, step by step and to its end. *)
MissionSpec == Mission!MissionSpec

(* An obstacle that stays at the threshold or nearer in front of the car   *)
(* ends the drive: the car turns, drives its leg and stops (main.c 76-77,  *)
(* "at or before threshold").  So does a filter that was never allocated.  *)
ObstacleEndsDrive ==
  <>[](current_distance =< THRESHOLD) => <>(current_state = "stopped")
=============================================================================
