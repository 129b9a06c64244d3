----------------------------- MODULE Car_proofs -----------------------------
(***************************************************************************)
(* Car for every choice of its constants: it is type-correct, its counters *)
(* agree, it never halts short of its target, it never reverses a powered  *)
(* motor, and it implements CarMission.  Two inductive invariants carry    *)
(* the argument: what the motors are doing at each place of each state     *)
(* (MotorInv), and how far reset_distance_counters has got (ResetInv).     *)
(***************************************************************************)
EXTENDS Car, TLAPS

(* Where the loop can be, and what the motors then do. *)
MotorInv ==
  /\ pc = "start_turn" => current_state = "forward"
  /\ pc \in {"reset", "drive"} => current_state = "turning"
  /\ pc \in {"start_turn", "reset", "drive"} \/ current_state = "stopped" => duty = Both(0)
  /\ current_state \in {"forward", "distance"} /\ pc # "start_turn" => duty["right"] = 99
  /\ current_state = "turning" /\ pc \notin {"reset", "drive"} => duty = Both(55)
  /\ forward = IF current_state = "turning" THEN Motors(TRUE, FALSE) ELSE Both(TRUE)

(* Which of wheel w's counters the running reset has cleared. *)
Stored(w, k) == pc = "reset" => resets > (IF w = "left" THEN 2 * k ELSE 2 * k + 1)

ResetInv ==
  /\ pc = "reset" => resets < 6
  /\ \A w \in Wheels :
       /\ pc = "reset" /\ Stored(w, 0) => pulse_count[w] =< inReset[w]
       /\ ~Stored(w, 0) \/ Stored(w, 1) => incremental_distance[w] =< pulse_count[w]
       /\ ~Stored(w, 1) \/ Stored(w, 2) => total_distance[w] =< incremental_distance[w]
       /\ pc # "reset" => pulse_count[w] =< total_distance[w] + inReset[w]

(* The distance the loop compares with its target is really rolled. *)
OnLeg == (pc = "reset" /\ resets > 3) \/ pc = "drive" \/ current_state = "distance"

DistanceInv ==
  /\ OnLeg => incremental_distance["right"] =< rolled
  /\ current_state = "stopped" => rolled >= TARGET

Inv == TypeOK /\ MotorInv /\ ResetInv /\ DistanceInv

-----------------------------------------------------------------------------
(* The constants, as the provers want them. *)
LEMMA Constants ==
  /\ CHECK_INTERVAL \in Nat /\ BUZZ \in Nat /\ TURN \in Nat /\ GETCM \in Nat
  /\ BRAKE_SLEEP \in Nat /\ STOPPED_SLEEP \in Nat /\ TARGET \in Nat /\ TARGET > 0
  /\ PidDuties \subseteq 0..99
  BY TimesAssumption, CountsAssumption

(* Ages in their range, and what passing time does to them. *)
AgeOK(a) == a \in [Timestamps -> Nat] /\ \A t \in Timestamps : a[t] =< Oldest[t]

LEMMA OldestType == Oldest \in [Timestamps -> Nat]
  BY Constants DEF Oldest, Timestamps, BuzzLimit, Most

LEMMA LaterAge == ASSUME AgeOK(age), NEW d \in Nat PROVE AgeOK(Later(d))
  BY OldestType DEF AgeOK, Later, Least

LEMMA CapAge == ASSUME NEW d \in Nat, NEW t \in Timestamps
                PROVE  Least(d, Oldest[t]) \in Nat /\ Least(d, Oldest[t]) =< Oldest[t]
  BY OldestType DEF Least

LEMMA TimesType == GetCmTimes \subseteq Nat
  BY Constants DEF GetCmTimes

LEMMA MotorTypes ==
  /\ Both(0) \in [Wheels -> 0..99] /\ Both(55) \in [Wheels -> 0..99]
  /\ Motors(94, 99) \in [Wheels -> 0..99]
  /\ Both(TRUE) \in [Wheels -> BOOLEAN] /\ Motors(TRUE, FALSE) \in [Wheels -> BOOLEAN]
  /\ Both(0) \in [Wheels -> Nat]
  BY DEF Both, Motors, Wheels

-----------------------------------------------------------------------------
(* Type correctness, in three parts that change at different places. *)
ControlType ==
  /\ pc \in Places /\ current_state \in States
  /\ current_distance \in Distances \cup {0}
  /\ distance_filter \in BOOLEAN
  /\ obstacle_detected \in BOOLEAN /\ buzzer_on \in BOOLEAN
  /\ AgeOK(age)
MotorType == duty \in [Wheels -> 0..99] /\ forward \in [Wheels -> BOOLEAN]
CounterType ==
  /\ pulse_count \in [Wheels -> Nat]
  /\ incremental_distance \in [Wheels -> Nat]
  /\ total_distance \in [Wheels -> Nat]
  /\ resets \in 0..6
  /\ rolled \in Nat /\ inReset \in [Wheels -> Nat]

LEMMA TypeParts == TypeOK <=> ControlType /\ MotorType /\ CounterType
  BY DEF TypeOK, ControlType, MotorType, CounterType, AgeOK

LEMMA TypeInit == Init => TypeOK
<1> SUFFICES ASSUME Init PROVE TypeOK
  OBVIOUS
<1>1. AgeOK(age)
  BY OldestType, Constants DEF Init, AgeOK, Timestamps
<1>2. ControlType
  BY <1>1 DEF Init, ControlType, Places, States
<1>3. MotorType
  BY MotorTypes DEF Init, MotorType
<1>4. CounterType
  BY MotorTypes DEF Init, CounterType
<1> QED
  BY <1>2, <1>3, <1>4, TypeParts

LEMMA TypeNext == TypeOK /\ [Next]_vars => TypeOK'
<1> SUFFICES ASSUME TypeOK, [Next]_vars PROVE ControlType' /\ MotorType' /\ CounterType'
  BY TypeParts DEF TypeOK, ControlType, MotorType, CounterType, AgeOK
<1>0. ControlType /\ MotorType /\ CounterType
  BY TypeParts
<1> USE <1>0 DEF control, sensing, motors, counters, history
<1>1. CASE SkipCheck
  <2>1. AgeOK(age)'
    BY <1>1, OldestType, Constants DEF SkipCheck, ControlType, AgeOK, Timestamps
  <2>2. ControlType'
    BY <1>1, <2>1 DEF SkipCheck, ControlType, Places, States
  <2>3. MotorType'
    BY <1>1, MotorTypes, Constants DEF SkipCheck, MotorType
  <2>4. CounterType'
    BY <1>1, MotorTypes DEF SkipCheck, CounterType
  <2> QED
    BY <2>2, <2>3, <2>4
<1>2. CASE CheckDistance
  <2>0. PICK d \in GetCmTimes, distanceCm \in Readings : 
                  LET starts == distanceCm # 0 /\ distanceCm < THRESHOLD /\ ~buzzer_on
                  IN age' = [t \in Timestamps |->
                        IF t = "check" \/ (t = "buzz" /\ starts)
                          THEN Least(d, Oldest[t]) ELSE Later(d)[t]]
    BY <1>2 DEF CheckDistance
  <2>1. AgeOK(age)'
    <3>1. AgeOK(Later(d)) /\ d \in Nat
      BY TimesType, LaterAge DEF ControlType
    <3> QED
      BY <2>0, <3>1, CapAge DEF AgeOK
  <2>2. ControlType'
    BY <1>2, <2>1 DEF CheckDistance, ControlType, Places, States
  <2>3. MotorType'
    BY <1>2, MotorTypes, Constants DEF CheckDistance, MotorType
  <2>4. CounterType'
    BY <1>2, MotorTypes DEF CheckDistance, CounterType
  <2> QED
    BY <2>2, <2>3, <2>4
<1>3. CASE Sample
  <2>1. AgeOK(age)'
    BY <1>3, LaterAge, TimesType, Constants DEF Sample, ControlType, AgeOK
  <2>2. ControlType'
    BY <1>3, <2>1 DEF Sample, ControlType, Places, States, Readings
  <2>3. MotorType'
    BY <1>3, MotorTypes, Constants DEF Sample, MotorType
  <2>4. CounterType'
    BY <1>3, MotorTypes DEF Sample, CounterType
  <2> QED
    BY <2>2, <2>3, <2>4
<1>4. CASE Brake
  <2>1. AgeOK(age)'
    BY <1>4, LaterAge, TimesType, Constants DEF Brake, ControlType, AgeOK
  <2>2. ControlType'
    BY <1>4, <2>1 DEF Brake, ControlType, Places, States
  <2>3. MotorType'
    BY <1>4, MotorTypes, Constants DEF Brake, MotorType
  <2>4. CounterType'
    BY <1>4, MotorTypes DEF Brake, CounterType
  <2> QED
    BY <2>2, <2>3, <2>4
<1>5. CASE AdjustLeft
  <2>1. AgeOK(age)'
    BY <1>5, OldestType, Constants DEF AdjustLeft, ControlType, AgeOK, Timestamps
  <2>2. ControlType'
    BY <1>5, <2>1 DEF AdjustLeft, ControlType, Places, States
  <2>3. MotorType'
    <3>1. \/ duty' = duty
          \/ \E c \in PidDuties : duty' = [duty EXCEPT !["left"] = c]
      BY <1>5 DEF AdjustLeft
    <3>2. forward' = forward /\ PidDuties \subseteq 0..99
      BY <1>5, Constants DEF AdjustLeft
    <3> QED
      BY <3>1, <3>2 DEF MotorType
  <2>4. CounterType'
    BY <1>5, MotorTypes DEF AdjustLeft, CounterType
  <2> QED
    BY <2>2, <2>3, <2>4
<1>6. CASE StartTurn
  <2>1. AgeOK(age)'
    BY <1>6, OldestType, Constants DEF StartTurn, ControlType, AgeOK, Timestamps
  <2>2. ControlType'
    BY <1>6, <2>1 DEF StartTurn, ControlType, Places, States
  <2>3. MotorType'
    BY <1>6, MotorTypes, Constants DEF StartTurn, MotorType
  <2>4. CounterType'
    BY <1>6, MotorTypes DEF StartTurn, CounterType
  <2> QED
    BY <2>2, <2>3, <2>4
<1>7. CASE KeepTurning
  <2>1. AgeOK(age)'
    BY <1>7, OldestType, Constants DEF KeepTurning, ControlType, AgeOK, Timestamps
  <2>2. ControlType'
    BY <1>7, <2>1 DEF KeepTurning, ControlType, Places, States
  <2>3. MotorType'
    BY <1>7, MotorTypes, Constants DEF KeepTurning, MotorType
  <2>4. CounterType'
    BY <1>7, MotorTypes DEF KeepTurning, CounterType
  <2> QED
    BY <2>2, <2>3, <2>4
<1>8. CASE FinishTurn
  <2>1. AgeOK(age)'
    BY <1>8, OldestType, Constants DEF FinishTurn, ControlType, AgeOK, Timestamps
  <2>2. ControlType'
    BY <1>8, <2>1 DEF FinishTurn, ControlType, Places, States
  <2>3. MotorType'
    BY <1>8, MotorTypes, Constants DEF FinishTurn, MotorType
  <2>4. CounterType'
    BY <1>8, MotorTypes DEF FinishTurn, CounterType
  <2> QED
    BY <2>2, <2>3, <2>4
<1>9. CASE ResetStore
  <2>1. AgeOK(age)'
    BY <1>9, OldestType, Constants DEF ResetStore, ControlType, AgeOK, Timestamps
  <2>2. ControlType'
    BY <1>9, <2>1 DEF ResetStore, ControlType, Places, States
  <2>3. MotorType'
    BY <1>9, MotorTypes, Constants DEF ResetStore, MotorType
  <2>4. CounterType'
    <3>1. /\ \A w \in Wheels : /\ [pulse_count EXCEPT ![w] = 0] \in [Wheels -> Nat]
                            /\ [incremental_distance EXCEPT ![w] = 0] \in [Wheels -> Nat]
                            /\ [total_distance EXCEPT ![w] = 0] \in [Wheels -> Nat]
      BY DEF CounterType
    <3>2. (IF resets % 2 = 0 THEN "left" ELSE "right") \in Wheels
      BY DEF Wheels
    <3>3. resets' \in 0..6 /\ rolled' = rolled /\ inReset' = inReset
      BY <1>9 DEF ResetStore, CounterType
    <3> QED
      BY <1>9, <3>1, <3>2, <3>3, Zenon DEF ResetStore, CounterType
  <2> QED
    BY <2>2, <2>3, <2>4
<1>10. CASE DriveDistance
  <2>1. AgeOK(age)'
    BY <1>10, OldestType, Constants DEF DriveDistance, ControlType, AgeOK, Timestamps
  <2>2. ControlType'
    BY <1>10, <2>1 DEF DriveDistance, ControlType, Places, States
  <2>3. MotorType'
    BY <1>10, MotorTypes, Constants DEF DriveDistance, MotorType
  <2>4. CounterType'
    BY <1>10, MotorTypes DEF DriveDistance, CounterType
  <2> QED
    BY <2>2, <2>3, <2>4
<1>11. CASE KeepDriving
  <2>1. AgeOK(age)'
    BY <1>11, OldestType, Constants DEF KeepDriving, ControlType, AgeOK, Timestamps
  <2>2. ControlType'
    BY <1>11, <2>1 DEF KeepDriving, ControlType, Places, States
  <2>3. MotorType'
    BY <1>11, MotorTypes, Constants DEF KeepDriving, MotorType
  <2>4. CounterType'
    BY <1>11, MotorTypes DEF KeepDriving, CounterType
  <2> QED
    BY <2>2, <2>3, <2>4
<1>12. CASE Arrive
  <2>1. AgeOK(age)'
    BY <1>12, OldestType, Constants DEF Arrive, ControlType, AgeOK, Timestamps
  <2>2. ControlType'
    BY <1>12, <2>1 DEF Arrive, ControlType, Places, States
  <2>3. MotorType'
    BY <1>12, MotorTypes, Constants DEF Arrive, MotorType
  <2>4. CounterType'
    BY <1>12, MotorTypes DEF Arrive, CounterType
  <2> QED
    BY <2>2, <2>3, <2>4
<1>13. CASE StayStopped
  <2>1. AgeOK(age)'
    BY <1>13, LaterAge, TimesType, Constants DEF StayStopped, ControlType, AgeOK
  <2>2. ControlType'
    BY <1>13, <2>1 DEF StayStopped, ControlType, Places, States
  <2>3. MotorType'
    BY <1>13, MotorTypes, Constants DEF StayStopped, MotorType
  <2>4. CounterType'
    BY <1>13, MotorTypes DEF StayStopped, CounterType
  <2> QED
    BY <2>2, <2>3, <2>4
<1>14. ASSUME NEW d \in {0, 1}, Delay(d) PROVE ControlType' /\ MotorType' /\ CounterType'
  <2>1. AgeOK(age)'
    BY <1>14, LaterAge DEF Delay, ControlType, AgeOK
  <2> QED
    BY <1>14, <2>1 DEF Delay, ControlType, MotorType, CounterType, Places
<1>15. ASSUME NEW w \in Wheels, EncoderPulse(w) PROVE ControlType' /\ MotorType' /\ CounterType'
  <2>1. AgeOK(age)'
    BY <1>15 DEF EncoderPulse, ControlType, AgeOK
  <2> QED
    BY <1>15, <2>1 DEF EncoderPulse, ControlType, MotorType, CounterType
<1>16. CASE UNCHANGED vars
  BY <1>16 DEF vars, ControlType, MotorType, CounterType, AgeOK
<1> QED
  BY <1>1, <1>2, <1>3, <1>4, <1>5, <1>6, <1>7, <1>8, <1>9, <1>10, <1>11, <1>12, <1>13,
     <1>14, <1>15, <1>16 DEF Next, Loop

(* Car is type-correct. *)
THEOREM TypeCorrect == Spec => []TypeOK
<1>1. Init => TypeOK
  BY TypeInit
<1>2. TypeOK /\ [Next]_vars => TypeOK'
  BY TypeNext
<1> QED
  BY <1>1, <1>2, PTL DEF Spec

-----------------------------------------------------------------------------
(* Reading the wheel-indexed values. *)
LEMMA Readouts ==
  /\ Both(0)["right"] = 0 /\ Both(0)["left"] = 0
  /\ Both(55)["right"] = 55 /\ Both(55)["left"] = 55
  /\ Motors(94, 99)["right"] = 99
  /\ Both(0) # Both(55)
<1>1. /\ Both(0)["right"] = 0 /\ Both(0)["left"] = 0
      /\ Both(55)["right"] = 55 /\ Both(55)["left"] = 55
      /\ Motors(94, 99)["right"] = 99
  BY DEF Both, Motors, Wheels
<1> QED
  BY <1>1

LEMMA MotorInit == Init => MotorInv
  BY Readouts DEF Init, MotorInv

LEMMA MotorNext == TypeOK /\ MotorInv /\ [Next]_vars => MotorInv'
<1> SUFFICES ASSUME TypeOK, MotorInv, [Next]_vars PROVE MotorInv'
  OBVIOUS
<1> USE Readouts DEF MotorInv, control, sensing, motors, counters, history
<1>1. CASE SkipCheck
  BY <1>1 DEF SkipCheck
<1>2. CASE CheckDistance
  BY <1>2 DEF CheckDistance
<1>3. CASE Sample
  BY <1>3 DEF Sample
<1>4. CASE Brake
  BY <1>4 DEF Brake
<1>5. CASE AdjustLeft
  <2>1. duty'["right"] = duty["right"]
    BY <1>5 DEF AdjustLeft, TypeOK, Wheels
  <2> QED
    BY <1>5, <2>1 DEF AdjustLeft
<1>6. CASE StartTurn
  BY <1>6 DEF StartTurn
<1>7. CASE KeepTurning
  BY <1>7 DEF KeepTurning
<1>8. CASE FinishTurn
  BY <1>8 DEF FinishTurn
<1>9. CASE ResetStore
  BY <1>9 DEF ResetStore
<1>10. CASE DriveDistance
  BY <1>10 DEF DriveDistance
<1>11. CASE KeepDriving
  BY <1>11 DEF KeepDriving
<1>12. CASE Arrive
  BY <1>12 DEF Arrive
<1>13. CASE StayStopped
  BY <1>13 DEF StayStopped
<1>14. ASSUME NEW d \in {0, 1}, Delay(d) PROVE MotorInv'
  BY <1>14 DEF Delay
<1>15. ASSUME NEW w \in Wheels, EncoderPulse(w) PROVE MotorInv'
  BY <1>15 DEF EncoderPulse
<1>16. CASE UNCHANGED vars
  BY <1>16 DEF vars
<1> QED
  BY <1>1, <1>2, <1>3, <1>4, <1>5, <1>6, <1>7, <1>8, <1>9, <1>10, <1>11, <1>12, <1>13,
     <1>14, <1>15, <1>16 DEF Next, Loop

-----------------------------------------------------------------------------
(* The counters through a reset.  The loop's other actions touch neither   *)
(* them nor the reset.                                                     *)
LEMMA CounterInit == Init => ResetInv /\ DistanceInv
  BY DEF Init, ResetInv, DistanceInv, OnLeg, Stored, Both, Wheels

(* What a store of reset_distance_counters does to each wheel. *)
LEMMA ResetNext == TypeOK /\ MotorInv /\ ResetInv /\ [Next]_vars => ResetInv'
<1> SUFFICES ASSUME TypeOK, MotorInv, ResetInv, [Next]_vars PROVE ResetInv'
  OBVIOUS
<1> USE DEF control, sensing, motors, counters, history
<1>1. CASE SkipCheck
  BY <1>1 DEF SkipCheck, ResetInv, Stored
<1>2. CASE CheckDistance
  BY <1>2 DEF CheckDistance, ResetInv, Stored
<1>3. CASE Sample
  BY <1>3 DEF Sample, ResetInv, Stored
<1>4. CASE Brake
  BY <1>4 DEF Brake, ResetInv, Stored
<1>5. CASE AdjustLeft
  BY <1>5 DEF AdjustLeft, ResetInv, Stored
<1>6. CASE StartTurn
  BY <1>6 DEF StartTurn, ResetInv, Stored, MotorInv
<1>7. CASE KeepTurning
  BY <1>7 DEF KeepTurning, ResetInv, Stored
<1>11. CASE KeepDriving
  BY <1>11 DEF KeepDriving, ResetInv, Stored
<1>12. CASE Arrive
  BY <1>12 DEF Arrive, ResetInv, Stored
<1>13. CASE StayStopped
  BY <1>13 DEF StayStopped, ResetInv, Stored
<1>10. CASE DriveDistance
  BY <1>10 DEF DriveDistance, ResetInv, Stored
<1>8. CASE FinishTurn
  BY <1>8 DEF FinishTurn, ResetInv, Stored, TypeOK, Both, Wheels
<1>9. CASE ResetStore
  <2>1. resets \in 0..5 /\ resets' = resets + 1 /\ pc = "reset"
    BY <1>9 DEF ResetStore, TypeOK
  <2>2. ASSUME NEW w \in Wheels, NEW k \in 0..2
        PROVE  pc' = "reset" => (Stored(w, k)' <=> resets + 1 > (IF w = "left" THEN 2 * k ELSE 2 * k + 1))
    BY <2>1 DEF Stored
  <2>3. ASSUME NEW w \in Wheels PROVE
          /\ pulse_count'[w] = IF resets = (IF w = "left" THEN 0 ELSE 1) THEN 0 ELSE pulse_count[w]
          /\ incremental_distance'[w] = IF resets = (IF w = "left" THEN 2 ELSE 3)
                                           THEN 0 ELSE incremental_distance[w]
          /\ total_distance'[w] = IF resets = (IF w = "left" THEN 4 ELSE 5) THEN 0 ELSE total_distance[w]
    <3>1. CASE resets = 0
      BY <1>9, <3>1 DEF ResetStore, TypeOK, Wheels
    <3>2. CASE resets = 1
      BY <1>9, <3>2 DEF ResetStore, TypeOK, Wheels
    <3>3. CASE resets = 2
      BY <1>9, <3>3 DEF ResetStore, TypeOK, Wheels
    <3>4. CASE resets = 3
      BY <1>9, <3>4 DEF ResetStore, TypeOK, Wheels
    <3>5. CASE resets = 4
      BY <1>9, <3>5 DEF ResetStore, TypeOK, Wheels
    <3>6. CASE resets = 5
      BY <1>9, <3>6 DEF ResetStore, TypeOK, Wheels
    <3> QED
      BY <2>1, <3>1, <3>2, <3>3, <3>4, <3>5, <3>6
  <2>4. pc' = (IF resets = 5 THEN "drive" ELSE "reset") /\ inReset' = inReset
    BY <1>9 DEF ResetStore
  <2>5. pc' = "reset" => resets' < 6
    BY <2>1, <2>4
  <2>6. ASSUME NEW w \in Wheels PROVE
          /\ pc' = "reset" /\ Stored(w, 0)' => pulse_count'[w] =< inReset'[w]
          /\ ~Stored(w, 0)' \/ Stored(w, 1)' => incremental_distance'[w] =< pulse_count'[w]
          /\ ~Stored(w, 1)' \/ Stored(w, 2)' => total_distance'[w] =< incremental_distance'[w]
          /\ pc' # "reset" => pulse_count'[w] =< total_distance'[w] + inReset'[w]
    <3>1. /\ pulse_count[w] \in Nat /\ incremental_distance[w] \in Nat
          /\ total_distance[w] \in Nat /\ inReset[w] \in Nat
      BY DEF TypeOK
    <3>2. CASE w = "left"
      BY <2>1, <2>3, <2>4, <3>1, <3>2 DEF ResetInv, Stored
    <3>3. CASE w = "right"
      BY <2>1, <2>3, <2>4, <3>1, <3>3 DEF ResetInv, Stored
    <3> QED
      BY <3>2, <3>3 DEF Wheels
  <2> QED
    BY <2>5, <2>6 DEF ResetInv
<1>14. ASSUME NEW d \in {0, 1}, Delay(d) PROVE ResetInv'
  BY <1>14 DEF Delay, ResetInv, Stored
<1>15. ASSUME NEW v \in Wheels, EncoderPulse(v) PROVE ResetInv'
  <2>1. ASSUME NEW w \in Wheels PROVE
          LET n == IF w = v THEN 1 ELSE 0
          IN /\ pulse_count'[w] = pulse_count[w] + n
             /\ incremental_distance'[w] = incremental_distance[w] + n
             /\ total_distance'[w] = total_distance[w] + n
             /\ inReset'[w] = inReset[w] + (IF pc = "reset" THEN n ELSE 0)
             /\ pulse_count[w] \in Nat /\ incremental_distance[w] \in Nat
             /\ total_distance[w] \in Nat /\ inReset[w] \in Nat
    BY <1>15 DEF EncoderPulse, TypeOK
  <2>2. pc' = pc /\ resets' = resets
    BY <1>15 DEF EncoderPulse
  <2> QED
    BY <2>1, <2>2 DEF ResetInv, Stored
<1>16. CASE UNCHANGED vars
  BY <1>16 DEF vars, ResetInv, Stored
<1> QED
  BY <1>1, <1>2, <1>3, <1>4, <1>5, <1>6, <1>7, <1>8, <1>9, <1>10, <1>11, <1>12, <1>13,
     <1>14, <1>15, <1>16 DEF Next, Loop

LEMMA DistanceNext == Inv /\ [Next]_vars => DistanceInv'
<1> SUFFICES ASSUME Inv, [Next]_vars PROVE DistanceInv'
  OBVIOUS
<1>0. TypeOK /\ MotorInv /\ ResetInv /\ DistanceInv
  BY DEF Inv
<1> USE <1>0 DEF MotorInv, DistanceInv, OnLeg, control, sensing, motors, counters, history
<1>1. CASE SkipCheck
  BY <1>1 DEF SkipCheck
<1>2. CASE CheckDistance
  BY <1>2 DEF CheckDistance
<1>3. CASE Sample
  BY <1>3 DEF Sample
<1>4. CASE Brake
  BY <1>4 DEF Brake
<1>5. CASE AdjustLeft
  BY <1>5 DEF AdjustLeft
<1>6. CASE StartTurn
  BY <1>6 DEF StartTurn
<1>7. CASE KeepTurning
  BY <1>7 DEF KeepTurning
<1>8. CASE FinishTurn
  BY <1>8 DEF FinishTurn
<1>9. CASE ResetStore
  <2>1. resets \in 0..5 /\ resets' = resets + 1 /\ rolled' = rolled /\ current_state' = current_state
    BY <1>9 DEF ResetStore, TypeOK
  <2>2. resets = 3 => incremental_distance'["right"] = 0
    BY <1>9 DEF ResetStore, TypeOK, Wheels
  <2>3. resets > 3 => incremental_distance' = incremental_distance
    BY <1>9, <2>1 DEF ResetStore
  <2>4. pc = "reset" /\ pc' \in {"reset", "drive"} /\ (pc' = "drive" => resets = 5)
    BY <1>9 DEF ResetStore
  <2> QED
    BY <2>1, <2>2, <2>3, <2>4 DEF TypeOK
<1>10. CASE DriveDistance
  <2>1. /\ pc = "drive" /\ pc' = "delay" /\ current_state' = "distance"
        /\ rolled' = rolled /\ incremental_distance' = incremental_distance
    BY <1>10 DEF DriveDistance
  <2> QED
    BY <2>1
<1>11. CASE KeepDriving
  BY <1>11 DEF KeepDriving
<1>12. CASE Arrive
  <2>1. incremental_distance["right"] \in Nat /\ rolled \in Nat
    BY DEF TypeOK, Wheels
  <2>2. /\ current_state = "distance" /\ current_state' = "stopped" /\ pc' = "delay"
        /\ incremental_distance["right"] >= TARGET /\ rolled' = rolled
    BY <1>12 DEF Arrive
  <2> QED
    BY <2>1, <2>2, Constants
<1>13. CASE StayStopped
  BY <1>13 DEF StayStopped
<1>14. ASSUME NEW d \in {0, 1}, Delay(d) PROVE DistanceInv'
  BY <1>14 DEF Delay
<1>15. ASSUME NEW w \in Wheels, EncoderPulse(w) PROVE DistanceInv'
  <2>1. CASE w = "left"
    BY <1>15, <2>1 DEF EncoderPulse, TypeOK, Wheels
  <2>2. CASE w = "right"
    <3>1. incremental_distance'["right"] = incremental_distance["right"] + 1
      BY <1>15, <2>2 DEF EncoderPulse, TypeOK
    <3>2. /\ pc' = pc /\ resets' = resets /\ current_state' = current_state
          /\ rolled' = IF RolledCounts THEN rolled + 1 ELSE rolled
      BY <1>15, <2>2 DEF EncoderPulse
    <3>3. incremental_distance["right"] \in Nat /\ rolled \in Nat
      BY DEF TypeOK, Wheels
    <3> QED
      BY <3>1, <3>2, <3>3, Constants DEF RolledCounts
  <2> QED
    BY <2>1, <2>2 DEF Wheels
<1>16. CASE UNCHANGED vars
  BY <1>16 DEF vars
<1> QED
  BY <1>1, <1>2, <1>3, <1>4, <1>5, <1>6, <1>7, <1>8, <1>9, <1>10, <1>11, <1>12, <1>13,
     <1>14, <1>15, <1>16 DEF Next, Loop

LEMMA Invariance == Spec => []Inv
<1>1. Init => Inv
  BY TypeInit, MotorInit, CounterInit DEF Inv
<1>2. Inv /\ [Next]_vars => Inv'
  BY TypeNext, MotorNext, ResetNext, DistanceNext DEF Inv
<1> QED
  BY <1>1, <1>2, PTL DEF Spec

-----------------------------------------------------------------------------
(* Whenever pulses land amid the reset, the three counters of a wheel      *)
(* differ by no more than those pulses (main.c 29-36).                     *)
THEOREM CountersAgreement == Spec => []CountersAgree
<1>1. Inv => CountersAgree
  BY DEF Inv, ResetInv, Stored, CountersAgree
<1> QED
  BY <1>1, Invariance, PTL

(* The car stops only after its whole leg (main.c 102, 127).               *)
THEOREM StopsAtTarget == Spec => []NeverStopsShort
<1>1. Inv => NeverStopsShort
  BY DEF Inv, DistanceInv, NeverStopsShort
<1> QED
  BY <1>1, Invariance, PTL

(* No motor changes direction under power (buddy2.c 181-207).              *)
THEOREM DirectionSafety == Spec => DirectionChangesAtRest
<1> DEFINE AtRest == \A w \in Wheels : forward'[w] # forward[w] => duty[w] = 0
<1>1. Inv /\ [Next]_vars => [AtRest]_vars
  <2> SUFFICES ASSUME Inv, [Next]_vars, forward' # forward PROVE AtRest
    BY DEF vars, motors
  <2> USE DEF control, sensing, motors, counters, history
  <2>1. StartTurn \/ DriveDistance
    BY DEF Next, Loop, vars, SkipCheck, CheckDistance, Sample, Brake, AdjustLeft, KeepTurning,
           FinishTurn, ResetStore, KeepDriving, Arrive, StayStopped, Delay, EncoderPulse
  <2>2. duty = Both(0)
    BY <2>1 DEF Inv, MotorInv, StartTurn, DriveDistance
  <2> QED
    BY <2>2 DEF Both
<1> QED
  BY <1>1, Invariance, PTL DEF Spec, DirectionChangesAtRest

-----------------------------------------------------------------------------
(* How old the flag and the buzzer can be at each place of the loop.       *)
LongestSleep == Most(BRAKE_SLEEP, STOPPED_SLEEP)

BuzzInv ==
  buzzer_on => /\ age["buzz"] =< BuzzLimit
               /\ pc # "measure" => age["buzz"] < BuzzLimit
               /\ pc = "sample" => age["buzz"] < BUZZ + GETCM
               /\ pc \in {"switch", "reset", "drive"} => age["buzz"] < BUZZ + 2 * GETCM

FreshInv ==
  /\ pc = "sample" => age["check"] =< CHECK_INTERVAL
  /\ pc = "switch" => age["check"] =< CHECK_INTERVAL + GETCM

LEMMA Sleeps ==
  /\ LongestSleep \in Nat /\ BRAKE_SLEEP =< LongestSleep /\ STOPPED_SLEEP =< LongestSleep
  /\ BuzzLimit = BUZZ + LongestSleep + 2 * GETCM
BY Constants DEF LongestSleep, BuzzLimit, Most

LEMMA CapBelow == ASSUME NEW d \in Nat, NEW t \in Timestamps
                  PROVE  Least(d, Oldest[t]) =< d
  BY OldestType DEF Least

LEMMA LaterBelow ==
  ASSUME AgeOK(age), NEW d \in Nat, NEW t \in Timestamps
  PROVE  Later(d)[t] \in Nat /\ Later(d)[t] =< age[t] + d
<1>1. age[t] \in Nat
  BY DEF AgeOK
<1> QED
  BY <1>1, OldestType DEF Later, Least

LEMMA TimingNext == TypeOK /\ BuzzInv /\ FreshInv /\ [Next]_vars => BuzzInv' /\ FreshInv'
<1> SUFFICES ASSUME TypeOK, BuzzInv, FreshInv, [Next]_vars PROVE BuzzInv' /\ FreshInv'
  OBVIOUS
<1>1. AgeOK(age) /\ age["buzz"] \in Nat /\ age["check"] \in Nat
  BY DEF TypeOK, AgeOK, Timestamps
<1>2. "buzz" \in Timestamps /\ "check" \in Timestamps
  BY DEF Timestamps
<1>3. GETCM \in Nat /\ BUZZ \in Nat /\ BUZZ > 0 /\ CHECK_INTERVAL \in Nat /\ GETCM =< CHECK_INTERVAL
  BY TimesAssumption
<1>4. GetCmTimes \subseteq 0..GETCM
  BY <1>3 DEF GetCmTimes
<1> USE DEF control, sensing, motors, counters, history
<1>5. CASE UNCHANGED age /\ UNCHANGED buzzer_on /\ pc' \in {"reset", "drive", "delay"}
           /\ pc \in {"switch", "start_turn", "reset", "drive"}
           /\ (pc = "start_turn" => pc' = "delay")
  <2>1. BuzzInv'
    <3> SUFFICES ASSUME buzzer_on, age' = age
                 PROVE  /\ age["buzz"] < BuzzLimit
                        /\ pc' \in {"reset", "drive"} => age["buzz"] < BUZZ + 2 * GETCM
      BY <1>1, <1>5, Sleeps, Constants DEF BuzzInv
    <3>1. BUZZ + 2 * GETCM =< BuzzLimit /\ BuzzLimit \in Nat
      BY <1>3, Sleeps
    <3>2. age["buzz"] < BuzzLimit
      BY <1>1, <1>3, <1>5, <3>1 DEF BuzzInv
    <3>3. pc # "start_turn" => age["buzz"] < BUZZ + 2 * GETCM
      BY <1>5 DEF BuzzInv
    <3> QED
      BY <1>5, <3>2, <3>3
  <2> QED
    BY <1>5, <2>1 DEF FreshInv
<1>6. CASE SkipCheck
  <2>1. age' = age /\ pc' = "sample" /\ (buzzer_on' => age["buzz"] < BUZZ)
    BY <1>6 DEF SkipCheck
  <2>2. age["check"] =< CHECK_INTERVAL
    BY <1>1, <1>3, <1>6 DEF SkipCheck, CheckDue
  <2>3. BUZZ + GETCM =< BuzzLimit /\ BUZZ =< BUZZ + GETCM /\ BuzzLimit \in Nat
    BY <1>3, Sleeps
  <2>4. BuzzInv'
    BY <1>1, <1>3, <2>1, <2>3 DEF BuzzInv
  <2> QED
    BY <2>1, <2>2, <2>4 DEF FreshInv
<1>7. CASE CheckDistance
  <2>1. PICK d \in GetCmTimes, distanceCm \in Readings :
          LET close  == distanceCm # 0 /\ distanceCm < THRESHOLD
              starts == close /\ ~buzzer_on
              onFor  == IF starts THEN 0 ELSE age["buzz"]
          IN  /\ buzzer_on' = ((buzzer_on \/ close) /\ onFor < BUZZ)
              /\ age' = [t \in Timestamps |->
                           IF t = "check" \/ (t = "buzz" /\ starts)
                             THEN Least(d, Oldest[t]) ELSE Later(d)[t]]
    BY <1>7 DEF CheckDistance
  <2>2. pc' = "sample"
    BY <1>7 DEF CheckDistance
  <2>3. d \in Nat /\ d =< GETCM
    BY <1>3, <1>4
  <2>4. age'["check"] = Least(d, Oldest["check"]) /\ Least(d, Oldest["check"]) =< d
        /\ Least(d, Oldest["check"]) \in Nat
    BY <1>2, <2>1, <2>3, CapBelow, CapAge
  <2>5. Least(d, Oldest["buzz"]) \in Nat /\ Least(d, Oldest["buzz"]) =< d
    BY <1>2, <2>3, CapBelow, CapAge
  <2>6. Later(d)["buzz"] \in Nat /\ Later(d)["buzz"] =< age["buzz"] + d
    BY <1>1, <1>2, <2>3, LaterBelow
  <2>7. buzzer_on' => age'["buzz"] \in Nat /\ age'["buzz"] < BUZZ + GETCM
    <3>1. CASE ~buzzer_on
      <4>1. buzzer_on' => age'["buzz"] = Least(d, Oldest["buzz"])
        <5>1. CASE distanceCm # 0 /\ distanceCm < THRESHOLD
          BY <1>2, <2>1, <3>1, <5>1
        <5>2. CASE ~(distanceCm # 0 /\ distanceCm < THRESHOLD)
          BY <2>1, <3>1, <5>2
        <5> QED
          BY <5>1, <5>2
      <4> QED
        BY <1>3, <2>3, <2>5, <4>1
    <3>2. CASE buzzer_on
      <4>1. buzzer_on' => age["buzz"] < BUZZ /\ age'["buzz"] = Later(d)["buzz"]
        BY <1>2, <2>1, <3>2
      <4> QED
        BY <1>1, <1>3, <2>3, <2>6, <4>1
    <3> QED
      BY <3>1, <3>2
  <2>8. FreshInv'
    BY <1>3, <2>2, <2>3, <2>4 DEF FreshInv
  <2>9. BuzzInv'
    BY <1>3, <2>2, <2>7, Sleeps DEF BuzzInv
  <2> QED
    BY <2>8, <2>9
<1>8. CASE Sample
  <2>1. PICK d \in GetCmTimes : age' = Later(d)
    BY <1>8 DEF Sample
  <2>2. d \in Nat /\ d =< GETCM
    BY <1>3, <1>4
  <2>3. /\ age'["buzz"] \in Nat /\ age'["buzz"] =< age["buzz"] + d
        /\ age'["check"] \in Nat /\ age'["check"] =< age["check"] + d
    BY <1>1, <1>2, <2>1, <2>2, LaterBelow
  <2> QED
    BY <1>1, <1>3, <1>8, <2>2, <2>3, Sleeps DEF Sample, BuzzInv, FreshInv
<1>9. ASSUME NEW d \in Nat, d =< LongestSleep, pc = "switch", pc' \in {"start_turn", "delay"},
             age' = Later(d), UNCHANGED buzzer_on
      PROVE  BuzzInv' /\ FreshInv'
  <2>1. age'["buzz"] \in Nat /\ age'["buzz"] =< age["buzz"] + d
    BY <1>1, <1>2, <1>9, LaterBelow
  <2> QED
    BY <1>1, <1>3, <1>9, <2>1, Sleeps DEF BuzzInv, FreshInv
<1>10. CASE Brake \/ StayStopped
  BY <1>9, <1>10, Constants, Sleeps DEF Brake, StayStopped
<1>11. ASSUME NEW d \in {0, 1}, Delay(d) PROVE BuzzInv' /\ FreshInv'
  <2>1. age'["buzz"] \in Nat /\ age'["buzz"] =< age["buzz"] + d
    BY <1>1, <1>2, <1>11, LaterBelow DEF Delay
  <2> QED
    BY <1>1, <1>3, <1>11, <2>1, Sleeps DEF Delay, BuzzInv, FreshInv
<1>12. CASE StartTurn
  <2>1. age'["buzz"] = age["buzz"]
    BY <1>1, <1>12 DEF StartTurn, AgeOK
  <2> QED
    BY <1>1, <1>3, <1>12, <2>1, Sleeps DEF StartTurn, BuzzInv, FreshInv
<1>13. CASE AdjustLeft \/ KeepTurning \/ FinishTurn \/ KeepDriving \/ Arrive
  BY <1>5, <1>13 DEF AdjustLeft, KeepTurning, FinishTurn, KeepDriving, Arrive
<1>14. CASE ResetStore \/ DriveDistance
  BY <1>5, <1>14 DEF ResetStore, DriveDistance
<1>15. CASE (\E w \in Wheels : EncoderPulse(w)) \/ UNCHANGED vars
  BY <1>15 DEF EncoderPulse, vars, BuzzInv, FreshInv
<1> QED
  BY <1>6, <1>7, <1>8, <1>10, <1>11, <1>12, <1>13, <1>14, <1>15 DEF Next, Loop

LEMMA TimingInvariance == Spec => [](BuzzInv /\ FreshInv)
<1>1. Init => BuzzInv /\ FreshInv
  BY DEF Init, BuzzInv, FreshInv
<1>2. TypeOK /\ BuzzInv /\ FreshInv /\ [Next]_vars => BuzzInv' /\ FreshInv'
  BY TimingNext
<1> QED
  BY <1>1, <1>2, TypeCorrect, PTL DEF Spec

(* The buzzer is off after its 200 ms and what one pass can add, two       *)
(* measurements and the longest sleep (buddy5.c 174).                      *)
THEOREM BuzzerEnds == Spec => []BuzzerBounded
<1>1. BuzzInv => BuzzerBounded
  BY DEF BuzzInv, BuzzerBounded
<1> QED
  BY <1>1, TimingInvariance, PTL

(* The flag the PID acts on is no older than the check interval and one    *)
(* measurement (buddy2.c 65).                                              *)
THEOREM FlagFreshness == Spec => []FlagIsFresh
<1>1. FreshInv => FlagIsFresh
  BY DEF FreshInv, FlagIsFresh
<1> QED
  BY <1>1, TimingInvariance, PTL

-----------------------------------------------------------------------------
(* The loop implements the mission: each of its steps is a step of         *)
(* CarMission or leaves phase, motion and leg alone.                       *)
MotionAt == IF pc \in {"start_turn", "reset", "drive"} \/ current_state = "stopped" THEN "rest"
            ELSE IF current_state = "turning" THEN "spin" ELSE "ahead"

MotionKnown == Motion = MotionAt

LEMMA MotionValues == Inv => MotionKnown
<1> SUFFICES ASSUME MotorInv, current_state \in States PROVE Motion = MotionAt
  BY DEF Inv, TypeOK, MotionKnown
<1>1. Both(TRUE) # Motors(TRUE, FALSE)
  <2>1. Both(TRUE)["right"] = TRUE /\ Motors(TRUE, FALSE)["right"] = FALSE
    BY DEF Both, Motors, Wheels
  <2> QED
    BY <2>1
<1>2. CASE pc \in {"start_turn", "reset", "drive"} \/ current_state = "stopped"
  <2>1. duty = Both(0)
    BY <1>2 DEF MotorInv
  <2>2. ~(duty["right"] > 0) /\ ~(duty["left"] > 0)
    BY <2>1, Readouts
  <2>3. Motion = "rest"
    BY <2>1, <2>2, Zenon DEF Motion
  <2> QED
    BY <1>2, <2>3 DEF MotionAt
<1>3. CASE pc \notin {"start_turn", "reset", "drive"} /\ current_state = "turning"
  <2>1. duty = Both(55) /\ forward = Motors(TRUE, FALSE)
    BY <1>3 DEF MotorInv
  <2>2. duty["left"] > 0 /\ duty["right"] > 0
    BY <2>1, Readouts
  <2>4. duty # Both(0) /\ forward # Both(TRUE)
    BY <1>1, <2>1, Readouts, Zenon
  <2>3. Motion = "spin"
    BY <2>1, <2>2, <2>4, Zenon DEF Motion
  <2> QED
    BY <1>3, <2>3 DEF MotionAt
<1>4. CASE pc \notin {"start_turn", "reset", "drive"} /\ current_state \in {"forward", "distance"}
  <2>1. duty["right"] = 99 /\ forward = Both(TRUE)
    BY <1>4 DEF MotorInv
  <2>2. duty["right"] > 0 /\ duty["right"] # 0
    BY <2>1
  <2>4. duty # Both(0) /\ forward # Motors(TRUE, FALSE)
    BY <1>1, <2>1, <2>2, Readouts, Zenon
  <2>3. Motion = "ahead"
    BY <2>1, <2>2, <2>4, Zenon DEF Motion
  <2> QED
    BY <1>4, <2>3 DEF MotionAt
<1> QED
  BY <1>2, <1>3, <1>4 DEF States

LEMMA MotionValuesNext == Inv' => MotionKnown'
  BY MotionValues, PTL

LEMMA MissionStep == Inv /\ Inv' /\ [Next]_vars => [Mission!MissionNext]_(Mission!mvars)
<1> SUFFICES ASSUME Inv, Inv', [Next]_vars PROVE [Mission!MissionNext]_(Mission!mvars)
  OBVIOUS
<1>0. /\ Motion = MotionAt /\ Motion' = MotionAt'
      /\ current_state \in States /\ rolled \in Nat
      /\ pc = "start_turn" => current_state = "forward"
      /\ pc \in {"reset", "drive"} => current_state = "turning"
  BY MotionValues, MotionValuesNext DEF MotionKnown, Inv, TypeOK, MotorInv
<1> USE <1>0 DEF MotionAt, States, Mission!MissionNext, Mission!mvars,
        control, sensing, motors, counters, history
<1>1. CASE SkipCheck \/ CheckDistance \/ Sample
  BY <1>1 DEF SkipCheck, CheckDistance, Sample
<1>2. CASE Brake
  BY <1>2 DEF Brake, Mission!Brake
<1>3. CASE AdjustLeft
  BY <1>3 DEF AdjustLeft
<1>4. CASE StartTurn
  BY <1>4 DEF StartTurn, Mission!Spin
<1>5. CASE KeepTurning \/ KeepDriving
  BY <1>5 DEF KeepTurning, KeepDriving
<1>6. CASE FinishTurn
  BY <1>6 DEF FinishTurn, Mission!EndSpin
<1>7. CASE ResetStore
  BY <1>7 DEF ResetStore
<1>8. CASE DriveDistance
  BY <1>8 DEF DriveDistance, Mission!Roll
<1>9. CASE Arrive
  <2>1. rolled >= TARGET
    BY <1>9, Constants DEF Arrive, Inv, DistanceInv, OnLeg, TypeOK, Wheels
  <2> QED
    BY <1>9, <2>1 DEF Arrive, Mission!Halt
<1>10. CASE StayStopped
  BY <1>10 DEF StayStopped
<1>11. ASSUME NEW d \in {0, 1}, Delay(d) PROVE UNCHANGED Mission!mvars
  BY <1>11 DEF Delay
<1>12. ASSUME NEW w \in Wheels, EncoderPulse(w) PROVE [Mission!MissionNext]_(Mission!mvars)
  BY <1>12 DEF EncoderPulse, RolledCounts, Mission!Pulse
<1>13. CASE UNCHANGED vars
  BY <1>13 DEF vars
<1> QED
  BY <1>1, <1>2, <1>3, <1>4, <1>5, <1>6, <1>7, <1>8, <1>9, <1>10, <1>11, <1>12, <1>13
     DEF Next, Loop

(* Car implements CarMission: brake, spin, end the spin, roll, halt, in    *)
(* that order, and halt only after TARGET pulses (main.c 60-146).          *)
THEOREM Refinement == Spec => Mission!MissionSafety
<1>1. Init => Mission!MissionInit
  <2> SUFFICES ASSUME Init PROVE Mission!MissionInit
    OBVIOUS
  <2>1. Motion = MotionAt
    BY TypeInit, MotorInit, CounterInit, MotionValues DEF Inv, MotionKnown
  <2> QED
    BY <2>1 DEF Init, MotionAt, Mission!MissionInit
<1> QED
  BY <1>1, MissionStep, Invariance, PTL DEF Spec, Mission!MissionSafety
=============================================================================
