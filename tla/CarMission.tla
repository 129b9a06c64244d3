----------------------------- MODULE CarMission -----------------------------
(***************************************************************************)
(* What the car promises (src/main.c): drive ahead until an obstacle is    *)
(* met, come to rest, spin right, come to rest, drive a leg of at least    *)
(* TARGET wheel pulses, come to rest and stay at rest.  Nothing here knows *)
(* of sensors, timers or PWM: `phase' is where the mission is, `motion' is *)
(* what the two motors do together, `leg' is how many pulses the right     *)
(* wheel has given since the spin ended.  Module Car implements it.        *)
(***************************************************************************)
EXTENDS Naturals

CONSTANT TARGET   \* pulses in target_distance_cm

VARIABLES phase, motion, leg

mvars == <<phase, motion, leg>>

Phases  == {"forward", "turning", "distance", "stopped"}
Motions == {"ahead", "spin", "rest"}

MissionTypeOK == /\ phase \in Phases
                 /\ motion \in Motions
                 /\ leg \in Nat

MissionInit == phase = "forward" /\ motion = "ahead" /\ leg = 0

(* The obstacle is at the threshold: both motors off. *)
Brake == /\ phase = "forward" /\ motion = "ahead"
         /\ motion' = "rest"
         /\ UNCHANGED <<phase, leg>>

Spin == /\ phase = "forward" /\ motion = "rest"
        /\ phase' = "turning"
        /\ motion' = "spin"
        /\ UNCHANGED leg

EndSpin == /\ phase = "turning" /\ motion = "spin"
           /\ motion' = "rest"
           /\ leg' = 0
           /\ UNCHANGED phase

Roll == /\ phase = "turning" /\ motion = "rest"
        /\ phase' = "distance"
        /\ motion' = "ahead"
        /\ UNCHANGED leg

(* A pulse of the right wheel after the spin; a braked wheel may coast. *)
Pulse == /\ phase # "forward" /\ motion # "spin"
         /\ leg' = leg + 1
         /\ UNCHANGED <<phase, motion>>

Halt == /\ phase = "distance" /\ leg >= TARGET
        /\ phase' = "stopped"
        /\ motion' = "rest"
        /\ UNCHANGED leg

MissionNext == Brake \/ Spin \/ EndSpin \/ Roll \/ Pulse \/ Halt

(* Once the car has braked for an obstacle the rest of the mission runs    *)
(* without help, as long as the driven wheel really rolls.                 *)
MissionFairness == /\ WF_mvars(Spin) /\ WF_mvars(EndSpin) /\ WF_mvars(Roll)
                   /\ WF_mvars(phase = "distance" /\ leg < TARGET /\ Pulse)

MissionSafety == MissionInit /\ [][MissionNext]_mvars
MissionSpec   == MissionSafety /\ MissionFairness
=============================================================================
