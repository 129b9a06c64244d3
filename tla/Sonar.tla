------------------------------- MODULE Sonar -------------------------------
(***************************************************************************)
(* One distance measurement: getCm() of src/buddy5/buddy5.c, the echo half *)
(* of gpio_interrupt_handler, and the HC-SR04 sensor as the code uses it.  *)
(*                                                                         *)
(* getCm() gives up 15 ms after its trigger, an echo counts if it is       *)
(* shorter than 25 ms, and the sensor holds its echo line up to 38 ms and  *)
(* does not hear a trigger meanwhile.  So the falling edge that ends one   *)
(* call's echo can land in a later call, between any two of its            *)
(* statements; nothing in the code says which call an echo belongs to.     *)
(* `calls' is the history that does.                                       *)
(*                                                                         *)
(* Time is an integer clock of any unit, kept as the time elapsed since    *)
(* each timestamp.  Statements and interrupts take no time; waiting does.  *)
(***************************************************************************)
EXTENDS Naturals

CONSTANTS
  Wait,         \* make_timeout_time_ms(15)
  MeasTimeout,  \* MEASUREMENT_TIMEOUT_US
  RiseDelay,    \* from the trigger to the echo line's rise, at most
  MaxEcho,      \* the echo line's longest time high (nothing in range)
  MaxGap        \* BOUND: time between two calls that is told apart

ASSUME SonarAssumption ==
  /\ Wait \in Nat \ {0} /\ MeasTimeout \in Nat \ {0}
  /\ RiseDelay \in Nat /\ MaxEcho \in Nat \ {0} /\ MaxGap \in Nat
  /\ RiseDelay + MeasTimeout =< MaxGap
  /\ MeasTimeout + RiseDelay =< 2 * Wait

VARIABLES
  pc,                 \* next statement of getCm, "idle" outside it
  measurement_valid, pulse_width,
  sinceStart,         \* time since start_time
  sinceTrig,          \* time since the trigger of the running call
  sensor, sinceBurst, highFor,   \* the sensor: phase, time since the trigger it heard, time high
  edges,              \* edges of ECHO_PIN latched for the interrupt
  calls,              \* history: triggers since the one that a burst, an edge, a width answers
  last,               \* history: how the previous call ended
  gap                 \* history: time between the previous call and this one

program == <<pc, sinceTrig, last, gap>>
measure == <<measurement_valid, pulse_width, sinceStart>>
device  == <<sensor, sinceBurst, highFor, edges>>
vars    == <<program, measure, device, calls>>

Places   == {"idle", "clear_valid", "clear_width", "trigger", "wait", "read"}
Phases   == {"ready", "burst", "high"}
Outcomes == {"none", "own", "other", "timeout"}
Answers  == {"burst", "edge", "width"}
AgeCap   == 4     \* BOUND: calls are told apart up to this age

Least(a, b) == IF a =< b THEN a ELSE b

TypeOK ==
  /\ pc \in Places
  /\ measurement_valid \in BOOLEAN
  /\ pulse_width \in 0..(MaxEcho + 1)
  /\ sinceStart \in 0..MaxEcho
  /\ sinceTrig \in 0..Wait
  /\ sensor \in Phases
  /\ sinceBurst \in Nat /\ highFor \in 0..MaxEcho
  /\ edges \subseteq {"rise", "fall"}
  /\ calls \in [Answers -> 0..AgeCap]
  /\ last \in Outcomes
  /\ gap \in 0..MaxGap

Init ==
  /\ pc = "idle"
  /\ measurement_valid = FALSE /\ pulse_width = 0
  /\ sinceStart = MaxEcho /\ sinceTrig = 0
  /\ sensor = "ready" /\ sinceBurst = 0 /\ highFor = 0
  /\ edges = {}
  /\ calls = [a \in Answers |-> 0]
  /\ last = "none" /\ gap = 0

-----------------------------------------------------------------------------
(* getCm(), statement by statement.                                        *)
Call ==
  /\ pc = "idle" /\ pc' = "clear_valid"
  /\ UNCHANGED <<sinceTrig, last, gap, measure, device, calls>>

(* mutant: the flag of the previous measurement is left as it is *)
ClearValid_Kept ==
  /\ pc = "clear_valid" /\ pc' = "clear_width"
  /\ UNCHANGED <<sinceTrig, last, gap, measure, device, calls>>

ClearValid ==
  /\ pc = "clear_valid" /\ pc' = "clear_width"
  /\ measurement_valid' = FALSE
  /\ UNCHANGED <<sinceTrig, last, gap, pulse_width, sinceStart, device, calls>>

ClearWidth ==
  /\ pc = "clear_width" /\ pc' = "trigger"
  /\ pulse_width' = 0
  /\ UNCHANGED <<sinceTrig, last, gap, measurement_valid, sinceStart, device, calls>>

(* The pulse on TRIG_PIN and the start of the 15 ms.  A sensor that is     *)
(* ready sends a burst, or misses the trigger; a busy one misses it.       *)
Trigger ==
  /\ pc = "trigger" /\ pc' = "wait"
  /\ sinceTrig' = 0
  /\ LET aged == [a \in Answers |-> Least(calls[a] + 1, AgeCap)]
     IN \/ /\ sensor = "ready"
           /\ sensor' = "burst" /\ sinceBurst' = 0
           /\ calls' = [aged EXCEPT !["burst"] = 0]
        \/ /\ UNCHANGED <<sensor, sinceBurst>>
           /\ calls' = aged
  /\ UNCHANGED <<last, gap, measure, highFor, edges>>

SeeValid ==
  /\ pc = "wait" /\ measurement_valid
  /\ pc' = "read"
  /\ UNCHANGED <<sinceTrig, last, gap, measure, device, calls>>

(* The measurement goes to kalman_update, which drops a width of 0.        *)
Read ==
  /\ pc = "read" /\ pc' = "idle"
  /\ last' = IF pulse_width > 0 /\ calls["width"] = 0 THEN "own" ELSE "other"
  /\ gap' = 0
  /\ UNCHANGED <<sinceTrig, measure, device, calls>>

(* mutant: the wait has no timeout *)
GiveUp_Never ==
  pc = "wait" /\ ~measurement_valid /\ sinceTrig >= Wait /\ UNCHANGED vars

(* "Return last estimate if measurement fails" *)
GiveUp ==
  /\ pc = "wait" /\ ~measurement_valid
  /\ sinceTrig >= Wait
  /\ pc' = "idle" /\ last' = "timeout" /\ gap' = 0
  /\ UNCHANGED <<sinceTrig, measure, device, calls>>

GetCm == ClearValid \/ ClearWidth \/ Trigger \/ SeeValid \/ Read \/ GiveUp

-----------------------------------------------------------------------------
(* gpio_interrupt_handler for ECHO_PIN, with the edges latched since it    *)
(* last ran.  When both are, the falling one is lost (else if).            *)
HandleRise ==
  /\ "rise" \in edges
  /\ sinceStart' = 0 /\ measurement_valid' = FALSE
  /\ edges' = {}
  /\ UNCHANGED <<program, pulse_width, sensor, sinceBurst, highFor, calls>>

(* mutant: an echo of any length is valid *)
HandleFall_AnyLength ==
  /\ edges = {"fall"}
  /\ pulse_width' = sinceStart + 1
  /\ measurement_valid' = TRUE
  /\ calls' = [calls EXCEPT !["width"] = calls["edge"]]
  /\ edges' = {}
  /\ UNCHANGED <<program, sinceStart, sensor, sinceBurst, highFor>>

(* A real echo lasts longer than no time at all: sinceStart + 1 counts the *)
(* time units begun, so that 0 is only what getCm() itself stores.         *)
HandleFall ==
  /\ edges = {"fall"}
  /\ pulse_width' = sinceStart + 1
  /\ measurement_valid' = (sinceStart < MeasTimeout)
  /\ calls' = [calls EXCEPT !["width"] = calls["edge"]]
  /\ edges' = {}
  /\ UNCHANGED <<program, sinceStart, sensor, sinceBurst, highFor>>

Interrupt == HandleRise \/ HandleFall

-----------------------------------------------------------------------------
(* The sensor and the clock.                                               *)
Rise ==
  /\ sensor = "burst" /\ sensor' = "high"
  /\ highFor' = 0
  /\ edges' = edges \cup {"rise"}
  /\ UNCHANGED <<program, measure, sinceBurst, calls>>

Fall ==
  /\ sensor = "high" /\ sensor' = "ready"
  /\ edges' = edges \cup {"fall"}
  /\ calls' = [calls EXCEPT !["edge"] = calls["burst"]]
  /\ UNCHANGED <<program, measure, sinceBurst, highFor>>

Sensor == Rise \/ Fall

(* Time passes while getCm() polls or outside it; a latched edge is served *)
(* before, and the sensor keeps its own deadlines.                         *)
Tick ==
  /\ edges = {}
  /\ \/ pc = "idle"
     \/ pc = "wait" /\ ~measurement_valid /\ sinceTrig < Wait
  /\ sensor = "burst" => sinceBurst < RiseDelay
  /\ sensor = "high" => highFor < MaxEcho
  /\ sinceStart' = Least(sinceStart + 1, MaxEcho)
  /\ sinceTrig' = Least(sinceTrig + 1, Wait)
  /\ sinceBurst' = IF sensor = "ready" THEN sinceBurst ELSE sinceBurst + 1
  /\ highFor' = IF sensor = "high" THEN highFor + 1 ELSE highFor
  /\ gap' = IF pc = "idle" THEN Least(gap + 1, MaxGap) ELSE gap
  /\ UNCHANGED <<pc, last, measurement_valid, pulse_width, sensor, edges, calls>>

Next == Call \/ GetCm \/ Interrupt \/ Sensor \/ Tick

Fairness == WF_vars(GetCm) /\ WF_vars(Interrupt) /\ WF_vars(Sensor) /\ WF_vars(Tick)

Spec == Init /\ [][Next]_vars /\ Fairness

-----------------------------------------------------------------------------
(* An echo that a call takes for its own answers that call, the one before *)
(* or the one before that, never an older one: the 25 ms limit on the echo *)
(* against the 15 ms of the wait (buddy5.c 113, 134).                      *)
EchoIsRecent == pc = "read" /\ pulse_width > 0 => calls["width"] =< 2

(* A call that reads anything reads its own echo when the call before it   *)
(* did, or when it comes after a pause as long as the longest echo that    *)
(* counts (26 ms: the sleeps of main.c 82 and 140 are longer, its          *)
(* sleep_ms(1) is not): a stale echo needs a call just before it that gave *)
(* up or was misled itself (buddy5.c 125-126).                             *)
ReadsOwnEcho ==
  pc = "read" /\ (last \in {"own", "none"} \/ gap >= RiseDelay + MeasTimeout) =>
    pulse_width > 0 /\ calls["width"] = 0

(* getCm() always returns, whatever the sensor does (buddy5.c 134-138).    *)
CallReturns == pc = "clear_valid" ~> pc = "idle"
=============================================================================
