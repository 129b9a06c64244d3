--------------------------- MODULE Ranging_proofs ---------------------------
(***************************************************************************)
(* Sonar and Ranging for every value of their limits: which call an echo   *)
(* can be taken for, and what the filter makes of it.                      *)
(*                                                                         *)
(* The argument about echoes is about time.  Whatever answers an earlier   *)
(* call has been under way since; each call in between, but for the one    *)
(* that sent the burst, waited its whole timeout; two whole timeouts are   *)
(* longer than an echo that counts.                                        *)
(*                                                                         *)
(* The argument about the filter is about distance.  A measurement on the  *)
(* other side of the threshold leaves a third of the estimate's excess     *)
(* over the threshold at most; n of them in a row leave the 3^n-th part,   *)
(* which is less than one unit when n is Settle.                           *)
(***************************************************************************)
EXTENDS Ranging, TLAPS

(* The least time since the trigger that something of age a answers.       *)
Waited == IF pc = "wait" THEN sinceTrig ELSE Wait
AtLeast(a) == CASE a = 0 -> 0
                [] a = 1 -> Waited
                [] a = 2 -> Wait + Waited
                [] OTHER -> 2 * Wait

FallOnly == "fall" \in edges /\ "rise" \notin edges

(* The sensor keeps its deadlines; the interrupt saw its last rise.        *)
SensorInv ==
  /\ sensor = "burst" => sinceBurst =< RiseDelay
  /\ sensor = "high" => sinceBurst =< RiseDelay + highFor
  /\ sensor = "high" /\ "rise" \notin edges => sinceStart = highFor /\ ~measurement_valid
  /\ sensor = "high" /\ "rise" \in edges => highFor = 0
  /\ FallOnly => sinceStart = highFor /\ ~measurement_valid /\ sensor # "high"
  /\ edges # {} /\ sensor # "high" => "fall" \in edges

(* A burst and a latched fall are as old as the calls since took.          *)
BurstInv ==
  sensor # "ready" =>
    /\ sinceBurst >= AtLeast(calls["burst"])
    /\ pc \in {"wait", "read"} /\ calls["burst"] > 0 => ~measurement_valid /\ pc = "wait"
    /\ "fall" \in edges => pc = "wait" /\ sinceTrig = 0 /\ calls["burst"] = 0 /\ ~measurement_valid
    /\ pc \in {"clear_width", "trigger"} => ~measurement_valid

EdgeInv ==
  FallOnly =>
    /\ highFor + RiseDelay >= AtLeast(calls["edge"])
    /\ pc = "read" => calls["edge"] = 0

WidthInv ==
  /\ measurement_valid /\ pc \in {"clear_width", "trigger"} => calls["width"] =< 1 /\ edges = {}
  /\ measurement_valid /\ pc = "wait" => calls["width"] =< 2
  /\ pc = "read" => calls["width"] =< 2

Inv == TypeOK /\ SensorInv /\ BurstInv /\ EdgeInv /\ WidthInv

-----------------------------------------------------------------------------
(* The limits as naturals. *)
LEMMA Limits ==
  /\ Wait \in Nat /\ MeasTimeout \in Nat /\ RiseDelay \in Nat
  /\ MaxEcho \in Nat /\ MaxGap \in Nat
  /\ Wait > 0 /\ MaxEcho > 0 /\ MeasTimeout + RiseDelay =< 2 * Wait
  BY SonarAssumption

(* Every variable starts and stays in its type. *)
LEMMA TypeInit == Init => TypeOK
<1> SUFFICES ASSUME Init PROVE TypeOK
  OBVIOUS
<1> USE Limits DEF Init, Places, Phases, Outcomes, Answers, AgeCap
<1>1. pc \in Places /\ measurement_valid \in BOOLEAN /\ sensor \in Phases
  OBVIOUS
<1>2. /\ pulse_width \in 0..(MaxEcho + 1) /\ sinceStart \in 0..MaxEcho
      /\ sinceTrig \in 0..Wait /\ sinceBurst \in Nat /\ highFor \in 0..MaxEcho
      /\ gap \in 0..MaxGap
  OBVIOUS
<1>3. calls \in [Answers -> 0..AgeCap] /\ last \in Outcomes /\ edges \subseteq {"rise", "fall"}
  OBVIOUS
<1> QED
  BY <1>1, <1>2, <1>3 DEF TypeOK

LEMMA TypeNext == TypeOK /\ [Next]_vars => TypeOK'
<1> SUFFICES ASSUME TypeOK, [Next]_vars PROVE TypeOK'
  OBVIOUS
<1> USE Limits DEF TypeOK, Places, Phases, Outcomes, Answers, AgeCap,
        Least, program, measure, device
<1>1. CASE Call
  BY <1>1 DEF Call
<1>2. CASE ClearValid
  BY <1>2 DEF ClearValid
<1>3. CASE ClearWidth
  BY <1>3 DEF ClearWidth
<1>4. CASE Trigger
  <2> DEFINE aged == [a \in Answers |-> Least(calls[a] + 1, AgeCap)]
  <2>3. aged \in [Answers -> 0..AgeCap]
    OBVIOUS
  <2>4. [aged EXCEPT !["burst"] = 0] \in [Answers -> 0..AgeCap]
    BY <2>3
  <2>5. calls' = aged \/ calls' = [aged EXCEPT !["burst"] = 0]
    BY <1>4 DEF Trigger
  <2>1. calls' \in [Answers -> 0..AgeCap]
    BY <2>3, <2>4, <2>5
  <2>2. sinceTrig' \in 0..Wait /\ sensor' \in Phases /\ sinceBurst' \in Nat
    BY <1>4 DEF Trigger
  <2> QED
    BY <1>4, <2>1, <2>2 DEF Trigger
<1>5. CASE SeeValid
  BY <1>5 DEF SeeValid
<1>6. CASE Read
  BY <1>6 DEF Read
<1>7. CASE GiveUp
  BY <1>7 DEF GiveUp
<1>8. CASE HandleRise
  <2>1. sinceStart' \in 0..MaxEcho
    BY <1>8 DEF HandleRise
  <2>3. measurement_valid' \in BOOLEAN
    BY <1>8 DEF HandleRise
  <2>2. edges' \subseteq {"rise", "fall"}
    BY <1>8 DEF HandleRise
  <2> QED
    BY <1>8, <2>1, <2>2, <2>3 DEF HandleRise
<1>9. CASE HandleFall
  BY <1>9 DEF HandleFall
<1>10. CASE Rise
  BY <1>10 DEF Rise
<1>11. CASE Fall
  BY <1>11 DEF Fall
<1>12. CASE Tick
  BY <1>12 DEF Tick
<1>13. CASE UNCHANGED vars
  BY <1>13 DEF vars
<1> QED
  BY <1>1, <1>2, <1>3, <1>4, <1>5, <1>6, <1>7, <1>8, <1>9, <1>10, <1>11, <1>12, <1>13
     DEF Next, GetCm, Interrupt, Sensor

(* Sonar is type-correct for every value of its limits. *)
THEOREM TypeCorrect == Spec => []TypeOK
<1>1. Init => TypeOK
  BY TypeInit
<1>2. TypeOK /\ [Next]_vars => TypeOK'
  BY TypeNext
<1> QED
  BY <1>1, <1>2, PTL DEF Spec

-----------------------------------------------------------------------------
(* The inductive invariant: time bounds age. *)
LEMMA InvInit == Init => Inv
  BY TypeInit, Limits
     DEF Init, Inv, SensorInv, BurstInv, EdgeInv, WidthInv, FallOnly

LEMMA InvNext == Inv /\ [Next]_vars => Inv'
<1> SUFFICES ASSUME Inv, [Next]_vars PROVE Inv'
  OBVIOUS
<1>0. TypeOK /\ TypeOK'
  BY TypeNext DEF Inv
<1> USE <1>0, Limits DEF Inv, program, measure, device
<1>1. CASE Call
  <2>1. SensorInv'
    BY <1>1 DEF Call, SensorInv, FallOnly, TypeOK, Least
  <2>2. BurstInv'
    BY <1>1 DEF Call, BurstInv, WidthInv, SensorInv, FallOnly, AtLeast, Waited, TypeOK, Least, Answers, AgeCap
  <2>3. EdgeInv'
    BY <1>1 DEF Call, EdgeInv, BurstInv, SensorInv, FallOnly, AtLeast, Waited, TypeOK, Least, Answers, AgeCap
  <2>4. WidthInv'
    BY <1>1 DEF Call, WidthInv, EdgeInv, BurstInv, SensorInv, FallOnly, AtLeast, Waited, TypeOK, Least, Answers, AgeCap
  <2> QED
    BY <2>1, <2>2, <2>3, <2>4
<1>2. CASE ClearValid
  <2>1. SensorInv'
    BY <1>2 DEF ClearValid, SensorInv, FallOnly, TypeOK, Least
  <2>2. BurstInv'
    BY <1>2 DEF ClearValid, BurstInv, WidthInv, SensorInv, FallOnly, AtLeast, Waited, TypeOK, Least, Answers, AgeCap
  <2>3. EdgeInv'
    BY <1>2 DEF ClearValid, EdgeInv, BurstInv, SensorInv, FallOnly, AtLeast, Waited, TypeOK, Least, Answers, AgeCap
  <2>4. WidthInv'
    BY <1>2 DEF ClearValid, WidthInv, EdgeInv, BurstInv, SensorInv, FallOnly, AtLeast, Waited, TypeOK, Least, Answers, AgeCap
  <2> QED
    BY <2>1, <2>2, <2>3, <2>4
<1>3. CASE ClearWidth
  <2>1. SensorInv'
    BY <1>3 DEF ClearWidth, SensorInv, FallOnly, TypeOK, Least
  <2>2. BurstInv'
    BY <1>3 DEF ClearWidth, BurstInv, WidthInv, SensorInv, FallOnly, AtLeast, Waited, TypeOK, Least, Answers, AgeCap
  <2>3. EdgeInv'
    BY <1>3 DEF ClearWidth, EdgeInv, BurstInv, SensorInv, FallOnly, AtLeast, Waited, TypeOK, Least, Answers, AgeCap
  <2>4. WidthInv'
    BY <1>3 DEF ClearWidth, WidthInv, EdgeInv, BurstInv, SensorInv, FallOnly, AtLeast, Waited, TypeOK, Least, Answers, AgeCap
  <2> QED
    BY <2>1, <2>2, <2>3, <2>4
<1>4. CASE Trigger
  <2>0. /\ calls'["edge"] = Least(calls["edge"] + 1, AgeCap)
        /\ calls'["width"] = Least(calls["width"] + 1, AgeCap)
    BY <1>4 DEF Trigger, TypeOK, Answers
  <2>a. calls["edge"] \in 0..4 /\ calls["width"] \in 0..4
    BY DEF TypeOK, Answers, AgeCap
  <2>1. SensorInv'
    BY <1>4 DEF Trigger, SensorInv, FallOnly, TypeOK
  <2>2. BurstInv'
    BY <1>4 DEF Trigger, BurstInv, WidthInv, SensorInv, FallOnly, AtLeast, Waited, TypeOK, Least, Answers, AgeCap
  <2>3. EdgeInv'
    <3> SUFFICES ASSUME FallOnly' PROVE EdgeInv'
      BY DEF EdgeInv
    <3>1. FallOnly /\ highFor + RiseDelay >= AtLeast(calls["edge"]) /\ Waited = Wait
      BY <1>4 DEF Trigger, FallOnly, EdgeInv, Waited
    <3>2. Waited' = 0
      BY <1>4 DEF Trigger, Waited
    <3>3. AtLeast(calls["edge"])' =< AtLeast(calls["edge"])
      BY <2>0, <2>a, <3>1, <3>2 DEF AtLeast, Least, AgeCap
    <3>4. highFor \in Nat /\ AtLeast(calls["edge"]) \in Nat /\ AtLeast(calls["edge"])' \in Nat
      BY <3>1, <3>2 DEF TypeOK, AtLeast
    <3>5. highFor' = highFor /\ pc' = "wait"
      BY <1>4 DEF Trigger
    <3> QED
      BY <3>1, <3>3, <3>4, <3>5 DEF EdgeInv
  <2>4. WidthInv'
    BY <1>4, <2>0, <2>a DEF Trigger, WidthInv, Least, AgeCap
  <2> QED
    BY <2>1, <2>2, <2>3, <2>4
<1>5. CASE SeeValid
  <2>1. SensorInv'
    BY <1>5 DEF SeeValid, SensorInv, FallOnly, TypeOK, Least
  <2>2. BurstInv'
    BY <1>5 DEF SeeValid, BurstInv, WidthInv, SensorInv, FallOnly, AtLeast, Waited, TypeOK, Least, Answers, AgeCap
  <2>3. EdgeInv'
    BY <1>5 DEF SeeValid, EdgeInv, BurstInv, SensorInv, FallOnly, AtLeast, Waited, TypeOK, Least, Answers, AgeCap
  <2>4. WidthInv'
    BY <1>5 DEF SeeValid, WidthInv, EdgeInv, BurstInv, SensorInv, FallOnly, AtLeast, Waited, TypeOK, Least, Answers, AgeCap
  <2> QED
    BY <2>1, <2>2, <2>3, <2>4
<1>6. CASE Read
  <2>1. SensorInv'
    BY <1>6 DEF Read, SensorInv, FallOnly, TypeOK, Least
  <2>2. BurstInv'
    BY <1>6 DEF Read, BurstInv, WidthInv, SensorInv, FallOnly, AtLeast, Waited, TypeOK, Least, Answers, AgeCap
  <2>3. EdgeInv'
    BY <1>6 DEF Read, EdgeInv, BurstInv, SensorInv, FallOnly, AtLeast, Waited, TypeOK, Least, Answers, AgeCap
  <2>4. WidthInv'
    BY <1>6 DEF Read, WidthInv, EdgeInv, BurstInv, SensorInv, FallOnly, AtLeast, Waited, TypeOK, Least, Answers, AgeCap
  <2> QED
    BY <2>1, <2>2, <2>3, <2>4
<1>7. CASE GiveUp
  <2>1. SensorInv'
    BY <1>7 DEF GiveUp, SensorInv, FallOnly, TypeOK, Least
  <2>2. BurstInv'
    BY <1>7 DEF GiveUp, BurstInv, WidthInv, SensorInv, FallOnly, AtLeast, Waited, TypeOK, Least, Answers, AgeCap
  <2>3. EdgeInv'
    BY <1>7 DEF GiveUp, EdgeInv, BurstInv, SensorInv, FallOnly, AtLeast, Waited, TypeOK, Least, Answers, AgeCap
  <2>4. WidthInv'
    BY <1>7 DEF GiveUp, WidthInv, EdgeInv, BurstInv, SensorInv, FallOnly, AtLeast, Waited, TypeOK, Least, Answers, AgeCap
  <2> QED
    BY <2>1, <2>2, <2>3, <2>4
<1>8. CASE HandleRise
  <2>1. SensorInv'
    BY <1>8 DEF HandleRise, SensorInv, FallOnly, TypeOK, Least
  <2>2. BurstInv'
    BY <1>8 DEF HandleRise, BurstInv, WidthInv, SensorInv, FallOnly, AtLeast, Waited, TypeOK, Least, Answers, AgeCap
  <2>3. EdgeInv'
    BY <1>8 DEF HandleRise, EdgeInv, BurstInv, SensorInv, FallOnly, AtLeast, Waited, TypeOK, Least, Answers, AgeCap
  <2>4. WidthInv'
    BY <1>8 DEF HandleRise, WidthInv, EdgeInv, BurstInv, SensorInv, FallOnly, AtLeast, Waited, TypeOK, Least, Answers, AgeCap
  <2> QED
    BY <2>1, <2>2, <2>3, <2>4
<1>9. CASE HandleFall
  <2>1. SensorInv'
    BY <1>9 DEF HandleFall, SensorInv, FallOnly, TypeOK, Least
  <2>2. BurstInv'
    BY <1>9 DEF HandleFall, BurstInv, WidthInv, SensorInv, FallOnly, AtLeast, Waited, TypeOK, Least, Answers, AgeCap
  <2>3. EdgeInv'
    BY <1>9 DEF HandleFall, EdgeInv, BurstInv, SensorInv, FallOnly, AtLeast, Waited, TypeOK, Least, Answers, AgeCap
  <2>4. WidthInv'
    BY <1>9 DEF HandleFall, WidthInv, EdgeInv, BurstInv, SensorInv, FallOnly, AtLeast, Waited, TypeOK, Least, Answers, AgeCap
  <2> QED
    BY <2>1, <2>2, <2>3, <2>4
<1>10. CASE Rise
  <2>1. SensorInv'
    BY <1>10 DEF Rise, SensorInv, FallOnly, TypeOK, Least
  <2>2. BurstInv'
    BY <1>10 DEF Rise, BurstInv, WidthInv, SensorInv, FallOnly, AtLeast, Waited, TypeOK, Least, Answers, AgeCap
  <2>3. EdgeInv'
    BY <1>10 DEF Rise, EdgeInv, BurstInv, SensorInv, FallOnly, AtLeast, Waited, TypeOK, Least, Answers, AgeCap
  <2>4. WidthInv'
    BY <1>10 DEF Rise, WidthInv, EdgeInv, BurstInv, SensorInv, FallOnly, AtLeast, Waited, TypeOK, Least, Answers, AgeCap
  <2> QED
    BY <2>1, <2>2, <2>3, <2>4
<1>11. CASE Fall
  <2>1. SensorInv'
    BY <1>11 DEF Fall, SensorInv, FallOnly, TypeOK, Least
  <2>2. BurstInv'
    BY <1>11 DEF Fall, BurstInv, WidthInv, SensorInv, FallOnly, AtLeast, Waited, TypeOK, Least, Answers, AgeCap
  <2>3. EdgeInv'
    BY <1>11 DEF Fall, EdgeInv, BurstInv, SensorInv, FallOnly, AtLeast, Waited, TypeOK, Least, Answers, AgeCap
  <2>4. WidthInv'
    BY <1>11 DEF Fall, WidthInv, EdgeInv, BurstInv, SensorInv, FallOnly, AtLeast, Waited, TypeOK, Least, Answers, AgeCap
  <2> QED
    BY <2>1, <2>2, <2>3, <2>4
<1>12. CASE Tick
  <2>0. edges = {} /\ edges' = {} /\ sensor' = sensor /\ measurement_valid' = measurement_valid
    BY <1>12 DEF Tick
  <2>a. sensor = "burst" => sinceBurst' =< RiseDelay
    BY <1>12 DEF Tick, TypeOK
  <2>b. ASSUME sensor = "high"
        PROVE  sinceBurst' =< RiseDelay + highFor' /\ sinceStart' = highFor'
    BY <1>12, <2>b DEF Tick, SensorInv, TypeOK, Least
  <2>1. SensorInv'
    BY <2>0, <2>a, <2>b DEF SensorInv, FallOnly, TypeOK
  <2>2. BurstInv'
    BY <1>12 DEF Tick, BurstInv, WidthInv, SensorInv, FallOnly, AtLeast, Waited, TypeOK, Least, Answers, AgeCap
  <2>3. EdgeInv'
    BY <1>12 DEF Tick, EdgeInv, BurstInv, SensorInv, FallOnly, AtLeast, Waited, TypeOK, Least, Answers, AgeCap
  <2>4. WidthInv'
    BY <1>12 DEF Tick, WidthInv, EdgeInv, BurstInv, SensorInv, FallOnly, AtLeast, Waited, TypeOK, Least, Answers, AgeCap
  <2> QED
    BY <2>1, <2>2, <2>3, <2>4
<1>13. CASE UNCHANGED vars
  BY <1>13 DEF vars, SensorInv, BurstInv, EdgeInv, WidthInv, FallOnly, AtLeast, Waited
<1> QED
  BY <1>1, <1>2, <1>3, <1>4, <1>5, <1>6, <1>7, <1>8, <1>9, <1>10, <1>11, <1>12, <1>13
     DEF Next, GetCm, Interrupt, Sensor

LEMMA Invariance == Spec => []Inv
<1>1. Init => Inv
  BY InvInit
<1>2. Inv /\ [Next]_vars => Inv'
  BY InvNext
<1> QED
  BY <1>1, <1>2, PTL DEF Spec

(* However the limits are chosen, as long as two waits outlast an echo     *)
(* that counts: no call takes an echo more than two calls old for its own  *)
(* (buddy5.c 113, 134).                                                    *)
THEOREM EchoRecency == Spec => []EchoIsRecent
<1>1. Inv => EchoIsRecent
  BY DEF Inv, WidthInv, EchoIsRecent
<1> QED
  BY <1>1, Invariance, PTL
(* What answers an earlier call than the running one: everything until the *)
(* trigger, and afterwards what is older than it.                          *)
Old(a) == pc \notin {"wait", "read"} \/ calls[a] > 0

(* An edge of the running call is its sensor's last; so is its width.      *)
OwnInv ==
  pc \in {"wait", "read"} =>
    /\ calls["edge"] = 0 => sensor = "ready"
    /\ calls["width"] = 0 => sensor = "ready" /\ edges = {}

(* What is old has been under way for the whole pause before this call,    *)
(* and after a call that read its own echo nothing is.                     *)
PauseInv ==
  /\ sensor # "ready" /\ Old("burst") => sinceBurst >= gap /\ last \notin {"own", "none"}
  /\ FallOnly /\ Old("edge") => highFor + RiseDelay >= gap /\ last \notin {"own", "none"}

(* The calls ReadsOwnEcho is about.                                        *)
Clean == last \in {"own", "none"} \/ gap >= RiseDelay + MeasTimeout

ValidInv ==
  Clean =>
    /\ measurement_valid => pc \notin {"clear_width", "trigger"}
    /\ pc = "read" \/ (measurement_valid /\ pc = "wait") => pulse_width > 0 /\ calls["width"] = 0

EchoInv == Inv /\ OwnInv /\ PauseInv /\ ValidInv

LEMMA EchoInit == Init => EchoInv
  BY InvInit, Limits DEF Init, EchoInv, OwnInv, PauseInv, ValidInv, Clean, Old, FallOnly

LEMMA EchoNext == EchoInv /\ [Next]_vars => EchoInv'
<1> SUFFICES ASSUME EchoInv, [Next]_vars PROVE EchoInv'
  OBVIOUS
<1>0. Inv /\ Inv' /\ TypeOK /\ SensorInv /\ EdgeInv
  BY InvNext DEF EchoInv, Inv
<1>a. /\ calls["burst"] \in 0..4 /\ calls["edge"] \in 0..4 /\ calls["width"] \in 0..4
      /\ sinceBurst \in Nat /\ highFor \in Nat /\ gap \in Nat /\ sinceStart \in Nat
  BY <1>0 DEF TypeOK, Answers, AgeCap
<1> USE <1>0, <1>a, Limits
    DEF EchoInv, OwnInv, PauseInv, ValidInv, Clean, Old, FallOnly, program, measure, device
<1>1. CASE Call
  BY <1>1 DEF Call
<1>2. CASE ClearValid
  BY <1>2 DEF ClearValid
<1>3. CASE ClearWidth
  BY <1>3 DEF ClearWidth
<1>4. CASE Trigger
  <2>1. /\ calls'["edge"] = Least(calls["edge"] + 1, AgeCap)
        /\ calls'["width"] = Least(calls["width"] + 1, AgeCap)
        /\ sensor' = sensor \/ calls'["burst"] = 0
    BY <1>4 DEF Trigger, TypeOK, Answers
  <2>2. calls'["edge"] > 0 /\ calls'["width"] > 0
    BY <2>1 DEF Least, AgeCap
  <2> QED
    BY <1>4, <2>1, <2>2 DEF Trigger
<1>5. CASE SeeValid
  BY <1>5 DEF SeeValid
<1>6. CASE Read
  BY <1>6 DEF Read
<1>7. CASE GiveUp
  BY <1>7 DEF GiveUp
<1>8. CASE HandleRise
  BY <1>8 DEF HandleRise
<1>9. CASE HandleFall
  <2>1. /\ calls'["width"] = calls["edge"] /\ calls'["edge"] = calls["edge"]
        /\ calls'["burst"] = calls["burst"]
    BY <1>9 DEF HandleFall, TypeOK, Answers
  <2>2. FallOnly /\ sinceStart = highFor /\ sensor # "high"
    BY <1>9 DEF HandleFall, SensorInv
  <2>3. /\ edges' = {} /\ pulse_width' = sinceStart + 1
        /\ UNCHANGED <<pc, sensor, sinceBurst, highFor, last, gap>>
    BY <1>9 DEF HandleFall
  <2>a. measurement_valid' => sinceStart < MeasTimeout
    <3>1. measurement_valid' = (sinceStart < MeasTimeout)
      BY <1>9 DEF HandleFall
    <3> QED
      BY <3>1
  <2>4. OwnInv' /\ PauseInv'
    BY <2>1, <2>3
  <2>5. ValidInv'
    <3>1. Clean /\ Old("edge") => sinceStart >= MeasTimeout
      BY <2>2
    <3>2. pc = "read" => calls["edge"] = 0
      BY <2>2 DEF EdgeInv
    <3> QED
      BY <2>1, <2>3, <2>a, <3>1, <3>2
  <2> QED
    BY <2>4, <2>5
<1>10. CASE Rise
  BY <1>10 DEF Rise
<1>11. CASE Fall
  <2>1. /\ calls'["edge"] = calls["burst"] /\ calls'["width"] = calls["width"]
        /\ calls'["burst"] = calls["burst"]
    BY <1>11 DEF Fall, TypeOK, Answers
  <2>2. sinceBurst =< RiseDelay + highFor
    BY <1>11 DEF Fall, SensorInv
  <2> QED
    BY <1>11, <2>1, <2>2 DEF Fall
<1>12. CASE Tick
  BY <1>12 DEF Tick, Least
<1>13. CASE UNCHANGED vars
  BY <1>13 DEF vars
<1> QED
  BY <1>1, <1>2, <1>3, <1>4, <1>5, <1>6, <1>7, <1>8, <1>9, <1>10, <1>11, <1>12, <1>13
     DEF Next, GetCm, Interrupt, Sensor

(* A call that reads anything reads its own echo when the call before it   *)
(* did, or when it comes after a pause as long as the longest echo that    *)
(* counts, however the limits are chosen (buddy5.c 125-126).               *)
THEOREM OwnEcho == Spec => []ReadsOwnEcho
<1>1. EchoInv => ReadsOwnEcho
  BY DEF EchoInv, ValidInv, Clean, ReadsOwnEcho
<1> QED
  BY <1>1, EchoInit, EchoNext, PTL DEF Spec

-----------------------------------------------------------------------------
RangeWidth == MAX_DISTANCE_CM - MIN_DISTANCE_CM

(* The excess e after n measurements in a row on the other side.           *)
Shrunk(n, e) ==
  /\ n >= 1 => 3 * e =< RangeWidth
  /\ n >= 2 => 9 * e =< RangeWidth
  /\ n >= 3 => 27 * e =< RangeWidth
  /\ n >= 4 => 81 * e =< RangeWidth
  /\ n >= 5 => 243 * e =< RangeWidth
  /\ n >= 6 => 729 * e =< RangeWidth

FilterType ==
  /\ x \in Distances /\ heard \in BOOLEAN
  /\ near \in 0..Settle /\ far \in 0..Settle

FilterInv ==
  /\ FilterType
  /\ NoPhantom
  /\ Shrunk(near, x - DISTANCE_THRESHOLD_CM)
  /\ Shrunk(far, DISTANCE_THRESHOLD_CM + 1 - x)

LEMMA Constants ==
  /\ MIN_DISTANCE_CM \in Nat /\ MAX_DISTANCE_CM \in Nat /\ X0 \in Nat /\ JUMP \in Nat
  /\ MIN_DISTANCE_CM =< X0 /\ X0 =< MAX_DISTANCE_CM
  /\ MIN_DISTANCE_CM =< DISTANCE_THRESHOLD_CM /\ DISTANCE_THRESHOLD_CM =< MAX_DISTANCE_CM
  /\ DISTANCE_THRESHOLD_CM \in Nat /\ X0 > DISTANCE_THRESHOLD_CM
  /\ Settle \in 1..6
BY KalmanAssumption, RangingAssumption

(* A measurement below the threshold leaves a third of the excess.         *)
LEMMA Falls ==
  ASSUME NEW a \in Distances, NEW m \in Distances, NEW y \in Estimates(a, m),
         m < DISTANCE_THRESHOLD_CM, y > DISTANCE_THRESHOLD_CM
  PROVE  3 * (y - DISTANCE_THRESHOLD_CM) =< a - DISTANCE_THRESHOLD_CM
<1>1. y \in Distances /\ Between(y, a, m) /\ Step(a, m, y)
  BY DEF Estimates
<1>2. m < y /\ y =< a
  BY <1>1, Constants DEF Between, Distances
<1>3. CASE Distance(a, m) < JUMP
  <2>1. 3 * (y - m) =< (a - m) + 2
    BY <1>1, <1>2, <1>3, Constants DEF Step, Distance, Distances
  <2> QED
    BY <2>1, <1>1, <1>2, Constants DEF Distances
<1>4. CASE ~(Distance(a, m) < JUMP)
  <2>1. 10 * (y - m) =< 3 * (a - m) + 9
    BY <1>1, <1>2, <1>4, Constants DEF Step, Distance, Distances
  <2> QED
    BY <2>1, <1>1, <1>2, Constants DEF Distances
<1> QED
  BY <1>3, <1>4

(* The same on the other side.                                             *)
LEMMA Rises ==
  ASSUME NEW a \in Distances, NEW m \in Distances, NEW y \in Estimates(a, m),
         m > DISTANCE_THRESHOLD_CM + 1, y =< DISTANCE_THRESHOLD_CM
  PROVE  3 * (DISTANCE_THRESHOLD_CM + 1 - y) =< DISTANCE_THRESHOLD_CM + 1 - a
<1>1. y \in Distances /\ Between(y, a, m) /\ Step(a, m, y)
  BY DEF Estimates
<1>2. a =< y /\ y < m
  BY <1>1, Constants DEF Between, Distances
<1>3. CASE Distance(a, m) < JUMP
  <2>1. 3 * (m - y) =< (m - a) + 2
    BY <1>1, <1>2, <1>3, Constants DEF Step, Distance, Distances
  <2> QED
    BY <2>1, <1>1, <1>2, Constants DEF Distances
<1>4. CASE ~(Distance(a, m) < JUMP)
  <2>1. 10 * (m - y) =< 3 * (m - a) + 9
    BY <1>1, <1>2, <1>4, Constants DEF Step, Distance, Distances
  <2> QED
    BY <2>1, <1>1, <1>2, Constants DEF Distances
<1> QED
  BY <1>3, <1>4

LEMMA Positive ==
  ASSUME NEW a \in Int, NEW b \in Int
  PROVE  (a - b > 0 => a > b) /\ (b + 1 - a > 0 => a =< b)
OBVIOUS

(* One more measurement, and what is left of the excess is shrunk again.   *)
LEMMA ShrinksOn ==
  ASSUME NEW n \in Nat, NEW k \in Nat, k =< n + 1, NEW e \in Int, NEW d \in Int,
         Shrunk(n, e), e =< RangeWidth, d > 0 => 3 * d =< e
  PROVE  Shrunk(k, d)
<1>1. RangeWidth \in Nat
  BY Constants DEF RangeWidth
<1>2. CASE d =< 0
  BY <1>1, <1>2 DEF Shrunk
<1>3. CASE d > 0
  BY <1>1, <1>3 DEF Shrunk
<1> QED
  BY <1>2, <1>3

LEMMA FilterStarts == FilterInit => FilterInv
<1> SUFFICES ASSUME FilterInit PROVE FilterInv
  OBVIOUS
<1>1. FilterType
  <2>1. x \in Distances /\ near \in 0..Settle /\ far \in 0..Settle
    BY Constants DEF FilterInit, Distances
  <2>2. heard \in BOOLEAN
    BY DEF FilterInit
  <2> QED
    BY <2>1, <2>2 DEF FilterType
<1>2. NoPhantom
  BY Constants DEF FilterInit, NoPhantom
<1> QED
  BY <1>1, <1>2 DEF FilterInit, FilterInv, Shrunk

LEMMA FilterKept ==
  ASSUME FilterInv, NEW m \in Nat, kalman_update(m)
  PROVE  FilterInv'
<1>1. CASE m \notin Distances
  BY <1>1 DEF kalman_update, filter, FilterInv, FilterType, NoPhantom, Shrunk, RangeWidth, Distances
<1>2. CASE m \in Distances
  <2>1. x' \in Estimates(x, m) /\ heard' = (heard \/ m =< DISTANCE_THRESHOLD_CM)
    BY <1>2 DEF kalman_update
  <2>2. near' = IF m < DISTANCE_THRESHOLD_CM THEN Least(near + 1, Settle) ELSE 0
    BY <1>2 DEF kalman_update
  <2>3. far' = IF m > DISTANCE_THRESHOLD_CM + 1 THEN Least(far + 1, Settle) ELSE 0
    BY <1>2 DEF kalman_update
  <2>4. x' \in Distances /\ Between(x', x, m)
    BY <2>1 DEF Estimates
  <2>5. x \in Distances /\ heard \in BOOLEAN /\ near \in 0..Settle /\ far \in 0..Settle
    BY DEF FilterInv, FilterType
  <2>6. near' \in 0..Settle /\ near' =< near + 1 /\ far' \in 0..Settle /\ far' =< far + 1
    BY <2>2, <2>3, <2>5, Constants DEF Least
  <2>7. FilterType'
    <3>1. heard' \in BOOLEAN
      BY <2>1
    <3> QED
      BY <3>1, <2>4, <2>6 DEF FilterType, Distances
  <2>8. NoPhantom'
    <3>1. CASE m =< DISTANCE_THRESHOLD_CM
      BY <2>1, <3>1 DEF NoPhantom
    <3>2. CASE m > DISTANCE_THRESHOLD_CM
      <4>1. x' =< DISTANCE_THRESHOLD_CM => x =< DISTANCE_THRESHOLD_CM
        BY <1>2, <2>4, <2>5, <3>2, Constants DEF Between, Distances
      <4>2. x =< DISTANCE_THRESHOLD_CM => heard
        BY DEF FilterInv, NoPhantom
      <4> QED
        BY <4>1, <4>2, <2>1 DEF NoPhantom
    <3> QED
      BY <3>1, <3>2, <1>2, Constants DEF Distances
  <2>9. Shrunk(near', x' - DISTANCE_THRESHOLD_CM)
    <3>1. CASE m < DISTANCE_THRESHOLD_CM
      <4>1. x' > DISTANCE_THRESHOLD_CM =>
              3 * (x' - DISTANCE_THRESHOLD_CM) =< x - DISTANCE_THRESHOLD_CM
        BY <3>1, <1>2, <2>1, <2>5, Falls
      <4>0. x' \in Int /\ DISTANCE_THRESHOLD_CM \in Int
        BY <2>4, Constants DEF Distances
      <4>2. Shrunk(near, x - DISTANCE_THRESHOLD_CM)
        BY DEF FilterInv
      <4>3. x - DISTANCE_THRESHOLD_CM \in Int /\ x' - DISTANCE_THRESHOLD_CM \in Int
        BY <2>4, <2>5, Constants DEF Distances
      <4>4. x - DISTANCE_THRESHOLD_CM =< RangeWidth
        BY <2>5, Constants DEF Distances, RangeWidth
      <4>5. near \in Nat /\ near' \in Nat
        BY <2>5, <2>6, Constants
      <4>6. x' - DISTANCE_THRESHOLD_CM > 0 =>
              3 * (x' - DISTANCE_THRESHOLD_CM) =< x - DISTANCE_THRESHOLD_CM
        <5>1. x' - DISTANCE_THRESHOLD_CM > 0 => x' > DISTANCE_THRESHOLD_CM
          BY <4>0, Positive
        <5> QED
          BY <4>1, <5>1
      <4> QED
        BY <4>2, <4>3, <4>4, <4>5, <4>6, <2>6, ShrinksOn
    <3>2. CASE ~(m < DISTANCE_THRESHOLD_CM)
      BY <2>2, <3>2 DEF Shrunk
    <3> QED
      BY <3>1, <3>2
  <2>10. Shrunk(far', DISTANCE_THRESHOLD_CM + 1 - x')
    <3>1. CASE m > DISTANCE_THRESHOLD_CM + 1
      <4>1. x' =< DISTANCE_THRESHOLD_CM =>
              3 * (DISTANCE_THRESHOLD_CM + 1 - x') =< DISTANCE_THRESHOLD_CM + 1 - x
        BY <3>1, <1>2, <2>1, <2>5, Rises
      <4>0. x' \in Int /\ DISTANCE_THRESHOLD_CM \in Int
        BY <2>4, Constants DEF Distances
      <4>2. Shrunk(far, DISTANCE_THRESHOLD_CM + 1 - x)
        BY DEF FilterInv
      <4>3. DISTANCE_THRESHOLD_CM + 1 - x \in Int /\ DISTANCE_THRESHOLD_CM + 1 - x' \in Int
        BY <2>4, <2>5, Constants DEF Distances
      <4>4. DISTANCE_THRESHOLD_CM + 1 - x =< RangeWidth
        BY <2>5, Constants DEF Distances, RangeWidth
      <4>5. far \in Nat /\ far' \in Nat
        BY <2>5, <2>6, Constants
      <4>6. DISTANCE_THRESHOLD_CM + 1 - x' > 0 =>
              3 * (DISTANCE_THRESHOLD_CM + 1 - x') =< DISTANCE_THRESHOLD_CM + 1 - x
        <5>1. DISTANCE_THRESHOLD_CM + 1 - x' > 0 => x' =< DISTANCE_THRESHOLD_CM
          BY <4>0, Positive
        <5> QED
          BY <4>1, <5>1
      <4> QED
        BY <4>2, <4>3, <4>4, <4>5, <4>6, <2>6, ShrinksOn
    <3>2. CASE ~(m > DISTANCE_THRESHOLD_CM + 1)
      BY <2>3, <3>2 DEF Shrunk
    <3> QED
      BY <3>1, <3>2
  <2> QED
    BY <2>7, <2>8, <2>9, <2>10 DEF FilterInv, Shrunk, RangeWidth
<1> QED
  BY <1>1, <1>2

LEMMA FilterStep == FilterInv /\ [RangingNext]_<<vars, filter>> => FilterInv'
<1> SUFFICES ASSUME FilterInv, [RangingNext]_<<vars, filter>> PROVE FilterInv'
  OBVIOUS
<1>1. CASE UNCHANGED filter
  BY <1>1 DEF filter, FilterInv, FilterType, NoPhantom, Shrunk, RangeWidth, Distances
<1>2. CASE \E m \in Measured(pulse_width) : kalman_update(m)
  <2>1. PICK m \in Measured(pulse_width) : kalman_update(m)
    BY <1>2
  <2>2. m \in Nat
    BY DEF Measured
  <2> QED
    BY <2>1, <2>2, FilterKept
<1> QED
  BY <1>1, <1>2 DEF RangingNext

LEMMA FilterAlways == RangingSpec => []FilterInv
<1>1. RangingInit => FilterInv
  BY FilterStarts DEF RangingInit
<1> QED
  BY <1>1, FilterStep, PTL DEF RangingSpec

-----------------------------------------------------------------------------
(* For every range, jump and start above the threshold: the car sees no    *)
(* obstacle that no echo has measured (buddy5.c 75-97).                    *)
THEOREM NoPhantomObstacle == RangingSpec => []NoPhantom
<1>1. FilterInv => NoPhantom
  BY DEF FilterInv
<1> QED
  BY <1>1, FilterAlways, PTL

(* For every range less than 3^Settle wide: Settle measurements in a row   *)
(* on one side of the threshold bring the estimate to that side, from      *)
(* wherever it was (buddy5.c 75-97).                                       *)
THEOREM FilterSettles == RangingSpec => []Settles
<1>1. FilterInv => Settles
  <2> SUFFICES ASSUME FilterInv PROVE Settles
    OBVIOUS
  <2>1. x \in Int /\ DISTANCE_THRESHOLD_CM \in Int /\ RangeWidth \in Int
    BY Constants DEF FilterInv, FilterType, Distances, RangeWidth
  <2>2. \/ Settle = 1 \/ Settle = 2 \/ Settle = 3
        \/ Settle = 4 \/ Settle = 5 \/ Settle = 6
    BY Constants
  <2>3. \/ Settle = 1 /\ 3 > RangeWidth
        \/ Settle = 2 /\ 9 > RangeWidth
        \/ Settle = 3 /\ 27 > RangeWidth
        \/ Settle = 4 /\ 81 > RangeWidth
        \/ Settle = 5 /\ 243 > RangeWidth
        \/ Settle = 6 /\ 729 > RangeWidth
    BY <2>2, RangingAssumption DEF RangeWidth
  <2>4. \A n \in Nat, e \in Int : n = Settle /\ Shrunk(n, e) => e =< 0
    BY <2>1, <2>3 DEF Shrunk
  <2>5. near = Settle => x - DISTANCE_THRESHOLD_CM =< 0
    BY <2>1, <2>4 DEF FilterInv, FilterType
  <2>6. far = Settle => DISTANCE_THRESHOLD_CM + 1 - x =< 0
    BY <2>1, <2>4 DEF FilterInv, FilterType
  <2> QED
    BY <2>1, <2>5, <2>6 DEF Settles
<1> QED
  BY <1>1, FilterAlways, PTL

(* Every behaviour of the ranging is one of the sensor alone: the filter   *)
(* adds no step, so what is proved of Sonar holds here too.                *)
THEOREM RangingIsSonar == RangingSpec => Spec
<1>1. RangingInit => Init
  BY DEF RangingInit
<1>2. [RangingNext]_<<vars, filter>> => [Next]_vars
  BY DEF RangingNext
<1> QED
  BY <1>1, <1>2, PTL DEF RangingSpec, Spec
=============================================================================
