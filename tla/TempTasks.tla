----------------------------- MODULE TempTasks -----------------------------
(***************************************************************************)
(* The FreeRTOS program src/wifi/freertos/ping/picow_freertos_ping.c: one  *)
(* task reads the temperature, two average it and one prints, over two     *)
(* queues.  The scheduler is preemptive with one core: a task takes its    *)
(* next step, a queue operation, only when no ready task has a higher      *)
(* priority.  print_task alone takes printMutex, which is left out.        *)
(***************************************************************************)
EXTENDS Integers, FiniteSetsExt, SequencesExt

CONSTANTS
  Readings,      \* temperatures, as integers
  QueueLength,   \* length of both queues (10 in the code)
  BUFFER_SIZE,   \* readings in the moving average (10 in the code)
  MaxReadings    \* BOUND: readings taken

ASSUME SizeAssumption ==
  /\ Readings \subseteq Int
  /\ QueueLength \in Nat \ {0} /\ BUFFER_SIZE \in Nat \ {0} /\ MaxReadings \in Nat

Averagers == {"moving", "simple"}
Tasks == {"temp", "print"} \cup Averagers

Priority(t) == CASE t = "print" -> 3 [] t = "temp" -> 2 [] OTHER -> 1

VARIABLES
  pc,            \* next step of each task
  tempReading,   \* the reading of temp_task
  tempQueue, printQueue,
  msg,           \* the message each task is about to queue
  buffer, index, count, sum,        \* of moving_avg_task
  totalSum, totalCount,             \* of simple_avg_task
  taken,         \* history: readings taken
  got,           \* history: readings each averager received
  output         \* history: lines printed

queues  == <<tempQueue, printQueue>>
moving  == <<buffer, index, count, sum>>
simple  == <<totalSum, totalCount>>
vars == <<pc, tempReading, queues, msg, moving, simple, taken, got, output>>

(* A line: what it says and the newest reading it includes.  The mean an   *)
(* average prints is sum / count, or totalSum / totalCount.                *)
Line(kind, n) == [kind |-> kind, n |-> n]

NoLine == Line("none", 0)

TypeOK ==
  /\ pc \in [Tasks -> {"read", "send", "message", "delay", "receive", "print"}]
  /\ Len(tempQueue) =< QueueLength /\ Len(printQueue) =< QueueLength
  /\ DOMAIN buffer = 0..(BUFFER_SIZE - 1) /\ index \in DOMAIN buffer
  /\ count \in 0..BUFFER_SIZE
  /\ sum \in Int /\ totalSum \in Int /\ totalCount \in Nat

Init ==
  /\ pc = [t \in Tasks |-> IF t = "temp" THEN "read" ELSE "receive"]
  /\ tempReading = [n |-> 0, value |-> 0]
  /\ tempQueue = <<>> /\ printQueue = <<>>
  /\ msg = [t \in Tasks |-> NoLine]
  /\ buffer = [i \in 0..(BUFFER_SIZE - 1) |-> 0]
  /\ index = 0 /\ count = 0 /\ sum = 0
  /\ totalSum = 0 /\ totalCount = 0
  /\ taken = 0 /\ got = [t \in Averagers |-> <<>>] /\ output = <<>>

-----------------------------------------------------------------------------
(* A task that waits for a queue, or in vTaskDelay, is not ready.          *)
Ready(t) ==
  CASE pc[t] = "receive" -> IF t = "print" THEN printQueue # <<>> ELSE tempQueue # <<>>
    [] pc[t] = "send"    -> Len(tempQueue) < QueueLength
    [] pc[t] = "message" -> Len(printQueue) < QueueLength
    [] pc[t] = "delay"   -> FALSE
    [] pc[t] = "read"    -> taken < MaxReadings
    [] OTHER             -> TRUE

Running(t) == Ready(t) /\ \A u \in Tasks : Ready(u) => Priority(u) =< Priority(t)

Goto(t, place) == pc' = [pc EXCEPT ![t] = place]

(* temp_task.                                                              *)
Read ==
  /\ Running("temp") /\ pc["temp"] = "read" /\ Goto("temp", "send")
  /\ \E r \in Readings : tempReading' = [n |-> taken + 1, value |-> r]
  /\ taken' = taken + 1
  /\ UNCHANGED <<queues, msg, moving, simple, got, output>>

SendReading ==
  /\ Running("temp") /\ pc["temp"] = "send" /\ Goto("temp", "message")
  /\ tempQueue' = Append(tempQueue, tempReading)
  /\ msg' = [msg EXCEPT !["temp"] = Line("reading", tempReading.n)]
  /\ UNCHANGED <<tempReading, printQueue, moving, simple, taken, got, output>>

(* Every task but print_task ends its round by queueing its message.       *)
SendMessage(t) ==
  /\ Running(t) /\ pc[t] = "message"
  /\ Goto(t, IF t = "temp" THEN "delay" ELSE "receive")
  /\ printQueue' = Append(printQueue, msg[t])
  /\ UNCHANGED <<tempReading, tempQueue, msg, moving, simple, taken, got, output>>

(* vTaskDelay ends at any time: the period is long, not bounded.           *)
Wake ==
  /\ pc["temp"] = "delay" /\ Goto("temp", "read")
  /\ UNCHANGED <<tempReading, queues, msg, moving, simple, taken, got, output>>

(* mutant: the value that falls out of the buffer stays in the sum *)
moving_avg_task_Keeps ==
  /\ Running("moving") /\ pc["moving"] = "receive" /\ Goto("moving", "message")
  /\ LET reading == Head(tempQueue)
     IN /\ tempQueue' = Tail(tempQueue)
        /\ sum' = sum + reading.value
        /\ buffer' = [buffer EXCEPT ![index] = reading.value]
        /\ msg' = [msg EXCEPT !["moving"] = Line("moving", reading.n)]
        /\ got' = [got EXCEPT !["moving"] = Append(@, reading.value)]
  /\ index' = (index + 1) % BUFFER_SIZE
  /\ count' = Min({count + 1, BUFFER_SIZE})
  /\ UNCHANGED <<tempReading, printQueue, simple, taken, output>>

(* mutant: no average is queued before the ring is full *)
moving_avg_task_WhenFull ==
  /\ Running("moving") /\ pc["moving"] = "receive"
  /\ Goto("moving", IF count + 1 < BUFFER_SIZE THEN "receive" ELSE "message")
  /\ tempQueue' = Tail(tempQueue)
  /\ count' = Min({count + 1, BUFFER_SIZE})
  /\ msg' = [msg EXCEPT !["moving"] = Line("moving", Head(tempQueue).n)]
  /\ UNCHANGED <<tempReading, printQueue, buffer, index, sum, simple, taken, got, output>>

moving_avg_task ==
  /\ Running("moving") /\ pc["moving"] = "receive" /\ Goto("moving", "message")
  /\ count' = Min({count + 1, BUFFER_SIZE})
  /\ LET reading == Head(tempQueue)
     IN /\ tempQueue' = Tail(tempQueue)
        /\ sum' = sum - buffer[index] + reading.value
        /\ buffer' = [buffer EXCEPT ![index] = reading.value]
        /\ msg' = [msg EXCEPT !["moving"] = Line("moving", reading.n)]
        /\ got' = [got EXCEPT !["moving"] = Append(@, reading.value)]
  /\ index' = (index + 1) % BUFFER_SIZE
  /\ UNCHANGED <<tempReading, printQueue, simple, taken, output>>

(* mutant: the reading is looked at and left in the queue *)
simple_avg_task_Peeks ==
  /\ Running("simple") /\ pc["simple"] = "receive" /\ Goto("simple", "message")
  /\ LET reading == Head(tempQueue)
     IN /\ totalSum' = totalSum + reading.value
        /\ totalCount' = totalCount + 1
        /\ msg' = [msg EXCEPT !["simple"] = Line("simple", reading.n)]
        /\ got' = [got EXCEPT !["simple"] = Append(@, reading.value)]
  /\ UNCHANGED <<tempReading, queues, moving, taken, output>>

simple_avg_task ==
  /\ Running("simple") /\ pc["simple"] = "receive" /\ Goto("simple", "message")
  /\ LET reading == Head(tempQueue)
     IN /\ tempQueue' = Tail(tempQueue)
        /\ totalSum' = totalSum + reading.value
        /\ totalCount' = totalCount + 1
        /\ msg' = [msg EXCEPT !["simple"] = Line("simple", reading.n)]
        /\ got' = [got EXCEPT !["simple"] = Append(@, reading.value)]
  /\ UNCHANGED <<tempReading, printQueue, moving, taken, output>>

ReceiveLine ==
  /\ Running("print") /\ pc["print"] = "receive" /\ Goto("print", "print")
  /\ printQueue' = Tail(printQueue)
  /\ msg' = [msg EXCEPT !["print"] = Head(printQueue)]
  /\ UNCHANGED <<tempReading, tempQueue, moving, simple, taken, got, output>>

PrintLine ==
  /\ Running("print") /\ pc["print"] = "print" /\ Goto("print", "receive")
  /\ output' = Append(output, msg["print"])
  /\ UNCHANGED <<tempReading, queues, msg, moving, simple, taken, got>>

temp_task == Read \/ SendReading \/ SendMessage("temp")
print_task == ReceiveLine \/ PrintLine

Next ==
  \/ temp_task \/ Wake \/ print_task
  \/ moving_avg_task \/ SendMessage("moving")
  \/ simple_avg_task \/ SendMessage("simple")

(* The scheduler runs the highest ready priority and shares the time       *)
(* between the tasks of one priority; delays end.                          *)
Spec ==
  /\ Init /\ [][Next]_vars
  /\ WF_vars(temp_task) /\ WF_vars(Wake) /\ WF_vars(print_task)
  /\ SF_vars(moving_avg_task \/ SendMessage("moving"))
  /\ SF_vars(simple_avg_task \/ SendMessage("simple"))

-----------------------------------------------------------------------------
Sum(s) == FoldSeq(+, 0, s)

(* The moving average is the mean of the last BUFFER_SIZE readings its     *)
(* task received, or of all of them before that, through every wrap of the *)
(* ring (picow_freertos_ping.c 98-116).                                   *)
MovingIsMeanOfLast ==
  LET received == got["moving"]
      last     == Min({Len(received), BUFFER_SIZE})
  IN /\ count = last
     /\ sum = Sum(SubSeq(received, Len(received) - last + 1, Len(received)))

(* Each reading taken is in one place: about to be sent, in the queue, or  *)
(* received by one of the two averages, never by both (as line 74 of       *)
(* picow_freertos_ping.c would have it) and never lost.                    *)
ReadingsConserved ==
  taken = Len(got["moving"]) + Len(got["simple"]) + Len(tempQueue)
            + (IF pc["temp"] = "send" THEN 1 ELSE 0)

(* Every reading is printed, and after it an average that includes it,     *)
(* never before: the priorities see to the order of the lines, no code     *)
(* does (picow_freertos_ping.c 15-18, 70-84).                              *)
AllPrinted ==
  \A n \in 1..MaxReadings : taken = n ~>
    \E i \in DOMAIN output : \E j \in i..Len(output) :
      /\ output[i].n = n /\ output[i].kind = "reading"
      /\ output[j].n = n /\ output[j].kind \in Averagers
=============================================================================
