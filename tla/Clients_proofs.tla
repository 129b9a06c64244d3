--------------------------- MODULE Clients_proofs ---------------------------
(***************************************************************************)
(* The echo test, the sender and the TLS test, for any sizes of their      *)
(* buffers and messages: the echo is exact, a verdict is what happened, and *)
(* no callback comes after the state is freed.  And the NTP client, for    *)
(* any number of alarms, lookups and replies: its alarm never outlives its *)
(* request, and no request waits without it but one ended too early.       *)
(***************************************************************************)
EXTENDS Clients, NtpClient, SequenceTheorems, TLAPS

(* The echo test.  While the connection is live and the server has kept    *)
(* its turn: sent_len is what has come back of the buffer run_count        *)
(* stands for; a buffer that is not full has all that was sent before it   *)
(* echoed and acknowledged, and holds what was sent since; a full one has  *)
(* been written.                                                           *)
Base == BUF_SIZE * run_count

Counting ==
  /\ run_count \in Nat /\ run_count < TEST_ITERATIONS
  /\ sent_len \in Nat /\ sent_len < BUF_SIZE /\ acked = Base + sent_len

Filling ==
  /\ Len(buffer) < BUF_SIZE /\ sent_len = 0 /\ Len(written) = Base
  /\ received = Base + Len(buffer)
  /\ \A i \in 1..Len(buffer) : buffer[i] = Base + i

Full ==
  /\ Len(buffer) = BUF_SIZE /\ Len(written) = Base + BUF_SIZE /\ received = Len(written)

InStep ==
  /\ buffer \in Seq(Nat) /\ written \in Seq(Nat)
  /\ \A i \in 1..Len(written) : written[i] = i
  /\ Counting /\ (Filling \/ Full)

(* Until the connection is opened nothing has happened, and while it is    *)
(* live nothing has been said.                                             *)
EchoStages ==
  /\ pc \in {"open", "wait", "end"} /\ uninvited \in BOOLEAN
  /\ pc = "open" =>
       /\ tcp_pcb = "none" /\ ~complete /\ status = "none"
       /\ buffer = <<>> /\ written = <<>> /\ received = 0 /\ acked = 0
       /\ sent_len = 0 /\ run_count = 0
  /\ tcp_pcb = "live" => pc = "wait" /\ ~complete /\ status = "none"

EchoInv ==
  /\ EchoStages
  /\ tcp_pcb = "live" /\ ~uninvited => InStep
  /\ SuccessMeansAll

-----------------------------------------------------------------------------
(* Buffers counted in units. *)
LEMMA Multiples ==
  ASSUME EchoAssumption, NEW n \in Nat
  PROVE  /\ BUF_SIZE * n \in Nat
         /\ BUF_SIZE * (n + 1) = (BUF_SIZE * n) + BUF_SIZE
         /\ BUF_SIZE * 0 = 0
BY DEF EchoAssumption

(* The buffer that the acknowledgements have reached. *)
LEMMA Quotient ==
  ASSUME EchoAssumption, NEW n \in Nat, NEW a \in Nat,
         BUF_SIZE * n =< a, a < (BUF_SIZE * n) + BUF_SIZE
  PROVE  a \div BUF_SIZE = n
<1>1. BUF_SIZE \in Nat /\ BUF_SIZE > 0
  BY DEF EchoAssumption
<1>2. PICK q \in Int : q = a \div BUF_SIZE
  BY <1>1
<1>3. BUF_SIZE * q =< a /\ a < BUF_SIZE * (q + 1)
  BY <1>1, <1>2
<1>4. ~(q < n)
  <2> SUFFICES ASSUME q < n PROVE FALSE
    OBVIOUS
  <2>1. BUF_SIZE * (q + 1) =< BUF_SIZE * n
    BY <1>1
  <2> QED
    BY <1>1, <1>3, <2>1
<1>5. ~(q > n)
  <2> SUFFICES ASSUME q > n PROVE FALSE
    OBVIOUS
  <2>1. BUF_SIZE * (n + 1) =< BUF_SIZE * q
    BY <1>1
  <2>2. BUF_SIZE * (n + 1) = (BUF_SIZE * n) + BUF_SIZE
    BY Multiples
  <2> QED
    BY <1>1, <1>3, <2>1, <2>2
<1> QED
  BY <1>2, <1>4, <1>5
(* An acknowledgement comes for a buffer that is full and written, and     *)
(* never for more than what is left of it.                                 *)
LEMMA SentInTurn ==
  ASSUME EchoAssumption, InStep, NEW len \in 1..MaxUnits, tcp_client_sent(len)
  PROVE  /\ Full /\ sent_len + len =< BUF_SIZE
         /\ acked' = Base + sent_len + len
         /\ Base \in Nat /\ len \in Nat
<1>1. Base \in Nat /\ len \in Nat /\ len >= 1 /\ BUF_SIZE \in Nat
  BY Multiples DEF Base, InStep, Counting, EchoAssumption
<1>2. len =< Len(written) - acked /\ acked' = acked + len
  BY DEF tcp_client_sent
<1>3. acked = Base + sent_len /\ sent_len \in Nat
  BY DEF InStep, Counting
<1>4. ~Filling
  BY <1>1, <1>2, <1>3 DEF Filling
<1>5. Full
  BY <1>4 DEF InStep
<1> QED
  BY <1>1, <1>2, <1>3, <1>5 DEF Full

(* The acknowledgement of a whole buffer makes room for the next. *)
LEMMA SentKeepsStep ==
  ASSUME EchoAssumption, InStep, NEW len \in 1..MaxUnits, tcp_client_sent(len), tcp_pcb' = "live"
  PROVE  InStep'
<1>1. /\ Full /\ sent_len + len =< BUF_SIZE /\ acked' = Base + sent_len + len
      /\ Base \in Nat /\ len \in Nat
  BY SentInTurn
<1>2. /\ run_count \in Nat /\ run_count < TEST_ITERATIONS /\ sent_len \in Nat
      /\ BUF_SIZE \in Nat \ {0} /\ TEST_ITERATIONS \in Nat
  BY DEF InStep, Counting, EchoAssumption
<1>3. UNCHANGED <<received, written>> /\ tcp_pcb = "live"
  BY DEF tcp_client_sent
<1>4. CASE sent_len + len < BUF_SIZE
  <2>1. sent_len' = sent_len + len /\ UNCHANGED <<buffer, run_count>>
    BY <1>1, <1>2, <1>4 DEF tcp_client_sent
  <2>2. Base' = Base
    BY <2>1 DEF Base
  <2>3. Counting'
    BY <1>1, <1>2, <1>4, <2>1, <2>2 DEF Counting
  <2>4. Full'
    BY <1>1, <1>3, <2>1, <2>2 DEF Full
  <2> QED
    BY <1>3, <2>1, <2>3, <2>4 DEF InStep
<1>5. CASE sent_len + len >= BUF_SIZE
  <2>1. run_count' = run_count + 1 /\ run_count' < TEST_ITERATIONS /\ buffer' = <<>> /\ sent_len' = 0
    BY <1>1, <1>2, <1>3, <1>5 DEF tcp_client_sent, tcp_result
  <2>2. Base' = Base + BUF_SIZE
    BY <1>2, <2>1, Multiples DEF Base
  <2>3. acked' = Base'
    BY <1>1, <1>2, <1>5, <2>2
  <2>4. Counting'
    BY <1>1, <1>2, <2>1, <2>2, <2>3 DEF Counting
  <2>5. Filling'
    BY <1>1, <1>2, <1>3, <2>1, <2>2 DEF Filling, Full
  <2> QED
    BY <1>3, <2>1, <2>4, <2>5 DEF InStep
<1> QED
  BY <1>1, <1>2, <1>4, <1>5

(* What comes while the server keeps its turn fits in the buffer. *)
LEMMA RecvFits ==
  ASSUME EchoAssumption, InStep, NEW len \in 1..MaxUnits, tcp_client_recv(len), ~uninvited'
  PROVE  /\ Filling /\ len =< BUF_SIZE - Len(buffer)
         /\ buffer' = buffer \o [i \in 1..len |-> received + i]
<1>1. Base \in Nat /\ len \in Nat /\ len >= 1 /\ BUF_SIZE \in Nat
  BY Multiples DEF Base, InStep, Counting, EchoAssumption
<1>2. Base =< acked /\ acked < Base + BUF_SIZE /\ acked \in Nat
  BY <1>1 DEF InStep, Counting
<1>3. Invited = Base + BUF_SIZE
  <2>1. acked \div BUF_SIZE = run_count
    BY <1>2, Quotient DEF Base, InStep, Counting
  <2> QED
    BY <2>1, Multiples DEF Invited, Base, InStep, Counting
<1>4. Len(buffer) \in Nat /\ Len(written) \in Nat
  BY LenProperties DEF InStep
<1>5. received \in Nat
  BY <1>1, <1>4 DEF InStep, Filling, Full
<1>6. received + len =< Base + BUF_SIZE
  <2>1. uninvited' = (uninvited \/ received' > Invited)
    BY Zenon DEF tcp_client_recv
  <2>2. ~(received' > Invited)
    BY <2>1
  <2>3. received' = received + len
    BY DEF tcp_client_recv
  <2> QED
    BY <1>1, <1>3, <1>5, <2>2, <2>3
<1>7. ~Full
  BY <1>1, <1>6 DEF Full
<1>8. Filling
  BY <1>7 DEF InStep
<1>9. len =< BUF_SIZE - Len(buffer)
  BY <1>1, <1>4, <1>6, <1>8 DEF Filling
<1>10. buffer' = Filled(len)
  BY DEF tcp_client_recv
<1>11. (IF len > BUF_SIZE - Len(buffer) THEN BUF_SIZE - Len(buffer) ELSE len) = len
  BY <1>1, <1>4, <1>9
<1>12. Filled(len) = buffer \o [i \in 1..len |-> received + i]
  BY <1>11, Zenon DEF Filled
<1> QED
  BY <1>8, <1>9, <1>10, <1>12

(* The buffer takes the next units in their order, and goes back whole. *)
LEMMA RecvKeepsStep ==
  ASSUME EchoAssumption, InStep, NEW len \in 1..MaxUnits, tcp_client_recv(len), ~uninvited',
         tcp_pcb' = "live"
  PROVE  InStep'
<1> DEFINE new == [i \in 1..len |-> received + i]
<1>1. Filling /\ len =< BUF_SIZE - Len(buffer) /\ buffer' = buffer \o new
  BY RecvFits
<1>2. /\ UNCHANGED <<sent_len, run_count, acked>> /\ Base' = Base
      /\ received' = received + len
  BY DEF tcp_client_recv, Base
<1>3. Base \in Nat /\ len \in Nat /\ len >= 1 /\ BUF_SIZE \in Nat
  BY Multiples DEF Base, InStep, Counting, EchoAssumption
<1>4. /\ buffer \in Seq(Nat) /\ written \in Seq(Nat)
      /\ Len(buffer) \in Nat /\ Len(written) \in Nat
  BY LenProperties DEF InStep
<1>5. received = Base + Len(buffer) /\ received \in Nat
  BY <1>1, <1>3, <1>4 DEF Filling
<1>6. new \in Seq(Nat) /\ Len(new) = len /\ \A i \in 1..len : new[i] = received + i
  <2>1. new \in [1..len -> Nat]
    BY <1>3, <1>5
  <2>2. new \in Seq(Nat)
    BY <2>1, <1>3, IsASeq
  <2> QED
    BY <2>1, <2>2, <1>3, LenProperties
<1> HIDE DEF new
<1>7. /\ buffer' \in Seq(Nat) /\ Len(buffer') = Len(buffer) + len
      /\ \A i \in 1..(Len(buffer) + len) :
            buffer'[i] = IF i =< Len(buffer) THEN buffer[i] ELSE new[i - Len(buffer)]
  BY <1>1, <1>4, <1>6, ConcatProperties, Zenon
<1>8. \A i \in 1..(Len(buffer) + len) : buffer'[i] = Base + i
  <2> SUFFICES ASSUME NEW i \in 1..(Len(buffer) + len) PROVE buffer'[i] = Base + i
    OBVIOUS
  <2>1. CASE i =< Len(buffer)
    BY <1>1, <1>3, <1>4, <1>7, <2>1 DEF Filling
  <2>2. CASE i > Len(buffer)
    <3>1. (i - Len(buffer)) \in 1..len
      BY <1>3, <1>4, <2>2
    <3>2. new[i - Len(buffer)] = received + (i - Len(buffer))
      BY <3>1, <1>6
    <3> QED
      BY <3>2, <1>3, <1>4, <1>5, <1>7, <2>2
  <2> QED
    BY <1>4, <2>1, <2>2
<1>9. Counting'
  BY <1>2 DEF Counting, InStep
<1>10. received' = Base + Len(buffer')
  BY <1>2, <1>3, <1>4, <1>5, <1>7
<1>11. CASE Len(buffer') # BUF_SIZE
  <2>1. written' = written
    BY <1>11 DEF tcp_client_recv
  <2>2. Len(buffer') < BUF_SIZE
    <3>1. len =< BUF_SIZE - Len(buffer) /\ Len(buffer') = Len(buffer) + len
      BY <1>1, <1>7, Zenon
    <3> QED
      BY <1>3, <1>4, <1>11, <3>1
  <2>3. Filling'
    BY <1>1, <1>2, <1>7, <1>8, <1>10, <2>1, <2>2 DEF Filling
  <2> QED
    BY <1>4, <1>7, <1>9, <2>1, <2>3 DEF InStep
<1>12. CASE Len(buffer') = BUF_SIZE
  <2>1. written' = written \o buffer'
    BY <1>12 DEF tcp_client_recv, tcp_result
  <2>2. /\ written' \in Seq(Nat) /\ Len(written') = Len(written) + Len(buffer')
        /\ \A i \in 1..(Len(written) + Len(buffer')) :
              written'[i] = IF i =< Len(written) THEN written[i] ELSE buffer'[i - Len(written)]
    BY <1>4, <1>7, <2>1, ConcatProperties, Zenon
  <2>3. Len(written) = Base
    BY <1>1 DEF Filling
  <2>4. \A i \in 1..Len(written') : written'[i] = i
    <3> SUFFICES ASSUME NEW i \in 1..Len(written') PROVE written'[i] = i
      OBVIOUS
    <3>1. CASE i =< Len(written)
      BY <1>3, <1>4, <1>12, <2>2, <3>1 DEF InStep
    <3>2. CASE i > Len(written)
      <4>1. (i - Len(written)) \in 1..(Len(buffer) + len)
        BY <1>3, <1>4, <1>7, <2>2, <3>2
      <4>2. buffer'[i - Len(written)] = Base + (i - Len(written))
        BY <4>1, <1>8
      <4> QED
        BY <4>2, <1>3, <1>4, <1>12, <2>2, <2>3, <3>2
    <3> QED
      BY <1>4, <2>2, <3>1, <3>2, <1>3, <1>12
  <2>5. Full'
    BY <1>2, <1>3, <1>10, <1>12, <2>2, <2>3 DEF Full
  <2> QED
    BY <1>7, <1>9, <2>2, <2>4, <2>5 DEF InStep
<1> QED
  BY <1>11, <1>12
(* Success is said of the last buffer's acknowledgement. *)
LEMMA SentTellsTruth ==
  ASSUME EchoAssumption, InStep, status = "none",
         NEW len \in 1..MaxUnits, tcp_client_sent(len), status' = "success"
  PROVE  acked' = BUF_SIZE * TEST_ITERATIONS
<1>1. /\ sent_len + len =< BUF_SIZE /\ acked' = Base + sent_len + len
      /\ Base \in Nat /\ len \in Nat
  BY SentInTurn
<1>2. /\ run_count \in Nat /\ run_count < TEST_ITERATIONS /\ sent_len \in Nat
      /\ BUF_SIZE \in Nat \ {0} /\ TEST_ITERATIONS \in Nat
  BY DEF InStep, Counting, EchoAssumption
<1>3. sent_len + len >= BUF_SIZE /\ run_count + 1 >= TEST_ITERATIONS
  BY DEF tcp_client_sent
<1>4. TEST_ITERATIONS = run_count + 1 /\ acked' = Base + BUF_SIZE
  BY <1>1, <1>2, <1>3
<1> QED
  BY <1>2, <1>4, Multiples DEF Base

LEMMA EchoStepKeeps ==
  ASSUME EchoAssumption, EchoInv, Next
  PROVE  EchoInv'
<1> USE DEF EchoInv, EchoStages
<1>1. CASE tcp_client_open
  <2>1. EchoStages'
    BY <1>1 DEF tcp_client_open, tcp_result, wire
  <2>2. SuccessMeansAll'
    BY <1>1 DEF tcp_client_open, tcp_result, SuccessMeansAll
  <2>3. CASE tcp_pcb' = "live"
    <3>1. /\ buffer' = <<>> /\ written' = <<>> /\ received' = 0 /\ acked' = 0
          /\ sent_len' = 0 /\ run_count' = 0
      BY <1>1 DEF tcp_client_open, wire
    <3>2. BUF_SIZE \in Nat \ {0} /\ TEST_ITERATIONS \in Nat \ {0} /\ Base' = 0
      BY <3>1, Multiples DEF Base, EchoAssumption
    <3>3. Counting' /\ Filling'
      BY <3>1, <3>2 DEF Counting, Filling
    <3> QED
      BY <2>1, <2>2, <3>1, <3>3 DEF InStep
  <2> QED
    BY <2>1, <2>2, <2>3
<1>2. CASE Free
  BY <1>2 DEF Free, test, wire, SuccessMeansAll
<1>3. CASE tcp_client_connected
  BY <1>3 DEF tcp_client_connected, wire, SuccessMeansAll, InStep, Counting, Filling, Full, Base
<1>4. CASE Fail /\ tcp_pcb = "live"
  BY <1>4 DEF Fail, tcp_result, wire, SuccessMeansAll
<1>5. ASSUME NEW len \in 1..MaxUnits, tcp_client_sent(len) PROVE EchoInv'
  <2>1. tcp_pcb = "live" /\ UNCHANGED <<pc, uninvited>>
    BY <1>5 DEF tcp_client_sent
  <2>2. EchoStages'
    BY <1>5, <2>1 DEF tcp_client_sent, tcp_result
  <2>3. tcp_pcb' = "live" /\ ~uninvited' => InStep'
    BY <1>5, <2>1, SentKeepsStep
  <2>4. SuccessMeansAll'
    BY <1>5, <2>1, SentTellsTruth DEF SuccessMeansAll
  <2> QED
    BY <2>2, <2>3, <2>4
<1>6. ASSUME NEW len \in 1..MaxUnits, tcp_client_recv(len) PROVE EchoInv'
  <2>1. tcp_pcb = "live" /\ UNCHANGED pc
    BY <1>6 DEF tcp_client_recv
  <2>2. uninvited' \in BOOLEAN /\ (~uninvited' => ~uninvited)
    <3>1. uninvited' = (uninvited \/ received' > Invited)
      BY <1>6, Zenon DEF tcp_client_recv
    <3> QED
      BY <3>1, Zenon
  <2>3. EchoStages'
    BY <1>6, <2>1, <2>2 DEF tcp_client_recv, tcp_result
  <2>4. tcp_pcb' = "live" /\ ~uninvited' => InStep'
    BY <1>6, <2>1, <2>2, RecvKeepsStep
  <2>5. status' # "success"
    BY <1>6, <2>1 DEF tcp_client_recv, tcp_result
  <2> QED
    BY <2>3, <2>4, <2>5 DEF SuccessMeansAll
<1> QED
  BY <1>1, <1>2, <1>3, <1>4, <1>5, <1>6 DEF Next, Fin, tcp_client_err, tcp_client_poll

-----------------------------------------------------------------------------
(* The sender.  What is acknowledged is what run_count and sent_len count, *)
(* or more: what goes beyond a full buffer is forgotten.  A connection     *)
(* that is still live has no verdict yet, or the loop is about to close it *)
(* and has said "test failed".                                             *)
Closing == {"sent", "recv", "close"}

SenderPlaces ==
  {"open", "test", "sleep", "output", "result", "complete", "arg", "end", "fault"} \cup Closing

Counted ==
  /\ run_count \in Nat /\ run_count < TEST_ITERATIONS /\ sent_len \in Nat /\ acked \in Nat
  /\ acked >= Base + sent_len

SenderInv ==
  /\ pc \in SenderPlaces /\ status \in {"none", "failed", "success"}
  /\ pc = "open" =>
       /\ tcp_pcb = "none" /\ ~complete /\ status = "none"
       /\ acked = 0 /\ sent_len = 0 /\ run_count = 0
  /\ tcp_pcb = "live" =>
       /\ pc \notin {"open", "end"} /\ Counted
       /\ complete => pc \in {"arg", "fault"} \cup Closing
       /\ status \in CASE pc \in {"fault"} \cup Closing  -> {"failed", "success"}
                       [] pc \in {"complete", "arg"}      -> {"failed"}
                       [] OTHER                           -> {"none"}
  /\ Sender!SuccessMeansAll

LEMMA SenderSentKeeps ==
  ASSUME EchoAssumption, SenderInv, NEW len \in 1..TCP_SND_BUF, Sender!tcp_client_sent(len)
  PROVE  SenderInv'
<1>1. /\ tcp_pcb = "live" /\ pc \in SenderPlaces \ ({"open", "end", "fault"} \cup Closing)
      /\ complete => pc = "arg"
      /\ status = IF pc \in {"complete", "arg"} THEN "failed" ELSE "none"
      /\ run_count \in Nat /\ run_count < TEST_ITERATIONS /\ sent_len \in Nat /\ acked \in Nat
      /\ acked >= Base + sent_len
      /\ pc' = pc /\ acked' = acked + len /\ nulled' = nulled
  BY DEF SenderInv, SenderPlaces, Closing, Counted, Sender!tcp_client_sent, Sender!WithState,
     Sender!Called
<1>2. /\ BUF_SIZE \in Nat \ {0} /\ TEST_ITERATIONS \in Nat \ {0} /\ len \in Nat
      /\ Base \in Nat /\ BUF_SIZE * (run_count + 1) = Base + BUF_SIZE
  BY <1>1, Multiples DEF EchoAssumption, Base
<1>3. CASE sent_len + len < BUF_SIZE
  <2>1. sent_len' = sent_len + len /\ UNCHANGED <<tcp_pcb, run_count, complete, status>>
    BY <1>1, <1>2, <1>3 DEF Sender!tcp_client_sent
  <2>2. Base' = Base
    BY <2>1 DEF Base
  <2>3. Counted'
    BY <1>1, <1>2, <2>1, <2>2 DEF Counted
  <2> QED
    BY <1>1, <2>1, <2>3 DEF SenderInv, SenderPlaces, Closing, Sender!SuccessMeansAll
<1>4. CASE sent_len + len >= BUF_SIZE
  <2>1. run_count' = run_count + 1 /\ Base' = Base + BUF_SIZE /\ acked' \in Nat /\ acked' >= Base'
    BY <1>1, <1>2, <1>4 DEF Sender!tcp_client_sent, Base
  <2>2. CASE run_count' >= TEST_ITERATIONS
    <3>1. tcp_pcb' = "closed" /\ status' = "success"
      BY <1>1, <1>2, <1>4, <2>2 DEF Sender!tcp_client_sent, Sender!tcp_result
    <3>2. run_count' = TEST_ITERATIONS
      BY <1>1, <1>2, <2>1, <2>2
    <3>3. acked' >= BUF_SIZE * TEST_ITERATIONS
      BY <2>1, <3>2 DEF Base
    <3> QED
      BY <1>1, <3>1, <3>3 DEF SenderInv, SenderPlaces, Closing, Sender!SuccessMeansAll
  <2>3. CASE ~(run_count' >= TEST_ITERATIONS)
    <3>1. sent_len' = 0 /\ UNCHANGED <<tcp_pcb, complete, status>>
      BY <1>1, <1>2, <1>4, <2>3 DEF Sender!tcp_client_sent
    <3>2. Counted'
      BY <1>1, <1>2, <2>1, <2>3, <3>1 DEF Counted
    <3> QED
      BY <1>1, <3>1, <3>2 DEF SenderInv, SenderPlaces, Closing, Sender!SuccessMeansAll
  <2> QED
    BY <2>2, <2>3
<1> QED
  BY <1>1, <1>2, <1>3, <1>4

(* A callback without the state tells nothing but a "test success" that    *)
(* nulled marks.                                                           *)
LEMMA SenderNullKeeps ==
  ASSUME SenderInv, NEW len \in 1..TCP_SND_BUF, Sender!NullState(len)
  PROVE  SenderInv'
<1>1. /\ tcp_pcb = "live" /\ pc \in Closing /\ Counted /\ status \in {"failed", "success"}
      /\ nulled' /\ pc' \in {pc, "fault"} /\ status' \in {status, "success"}
      /\ UNCHANGED <<tcp_pcb, sent_len, run_count, complete>>
      /\ acked' \in {acked, acked + len}
  BY DEF SenderInv, SenderPlaces, Closing, Sender!NullState, Sender!WithState, Sender!Called
<1>2. Base' = Base /\ len \in Nat
  BY <1>1 DEF Base
<1>3. Base \in Int
  BY <1>1, EchoAssumption DEF Base, Counted, EchoAssumption
<1>4. Counted'
  BY <1>1, <1>2, <1>3 DEF Counted
<1> QED
  BY <1>1, <1>4 DEF SenderInv, SenderPlaces, Closing, Sender!SuccessMeansAll

LEMMA SenderStepKeeps ==
  ASSUME EchoAssumption, SenderInv, Sender!Next
  PROVE  SenderInv'
<1> USE DEF SenderInv, SenderPlaces, Closing, Counted, Sender!SuccessMeansAll, Sender!test,
        Sender!wire
<1>1. CASE Sender!tcp_client_open
  <2>1. /\ EchoAssumption /\ Base' = 0 /\ UNCHANGED <<sent_len, run_count, acked>>
    BY <1>1, Multiples DEF Sender!tcp_client_open, Base
  <2> QED
    BY <1>1, <2>1 DEF Sender!tcp_client_open, Sender!tcp_result, EchoAssumption
<1>2. CASE Sender!Test \/ Sender!Skip \/ Sender!Output \/ Sender!WriteFails
  BY <1>2 DEF Sender!Test, Sender!Skip, Sender!Output, Sender!WriteFails, Sender!Goto, Base
<1>3. CASE Sender!WriteMessage
  BY <1>3 DEF Sender!WriteMessage, Base
<1>4. CASE Sender!SayFailed
  BY <1>4 DEF Sender!SayFailed, Base
<1>5. CASE Sender!SetComplete
  BY <1>5 DEF Sender!SetComplete, Base
<1>6. CASE Sender!tcp_client_close
  BY <1>6 DEF Sender!tcp_client_close, Sender!Goto, Base
<1>7. CASE Sender!tcp_client_connected
  BY <1>7 DEF Sender!tcp_client_connected, Base
<1>8. CASE Sender!Fin
  BY <1>8 DEF Sender!Fin, Sender!tcp_result, Sender!WithState, Sender!Called, Base
<1>9. CASE Sender!Lose
  BY <1>9 DEF Sender!Lose, Sender!Called, Base
<1>10. ASSUME NEW len \in 1..TCP_SND_BUF, Sender!tcp_client_sent(len) PROVE SenderInv'
  BY <1>10, SenderSentKeeps
<1>11. ASSUME NEW len \in 1..TCP_SND_BUF, Sender!NullState(len) PROVE SenderInv'
  BY <1>11, SenderNullKeeps
<1> QED
  BY <1>1, <1>2, <1>3, <1>4, <1>5, <1>6, <1>7, <1>8, <1>9, <1>10, <1>11
  DEF Sender!Next, Sender!Loop

-----------------------------------------------------------------------------
(* The TLS test.  While the loop waits, it is complete just when the       *)
(* connection is closed, something has ended it, and the error says what.  *)
Fates == {"none", "refused", "no lookup", "not found", "not written", "closed", "timeout", "error"}

Errors == [f \in Fates |-> IF f = "timeout" THEN "timeout" ELSE IF f = "error" THEN "generic" ELSE "none"]

TlsInv ==
  /\ pc \in {"open", "wait", "end", "fault"} /\ fate \in Fates /\ complete \in BOOLEAN
  /\ pc = "open" => tcp_pcb = "none" /\ ~complete /\ fate = "none" /\ error = "none"
  /\ tcp_pcb = "live" => pc = "wait"
  /\ pc = "wait" =>
       /\ complete <=> tcp_pcb = "closed"
       /\ complete <=> fate # "none"
       /\ fate # "no lookup"
       /\ error = Errors[fate]
  /\ Tls!VerdictIsFate

(* The connection is under way, or refused and closed. *)
LEMMA TlsConnects ==
  ASSUME complete \in BOOLEAN, ~complete, fate = "none", error' = "none",
         pc' = "wait", Tls!tls_client_connect_to_server_ip
  PROVE  TlsInv'
<1> USE DEF TlsInv, Tls!VerdictIsFate, Fates, Errors
<1>1. CASE tcp_pcb' = "live" /\ UNCHANGED <<complete, fate>>
  BY <1>1
<1>2. CASE tcp_pcb' = "closed" /\ complete' = TRUE /\ fate' = "refused"
  BY <1>2
<1> QED
  BY <1>1, <1>2 DEF Tls!tls_client_connect_to_server_ip, Tls!tls_client_close

LEMMA TlsStepKeeps ==
  ASSUME TlsInv, Tls!Next
  PROVE  TlsInv'
<1> USE DEF TlsInv, Tls!VerdictIsFate, Fates, Errors
<1>1. CASE Tls!tls_client_open
  <2>1. pc = "open" /\ ~complete /\ fate = "none" /\ error' = "none"
    BY <1>1 DEF Tls!tls_client_open
  <2>2. CASE pc' = "end" /\ result' = "false" /\ UNCHANGED <<tcp_pcb, complete, fate>>
    BY <2>1, <2>2
  <2>3. CASE pc' = "wait" /\ Tls!tls_client_connect_to_server_ip
    BY <2>1, <2>3, TlsConnects
  <2>4. CASE pc' = "wait" /\ tcp_pcb' = "new" /\ UNCHANGED <<complete, result, fate>>
    BY <2>1, <2>4
  <2>5. CASE /\ pc' \in {"end", "fault"} /\ tcp_pcb' = "new" /\ fate' = "no lookup"
             /\ result' = IF pc' = "end" THEN "false" ELSE result
             /\ UNCHANGED complete
    BY <2>1, <2>5
  <2> QED
    BY <1>1, <2>2, <2>3, <2>4, <2>5 DEF Tls!tls_client_open
<1>2. CASE Tls!tls_client_dns_found
  <2>1. pc = "wait" /\ pc' = "wait" /\ ~complete /\ fate = "none" /\ error' = "none"
    BY <1>2 DEF Tls!tls_client_dns_found
  <2>2. CASE Tls!tls_client_connect_to_server_ip
    BY <2>1, <2>2, TlsConnects
  <2>3. CASE Tls!tls_client_close /\ fate' = "not found"
    BY <2>1, <2>3 DEF Tls!tls_client_close
  <2> QED
    BY <1>2, <2>2, <2>3 DEF Tls!tls_client_dns_found
<1>3. CASE Tls!Return
  BY <1>3 DEF Tls!Return
<1>4. CASE Tls!WriteFails
  BY <1>4 DEF Tls!WriteFails, Tls!tls_client_close
<1>5. CASE Tls!Fin
  BY <1>5 DEF Tls!Fin, Tls!tls_client_close
<1>6. CASE Tls!tls_client_poll
  BY <1>6 DEF Tls!tls_client_poll, Tls!tls_client_close
<1>7. CASE Tls!tls_client_err
  BY <1>7 DEF Tls!tls_client_err, Tls!tls_client_close
<1> QED
  BY <1>1, <1>2, <1>3, <1>4, <1>5, <1>6, <1>7 DEF Tls!Next

-----------------------------------------------------------------------------
(* The board runs one of the three. *)
ClientsInv ==
  /\ image \in {"echo", "sender", "tls"}
  /\ image = "echo" => EchoInv
  /\ image = "sender" => SenderInv
  /\ image = "tls" => TlsInv
  /\ image # "echo" => buffer = <<>> /\ written = <<>> /\ received = 0

LEMMA ClientsInvHolds == ClientsSpec => []ClientsInv
<1>1. EchoAssumption
  BY EchoAssumption
<1>2. ClientsInit => ClientsInv
  BY <1>1 DEF ClientsInit, Init, Sender!Init, Tls!Init, ClientsInv, EchoInv, EchoStages,
     SuccessMeansAll, SenderInv, SenderPlaces, Sender!SuccessMeansAll, TlsInv, Tls!VerdictIsFate,
     Fates
<1>3. ClientsInv /\ [ClientsNext]_all => ClientsInv'
  <2> SUFFICES ASSUME ClientsInv, [ClientsNext]_all PROVE ClientsInv'
    OBVIOUS
  <2>1. CASE EchoStep
    BY <1>1, <2>1, EchoStepKeeps DEF EchoStep, ClientsInv
  <2>2. CASE SenderStep
    BY <1>1, <2>2, SenderStepKeeps DEF SenderStep, ofEcho, ClientsInv
  <2>3. CASE TlsStep
    BY <2>3, TlsStepKeeps DEF TlsStep, ofEcho, ClientsInv
  <2>4. CASE UNCHANGED all
    <3>1. UNCHANGED <<image, pc, tcp_pcb, buffer, sent_len, run_count, complete, connected,
                      status, received, written, acked, uninvited, nulled, error, result, fate>>
      BY <2>4 DEF all, vars, test, wire, ofSender, ofTls
    <3> QED
      BY <3>1 DEF ClientsInv, EchoInv, EchoStages, SuccessMeansAll, SenderInv,
         Sender!SuccessMeansAll, Counted, TlsInv, Tls!VerdictIsFate, InStep, Counting, Filling, Full, Base
  <2> QED
    BY <2>1, <2>2, <2>3, <2>4 DEF ClientsNext
<1> QED
  BY <1>2, <1>3, PTL DEF ClientsSpec

(* Every unit comes back once and in order, however the segments and the   *)
(* acknowledgements are cut (picow_tcp_client.c 95-115, 140-172).          *)
THEOREM EchoArrives == ClientsSpec => []EchoesInOrder
<1>1. ClientsInv => EchoesInOrder
  <2> SUFFICES ASSUME ClientsInv, tcp_pcb = "live", ~uninvited
               PROVE  /\ written = [i \in DOMAIN written |-> i]
                      /\ received = Len(written) + (Len(buffer) % BUF_SIZE)
    BY DEF EchoesInOrder
  <2>1. BUF_SIZE \in Nat /\ BUF_SIZE > 0
    BY EchoAssumption DEF EchoAssumption
  <2>2. CASE image # "echo"
    BY <2>1, <2>2 DEF ClientsInv
  <2>3. CASE image = "echo"
    <3>1. InStep
      BY <2>3 DEF ClientsInv, EchoInv
    <3>2. written \in Seq(Nat) /\ Len(written) \in Nat /\ Len(buffer) \in Nat
      BY <3>1, LenProperties DEF InStep
    <3>3. written = [i \in DOMAIN written |-> i]
      BY <3>1, <3>2 DEF InStep
    <3>4. CASE Filling
      <4>1. Len(buffer) % BUF_SIZE = Len(buffer)
        <5>1. Len(buffer) >= 0 /\ Len(buffer) < BUF_SIZE
          BY <3>2, <3>4 DEF Filling
        <5> HIDE DEF Filling
        <5>2. \A n, m \in Nat : n < m => n % m = n
          OBVIOUS
        <5> QED
          BY <2>1, <3>2, <5>1, <5>2
      <4> QED
        BY <3>3, <3>4, <4>1 DEF Filling
    <3>5. CASE Full
      <4>1. Len(buffer) % BUF_SIZE = 0
        BY <2>1, <3>5 DEF Full
      <4> QED
        BY <3>2, <3>3, <3>5, <4>1 DEF Full
    <3> QED
      BY <3>1, <3>4, <3>5 DEF InStep
  <2> QED
    BY <2>2, <2>3
<1> QED
  BY <1>1, ClientsInvHolds, PTL

(* No callback of any of the three is left when the state is freed         *)
(* (picow_tcp_client.c 66-72, 91-92, 222-239; picow_tcp_server.c 148-170;  *)
(* tls_common.c 28-40, 220-227).                                           *)
THEOREM StateOutlives == ClientsSpec => []StateOutlivesCallbacks
<1>1. ClientsInv => StateOutlivesCallbacks
  BY DEF ClientsInv, EchoInv, EchoStages, SenderInv, TlsInv, StateOutlivesCallbacks
<1> QED
  BY <1>1, ClientsInvHolds, PTL

(* "test success" is backed by what the server has received and, in the    *)
(* echo test, sent (picow_tcp_client.c 95-115; picow_tcp_server.c 63-77).  *)
THEOREM SuccessBacked == ClientsSpec => []SuccessIsBacked
<1>1. ClientsInv => SuccessIsBacked
  BY DEF ClientsInv, EchoInv, SenderInv, SuccessIsBacked
<1> QED
  BY <1>1, ClientsInvHolds, PTL

(* The TLS test's verdict is what ended its connection (tls_common.c       *)
(* 65-77, 223-226).                                                        *)
THEOREM VerdictTold == ClientsSpec => []VerdictIsFate
<1>1. ClientsInv => VerdictIsFate
  BY DEF ClientsInv, TlsInv, VerdictIsFate
<1> QED
  BY <1>1, ClientsInvHolds, PTL

(* The sender's verdict stands, but for a write that was already due when  *)
(* the test ended, and, in the background build, for the last              *)
(* acknowledgement in the midst of a failure: a pcb with callbacks has no  *)
(* verdict outside that window (picow_tcp_server.c 36-38, 52-60, 148-162). *)
THEOREM VerdictKept == ClientsSpec => SenderVerdictStands
<1>1. ClientsInv /\ [ClientsNext]_all => [image = "sender" => Sender!KeepsVerdict]_all
  <2> SUFFICES ASSUME ClientsInv, ClientsNext, image = "sender", status # "none", status' # status
               PROVE  IF status = "success" THEN pc = "result"
                      ELSE arch = "background" /\ pc \in {"complete", "arg", "sent"}
    BY DEF Sender!KeepsVerdict
  <2>1. SenderInv /\ Sender!Next
    BY DEF ClientsInv, ClientsNext, EchoStep, SenderStep, TlsStep
  <2>2. CASE Sender!Loop
    <3>1. ~Sender!tcp_client_open
      BY <2>1 DEF SenderInv, Sender!tcp_client_open
    <3>2. CASE Sender!SayFailed
      BY <2>1, <3>2 DEF SenderInv, Sender!SayFailed
    <3>3. CASE ~Sender!SayFailed
      <4>1. status' = status
        BY <2>2, <3>1, <3>3 DEF Sender!Loop, Sender!Test, Sender!Skip, Sender!WriteMessage,
           Sender!Output, Sender!WriteFails, Sender!SetComplete, Sender!tcp_client_close,
           Sender!Goto, Sender!test
      <4> QED
        BY <4>1
    <3> QED
      BY <3>2, <3>3
  <2>3. CASE tcp_pcb = "live" /\ Sender!WithState
    <3>1. pc \in {"complete", "arg"} /\ status = "failed"
      BY <2>1, <2>3 DEF SenderInv, SenderPlaces, Closing, Sender!WithState, Sender!Called
    <3> QED
      BY <2>3, <3>1 DEF Sender!WithState, Sender!Called
  <2>4. ASSUME NEW len \in 1..TCP_SND_BUF, Sender!NullState(len)
        PROVE  arch = "background" /\ pc = "sent" /\ status = "failed"
    BY <2>1, <2>4 DEF SenderInv, Closing, Sender!NullState, Sender!WithState, Sender!Called
  <2>5. CASE Sender!Lose
    BY <2>5 DEF Sender!Lose, Sender!test
  <2> QED
    BY <2>1, <2>2, <2>3, <2>4, <2>5 DEF Sender!Next, Sender!tcp_client_connected, Sender!Fin,
       Sender!tcp_client_sent, Sender!WithState, Sender!Called
<1> QED
  BY <1>1, ClientsInvHolds, PTL DEF ClientsSpec, SenderVerdictStands

-----------------------------------------------------------------------------
(* The NTP client.                                                         *)
(* Where the alarm of a request may be while the loop goes through its     *)
(* statements: only in newAlarm until it is kept, then only in             *)
(* ntp_resend_alarm, and nowhere when no request is running.               *)
NoStrayAlarm ==
  /\ place \in Places
  /\ place = "arm" => alarms = {}
  /\ place = "keep" => alarms \subseteq {newAlarm}
  /\ place # "keep" => alarms \subseteq {ntp_resend_alarm}
  /\ place \in {"time", "sent", "rest", "branch"} /\ ~dns_request_sent => alarms = {}

(* The end of a request leaves no alarm, but for one not yet kept.         *)
LEMMA ResultCancels ==
  ASSUME NoStrayAlarm, NEW pending \in SUBSET alarms, ntp_result(pending), place' = place,
         newAlarm' = newAlarm
  PROVE  NoStrayAlarm'
BY DEF NoStrayAlarm, ntp_result

(* No alarm outlives its request, however the answers, the alarm and the   *)
(* loop interleave (picow_ntp_client.c 40-45, 134).                        *)
THEOREM NoOldAlarm == NtpSpec => []AlarmOwned
<1>1. NtpInit => NoStrayAlarm
  BY DEF NtpInit, NoStrayAlarm, Places
<1>2. NoStrayAlarm /\ [NtpNext]_ntpVars => NoStrayAlarm'
  <2> SUFFICES ASSUME NoStrayAlarm, [NtpNext]_ntpVars PROVE NoStrayAlarm'
    OBVIOUS
  <2>1. CASE ReadTime
    BY <2>1 DEF ReadTime, NoStrayAlarm, Places
  <2>2. CASE ReadSent
    BY <2>2 DEF ReadSent, NoStrayAlarm, Places
  <2>3. CASE AddAlarm
    BY <2>3 DEF AddAlarm, NoStrayAlarm, Places
  <2>4. CASE KeepAlarm
    BY <2>4 DEF KeepAlarm, NoStrayAlarm, Places
  <2>5. CASE Lookup
    BY <2>5 DEF Lookup, NoStrayAlarm, Places
  <2>6. CASE Mark
    BY <2>6 DEF Mark, NoStrayAlarm, Places
  <2>7. CASE Branch
    BY <2>7 DEF Branch, ntp_result, NoStrayAlarm, Places
  <2>8. CASE Rest
    BY <2>8 DEF Rest, NoStrayAlarm, Places
  <2>9. CASE ntp_dns_found
    <3>1. CASE Found
      BY <3>1 DEF Found, loop, NoStrayAlarm
    <3>2. CASE NotFound
      BY <3>2, ResultCancels DEF NotFound, loop
    <3> QED
      BY <2>9, <3>1, <3>2 DEF ntp_dns_found
  <2>10. CASE ntp_recv
    BY <2>10, ResultCancels DEF ntp_recv, loop
  <2>11. ASSUME NEW id \in AlarmIds, ntp_failed_handler(id) PROVE NoStrayAlarm'
    <3>1. alarms \ {id} \in SUBSET alarms
      OBVIOUS
    <3> QED
      BY <2>11, <3>1, ResultCancels DEF ntp_failed_handler, loop
  <2>12. CASE Lose
    BY <2>12 DEF Lose, loop, NoStrayAlarm
  <2>13. CASE Elapse
    BY <2>13 DEF Elapse, loop, NoStrayAlarm
  <2>14. CASE UNCHANGED ntpVars
    BY <2>14 DEF ntpVars, loop, NoStrayAlarm
  <2> QED
    BY <2>1, <2>2, <2>3, <2>4, <2>5, <2>6, <2>7, <2>8, <2>9, <2>10, <2>11, <2>12, <2>13, <2>14
    DEF NtpNext, run_ntp_test
<1>3. NoStrayAlarm => AlarmOwned
  BY DEF NoStrayAlarm, AlarmOwned, Waiting
<1> QED
  BY <1>1, <1>2, <1>3, PTL DEF NtpSpec

-----------------------------------------------------------------------------
(* Where the alarm of a running request is, as long as nothing ended it    *)
(* between KeepAlarm and Mark: set, and known to the loop or kept.  While  *)
(* no request runs none is kept, so that a late answer does not cancel the *)
(* one being set.                                                          *)
Guarded ==
  /\ place \in Places /\ alarms \subseteq AlarmIds
  /\ place \in {"arm", "keep"} => ~dns_request_sent /\ ntp_resend_alarm = 0
  /\ place = "keep" => newAlarm \in alarms /\ ~early
  /\ place \in {"lookup", "mark"} /\ ~early => ntp_resend_alarm \in alarms
  /\ place \in {"lookup", "mark", "branch"} => ntp_resend_alarm \in {0, newAlarm}
  /\ place # "keep" => alarms \subseteq {ntp_resend_alarm}
  /\ place = "keep" => alarms \subseteq {newAlarm}
  /\ place = "arm" => alarms = {}
  /\ place \in {"time", "sent", "rest", "branch"} =>
       IF dns_request_sent THEN early \/ ntp_resend_alarm \in alarms
                           ELSE ntp_resend_alarm = 0

(* A callback that ends the request, whenever it comes. *)
LEMMA ResultGuards ==
  ASSUME NtpAssumption, Guarded, ntp_result(alarms), EndsEarly, place' = place, newAlarm' = newAlarm
  PROVE  Guarded'
<1>1. 0 \notin alarms
  BY NtpAssumption DEF Guarded
<1> QED
  BY <1>1 DEF Guarded, ntp_result, EndsEarly, Places

(* No request waits without its alarm, unless a callback ended it before   *)
(* it was marked as sent ("Set alarm in case udp requests are lost",       *)
(* picow_ntp_client.c 133).                                                *)
THEOREM RequestsGuarded ==
  ASSUME NtpAssumption
  PROVE  NtpSpec => []RequestGuarded
<1>1. NtpInit => Guarded
  BY DEF NtpInit, Guarded, Places
<1>2. Guarded /\ [NtpNext]_ntpVars => Guarded'
  <2> SUFFICES ASSUME Guarded, [NtpNext]_ntpVars PROVE Guarded'
    OBVIOUS
  <2>1. CASE ReadTime
    BY <2>1 DEF ReadTime, Guarded, Places
  <2>2. CASE ReadSent
    BY <2>2, NtpAssumption DEF ReadSent, Guarded, Places
  <2>3. CASE AddAlarm
    BY <2>3 DEF AddAlarm, Guarded, Places
  <2>4. CASE KeepAlarm
    BY <2>4 DEF KeepAlarm, Guarded, Places
  <2>5. CASE Lookup
    BY <2>5 DEF Lookup, Guarded, Places
  <2>6. CASE Mark
    BY <2>6 DEF Mark, Guarded, Places
  <2>7. CASE Branch
    <3>1. place = "branch" /\ place' = "rest" /\ UNCHANGED <<newAlarm, early>>
      BY <2>7 DEF Branch
    <3>2. CASE UNCHANGED <<dns_request_sent, ntp_resend_alarm, alarms>>
      BY <3>1, <3>2 DEF Guarded, Places
    <3>3. CASE ntp_result(alarms)
      BY <3>1, <3>3 DEF ntp_result, Guarded, Places
    <3> QED
      BY <2>7, <3>2, <3>3 DEF Branch
  <2>8. CASE Rest
    BY <2>8 DEF Rest, Guarded, Places
  <2>9. CASE ntp_dns_found
    <3>1. CASE Found
      BY <3>1 DEF Found, loop, Guarded
    <3>2. CASE NotFound
      BY <3>2, ResultGuards DEF NotFound, loop
    <3> QED
      BY <2>9, <3>1, <3>2 DEF ntp_dns_found
  <2>10. CASE ntp_recv
    BY <2>10, ResultGuards DEF ntp_recv, loop
  <2>11. ASSUME NEW id \in AlarmIds, ntp_failed_handler(id) PROVE Guarded'
    <3>1. Waiting
      BY <2>11, NtpAssumption DEF ntp_failed_handler, Guarded, Waiting, Places
    <3>2. UNCHANGED <<place, early>> /\ ~dns_request_sent' /\ ntp_resend_alarm' = 0 /\ alarms' = {}
      BY <2>11, <3>1 DEF ntp_failed_handler, ntp_result, loop, Guarded, Waiting
    <3> QED
      BY <3>1, <3>2 DEF Guarded, Waiting
  <2>12. CASE Lose
    BY <2>12 DEF Lose, loop, Guarded
  <2>13. CASE Elapse
    BY <2>13 DEF Elapse, loop, Guarded
  <2>14. CASE UNCHANGED ntpVars
    BY <2>14 DEF ntpVars, loop, Guarded
  <2> QED
    BY <2>1, <2>2, <2>3, <2>4, <2>5, <2>6, <2>7, <2>8, <2>9, <2>10, <2>11, <2>12, <2>13, <2>14
    DEF NtpNext, run_ntp_test
<1>3. Guarded => RequestGuarded
  BY DEF Guarded, RequestGuarded, Waiting
<1> QED
  BY <1>1, <1>2, <1>3, PTL DEF NtpSpec
=============================================================================
