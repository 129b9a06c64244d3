----------------------------- MODULE TcpClient -----------------------------
(***************************************************************************)
(* The echo test src/wifi/tcp_client/picow_tcp_client.c: a server sends a  *)
(* buffer, the client sends it back, TEST_ITERATIONS times over.  lwIP's   *)
(* callbacks do the work, each in one step; the loop only waits for        *)
(* state->complete and frees the state.                                    *)
(*                                                                         *)
(* Bytes are counted in units of any size; the server's are numbered, so   *)
(* that a unit lost or echoed twice shows.                                 *)
(***************************************************************************)
EXTENDS Integers, Sequences, SequencesExt

CONSTANTS
  BUF_SIZE,          \* units in a buffer
  TEST_ITERATIONS,   \* buffers in the test (10 in the code)
  MaxUnits           \* BOUND: units the server sends

ASSUME EchoAssumption ==
  /\ BUF_SIZE \in Nat \ {0} /\ TEST_ITERATIONS \in Nat \ {0}
  /\ MaxUnits \in Nat /\ MaxUnits >= BUF_SIZE * TEST_ITERATIONS

VARIABLES
  pc,                    \* run_tcp_client_test: "open", "wait", "end"
  tcp_pcb,               \* "none", "live" with our callbacks, "closed"
  buffer,                \* the first buffer_len units of state->buffer
  sent_len, run_count, complete, connected,
  status,                \* what tcp_result was told last, "none" before
  received,              \* units lwIP has handed over
  written,               \* every unit passed to tcp_write
  acked,                 \* units of it the server has acknowledged
  uninvited              \* history: the server has sent before it had the whole echo

test == <<sent_len, run_count, complete, connected, status>>
wire == <<received, written, acked, uninvited>>
vars == <<pc, tcp_pcb, buffer, test, wire>>

TypeOK ==
  /\ pc \in {"open", "wait", "end"} /\ tcp_pcb \in {"none", "live", "closed"}
  /\ Len(buffer) =< BUF_SIZE
  /\ sent_len \in Nat /\ run_count \in 0..TEST_ITERATIONS
  /\ complete \in BOOLEAN /\ connected \in BOOLEAN
  /\ status \in {"none", "success", "failed"}
  /\ received \in 0..MaxUnits /\ acked \in 0..Len(written)
  /\ uninvited \in BOOLEAN

Init ==
  /\ pc = "open" /\ tcp_pcb = "none" /\ buffer = <<>>
  /\ sent_len = 0 /\ run_count = 0 /\ complete = FALSE /\ connected = FALSE
  /\ status = "none"
  /\ received = 0 /\ written = <<>> /\ acked = 0 /\ uninvited = FALSE

-----------------------------------------------------------------------------
(* mutant: the connection is left open *)
tcp_result_LeavesPcb(result) ==
  /\ complete' = TRUE /\ status' = result
  /\ UNCHANGED tcp_pcb

(* tcp_result and tcp_client_close: no callback is left on the pcb.        *)
tcp_result(result) ==
  /\ complete' = TRUE /\ status' = result
  /\ tcp_pcb' = IF tcp_pcb = "live" THEN "closed" ELSE tcp_pcb

(* There may be no pcb, or no way to the server; the state is then kept.   *)
tcp_client_open ==
  /\ pc = "open"
  /\ \/ /\ pc' = "wait" /\ tcp_pcb' = "live"
        /\ UNCHANGED <<complete, status>>
     \/ pc' = "end" /\ tcp_result("failed")
     \/ /\ pc' = "end" /\ tcp_pcb' = "closed"
        /\ complete' = TRUE /\ status' = "failed"
  /\ UNCHANGED <<buffer, sent_len, run_count, connected, wire>>

(* The loop of run_tcp_client_test has seen complete: free(state).         *)
Free ==
  /\ pc = "wait" /\ complete /\ pc' = "end"
  /\ UNCHANGED <<tcp_pcb, buffer, test, wire>>

-----------------------------------------------------------------------------
(* The callbacks.  lwIP reports no failure to tcp_client_connected, only   *)
(* to tcp_client_err.                                                      *)
tcp_client_connected ==
  /\ tcp_pcb = "live" /\ ~connected /\ connected' = TRUE
  /\ UNCHANGED <<pc, tcp_pcb, buffer, sent_len, run_count, complete, status, wire>>

(* mutant: the echoed buffer stays *)
tcp_client_sent_Stays(len) ==
  /\ tcp_pcb = "live" /\ len =< Len(written) - acked
  /\ acked' = acked + len
  /\ IF sent_len + len < BUF_SIZE
     THEN sent_len' = sent_len + len /\ UNCHANGED <<tcp_pcb, run_count, complete, status>>
     ELSE /\ run_count' = run_count + 1 /\ sent_len' = 0
          /\ IF run_count' >= TEST_ITERATIONS
             THEN tcp_result("success") ELSE UNCHANGED <<tcp_pcb, complete, status>>
  /\ UNCHANGED <<pc, buffer, connected, received, written, uninvited>>

tcp_client_sent(len) ==
  /\ tcp_pcb = "live" /\ len =< Len(written) - acked
  /\ acked' = acked + len
  /\ \/ /\ sent_len + len < BUF_SIZE /\ sent_len' = sent_len + len
        /\ UNCHANGED <<tcp_pcb, buffer, run_count, complete, status>>
     \/ /\ sent_len + len >= BUF_SIZE /\ run_count' = run_count + 1
        /\ IF run_count' >= TEST_ITERATIONS
           THEN /\ sent_len' = sent_len + len
                /\ tcp_result("success") /\ UNCHANGED buffer
           ELSE /\ buffer' = <<>> /\ sent_len' = 0
                /\ UNCHANGED <<tcp_pcb, complete, status>>
  /\ UNCHANGED <<pc, connected, received, written, uninvited>>

(* What the server is to have sent: the next buffer after the whole echo   *)
(* of the last ("We should receive a new buffer from the server").         *)
Invited == BUF_SIZE * (acked \div BUF_SIZE + 1)

(* The copy into the buffer: what does not fit is dropped.                 *)
Filled(len) ==
  buffer \o [i \in 1..(IF len > BUF_SIZE - Len(buffer) THEN BUF_SIZE - Len(buffer) ELSE len) |-> received + i]

(* tcp_client_recv with data; a full buffer is written, or cannot be.      *)
tcp_client_recv(len) ==
  /\ tcp_pcb = "live" /\ connected
  /\ received + len =< MaxUnits
  /\ received' = received + len
  /\ uninvited' = (uninvited \/ received' > Invited)
  /\ buffer' = Filled(len)
  /\ \/ /\ Len(buffer') # BUF_SIZE
        /\ UNCHANGED <<tcp_pcb, complete, status, written>>
     \/ /\ Len(buffer') = BUF_SIZE /\ written' = written \o buffer'
        /\ UNCHANGED <<tcp_pcb, complete, status>>
     \/ /\ Len(buffer') = BUF_SIZE /\ tcp_result("failed")
        /\ UNCHANGED written
  /\ UNCHANGED <<pc, sent_len, run_count, connected, acked>>

Fail ==
  /\ tcp_result("failed")
  /\ UNCHANGED <<pc, buffer, sent_len, run_count, connected, wire>>

(* tcp_client_recv without data: the server has closed the connection.     *)
Fin == tcp_pcb = "live" /\ connected /\ Fail

(* tcp_client_err: a reset.  lwIP's own ERR_ABRT, which is ignored, comes  *)
(* after more retries than tcp_client_poll waits for.                      *)
tcp_client_err == tcp_pcb = "live" /\ Fail

(* mutant: five seconds without an answer are not an error *)
tcp_client_poll_LogOnly == tcp_pcb = "live" /\ UNCHANGED vars

tcp_client_poll == tcp_pcb = "live" /\ Fail

Next ==
  \/ tcp_client_open \/ Free
  \/ tcp_client_connected \/ Fin \/ tcp_client_err \/ tcp_client_poll
  \/ \E len \in 1..MaxUnits : tcp_client_sent(len) \/ tcp_client_recv(len)

(* The loop runs, and lwIP's poll timer does; the server owes nothing.     *)
Fairness == WF_vars(tcp_client_open \/ Free) /\ WF_vars(tcp_client_poll)

Spec == Init /\ [][Next]_vars /\ Fairness

-----------------------------------------------------------------------------
(* Every unit the server sends comes back once and in order, whatever the  *)
(* segments it comes and is acknowledged in; what is not yet back is in    *)
(* the buffer (picow_tcp_client.c 95-115, 140-172).  What a server sends   *)
(* before it has the echo is dropped, or echoed twice.                     *)
EchoesInOrder ==
  tcp_pcb = "live" /\ ~uninvited =>
    /\ written = [i \in DOMAIN written |-> i]
    /\ received = Len(written) + (Len(buffer) % BUF_SIZE)

(* "test success" is said when every buffer of the test has been received, *)
(* sent back and acknowledged, and not before (picow_tcp_client.c 100-106).*)
SuccessMeansAll == status = "success" /\ ~uninvited => acked = BUF_SIZE * TEST_ITERATIONS

(* No callback is registered once the state is freed: complete is set      *)
(* before the callbacks are taken off, but the loop cannot come between    *)
(* (picow_tcp_client.c 66-72, 91-92, 222-239).                             *)
StateOutlivesCallbacks == pc = "end" => tcp_pcb # "live"
=============================================================================
