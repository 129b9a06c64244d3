----------------------------- MODULE TcpSender -----------------------------
(***************************************************************************)
(* The sender src/wifi/tcp_server/picow_tcp_server.c (a client, whatever   *)
(* its name): a loop writes a message about once a second, lwIP's          *)
(* callbacks count what the server acknowledges, and the test is over      *)
(* after TEST_ITERATIONS times BUF_SIZE of it.                             *)
(*                                                                         *)
(* Two actors: the loop, and the callbacks, each of which runs in one      *)
(* step.  The program builds for two architectures.  In "poll" the         *)
(* callbacks come during the loop's sleep only.  In "background" they      *)
(* interrupt it between any two statements, and the loop takes no lock:    *)
(* not to write, and not to tell the verdict and close the connection when *)
(* the write is refused; it is cut at each of these statements.            *)
(*                                                                         *)
(* There is no error callback and no poll: a connection that is reset,     *)
(* refused or given up by lwIP leaves the program with a pcb that lwIP has *)
(* freed.                                                                  *)
(***************************************************************************)
EXTENDS Naturals

CONSTANTS
  BUF_SIZE,          \* units in a buffer
  TEST_ITERATIONS,   \* buffers in the test
  MESSAGE,           \* units in MESSAGE_TEXT
  TCP_SND_BUF        \* units lwIP holds for the server at most

VARIABLES
  arch,              \* "poll" or "background"
  pc,                \* next statement of run_tcp_client_test and what it calls
  tcp_pcb,           \* "none", "live" with our callbacks, "closed", "lost": freed by lwIP
  sent_len, run_count, complete, connected,
  status,            \* what tcp_result was told last, "none" before
  flight,            \* units written and not yet acknowledged
  acked,             \* units the server has acknowledged
  nulled             \* history: a callback has been given NULL for the state

test == <<sent_len, run_count, complete, connected, status>>
wire == <<flight, acked, nulled>>
vars == <<arch, pc, tcp_pcb, test, wire>>

Init ==
  /\ arch \in {"poll", "background"} /\ pc = "open" /\ tcp_pcb = "none"
  /\ sent_len = 0 /\ run_count = 0 /\ complete = FALSE /\ connected = FALSE
  /\ status = "none" /\ flight = 0 /\ acked = 0 /\ nulled = FALSE

-----------------------------------------------------------------------------
(* mutant: the callbacks stay on the pcb *)
tcp_result_KeepsCallbacks(result) ==
  complete' = TRUE /\ status' = result /\ UNCHANGED tcp_pcb

(* tcp_result and tcp_client_close as a callback runs them, which nothing  *)
(* interrupts, or the loop before there is a connection: no callback is    *)
(* left on the pcb, and state->tcp_pcb is NULL.                            *)
tcp_result(result) ==
  /\ complete' = TRUE /\ status' = result
  /\ tcp_pcb' = IF tcp_pcb = "none" THEN "none" ELSE "closed"

(* There may be no pcb, or no way to the server; the state is then kept.   *)
tcp_client_open ==
  /\ pc = "open"
  /\ \/ /\ pc' = "test" /\ tcp_pcb' = "live"
        /\ UNCHANGED <<complete, status>>
     \/ pc' = "end" /\ tcp_result("failed")
     \/ /\ pc' = "end" /\ tcp_pcb' = "closed"
        /\ complete' = TRUE /\ status' = "failed"
  /\ UNCHANGED <<arch, sent_len, run_count, connected, wire>>

(* A statement of the loop that changes nothing a callback looks at.       *)
Goto(from, to) == pc = from /\ pc' = to /\ UNCHANGED <<arch, tcp_pcb, test, wire>>

(* while (!state->complete), and free(state) behind it.                    *)
Test == Goto("test", IF complete THEN "end" ELSE "sleep")

(* The interval since last_message_time is not over: the connection has    *)
(* just been made, or the polled build's wait was cut short by work.       *)
Skip == Goto("sleep", "test")

(* tcp_write after the sleep, on whatever state->tcp_pcb is by then, also  *)
(* before the connection is made.  A closed pcb is NULL, which it refuses; *)
(* a lost one is freed memory, which it may take for a connection.         *)
WriteMessage ==
  /\ pc = "sleep" /\ pc' = "output"
  /\ \/ tcp_pcb = "live" /\ flight + MESSAGE =< TCP_SND_BUF /\ flight' = flight + MESSAGE
     \/ tcp_pcb = "lost" /\ UNCHANGED flight
  /\ UNCHANGED <<arch, tcp_pcb, test, acked, nulled>>

(* tcp_output reads state->tcp_pcb again.  When it has become NULL, lwIP's *)
(* assertion stops the program where it is compiled in.                    *)
Output ==
  \/ Goto("output", "test")
  \/ tcp_pcb = "closed" /\ Goto("output", "fault")

(* The message is refused, or there is no memory for it.                   *)
WriteFails == Goto("sleep", "result")

(* tcp_result as the loop calls it then: "test failed" ...                 *)
SayFailed ==
  /\ pc = "result" /\ pc' = "complete" /\ status' = "failed"
  /\ UNCHANGED <<arch, tcp_pcb, sent_len, run_count, complete, connected, wire>>

(* ... complete ...                                                        *)
SetComplete ==
  /\ pc = "complete" /\ pc' = "arg" /\ complete' = TRUE
  /\ UNCHANGED <<arch, tcp_pcb, sent_len, run_count, connected, status, wire>>

(* ... and tcp_client_close: the arg first, then the callbacks one by one  *)
(* off whatever pcb is there, and the connection; the state is kept.       *)
tcp_client_close ==
  \/ Goto("arg", IF tcp_pcb = "closed" THEN "end" ELSE "sent")
  \/ Goto("sent", "recv") \/ Goto("recv", "close")
  \/ /\ pc = "close" /\ pc' = "end" /\ tcp_pcb' = "closed"
     /\ UNCHANGED <<arch, test, wire>>

-----------------------------------------------------------------------------
(* Whether lwIP calls back now, and with the state.                        *)
Called == tcp_pcb = "live" /\ ((arch = "background" /\ pc # "fault") \/ pc = "sleep")
WithState == Called /\ pc \notin {"sent", "recv", "close"}

(* The callbacks.  lwIP reports no failure to tcp_client_connected.        *)
tcp_client_connected ==
  /\ WithState /\ ~connected /\ connected' = TRUE
  /\ UNCHANGED <<arch, pc, tcp_pcb, sent_len, run_count, complete, status, wire>>

(* mutant: what is acknowledged beyond a buffer counts for another one *)
tcp_client_sent_Counts(len) ==
  /\ WithState /\ connected /\ len =< flight
  /\ flight' = flight - len /\ acked' = acked + len
  /\ sent_len' = sent_len + len
  /\ run_count' = IF sent_len' >= BUF_SIZE THEN run_count + 1 ELSE run_count
  /\ IF run_count' >= TEST_ITERATIONS THEN tcp_result("success")
                                      ELSE UNCHANGED <<tcp_pcb, complete, status>>
  /\ UNCHANGED <<arch, pc, connected, nulled>>

(* What is acknowledged beyond a full buffer is forgotten with it.         *)
tcp_client_sent(len) ==
  /\ WithState /\ connected /\ len =< flight
  /\ flight' = flight - len /\ acked' = acked + len
  /\ \/ /\ sent_len + len < BUF_SIZE /\ sent_len' = sent_len + len
        /\ UNCHANGED <<tcp_pcb, run_count, complete, status>>
     \/ /\ sent_len + len >= BUF_SIZE /\ run_count' = run_count + 1
        /\ IF run_count' >= TEST_ITERATIONS
           THEN sent_len' = sent_len + len /\ tcp_result("success")
           ELSE sent_len' = 0 /\ UNCHANGED <<tcp_pcb, complete, status>>
  /\ UNCHANGED <<arch, pc, connected, nulled>>

(* tcp_client_recv without data: the server has closed the connection.     *)
(* With data it changes nothing.                                           *)
Fin ==
  /\ WithState /\ connected /\ tcp_result("failed")
  /\ UNCHANGED <<arch, pc, sent_len, run_count, connected, wire>>

(* A callback that is still on the pcb when its arg is NULL already writes *)
(* to address 0, where the memory is read-only: the processor faults, or   *)
(* it goes on with what it reads there.  Then an acknowledgement may be    *)
(* taken for the last one; the server's end says "test failed" once more.  *)
NullState(len) ==
  /\ Called /\ ~WithState /\ nulled' = TRUE
  /\ \/ /\ pc = "sent" /\ len =< flight
        /\ flight' = flight - len /\ acked' = acked + len
        /\ \/ pc' = "fault" /\ UNCHANGED status
           \/ status' \in {status, "success"} /\ UNCHANGED pc
     \/ /\ ~connected \/ pc # "close"
        /\ pc' \in {pc, "fault"} /\ UNCHANGED <<flight, acked, status>>
  /\ UNCHANGED <<arch, tcp_pcb, sent_len, run_count, complete, connected>>

(* A reset, a refusal or lwIP's last retry: nobody is told.                *)
Lose ==
  /\ Called /\ tcp_pcb' = "lost"
  /\ UNCHANGED <<arch, pc, test, wire>>

Loop ==
  \/ tcp_client_open \/ Test \/ Skip \/ WriteMessage \/ Output
  \/ WriteFails \/ SayFailed \/ SetComplete \/ tcp_client_close

Next ==
  \/ Loop
  \/ tcp_client_connected \/ Fin \/ Lose
  \/ \E len \in 1..TCP_SND_BUF : tcp_client_sent(len) \/ NullState(len)

Spec == Init /\ [][Next]_vars

-----------------------------------------------------------------------------
(* "test success" is said only after the server has acknowledged every     *)
(* buffer of the test, however the acknowledgements are cut                *)
(* (picow_tcp_server.c 63-77); but for a callback that has no state.       *)
SuccessMeansAll == status = "success" /\ ~nulled => acked >= BUF_SIZE * TEST_ITERATIONS

(* What tcp_result has said stands, but for two cases.  "test failed"      *)
(* follows "test success" when the loop had tested complete before a       *)
(* callback ended the test, and its write then fails on the pcb that is    *)
(* gone.  "test success" follows "test failed" in the background build     *)
(* only, when the last acknowledgement comes while the loop, which has     *)
(* just said so, has not yet taken tcp_client_sent off the pcb             *)
(* (picow_tcp_server.c 36-38, 52-60, 148, 158-162).                        *)
KeepsVerdict ==
  status # "none" /\ status' # status =>
    IF status = "success" THEN pc = "result"
    ELSE arch = "background" /\ pc \in {"complete", "arg", "sent"}
=============================================================================
