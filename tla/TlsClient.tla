----------------------------- MODULE TlsClient -----------------------------
(***************************************************************************)
(* run_tls_client_test of src/wifi/tls_client/tls_common.c: look the       *)
(* server's name up, connect, write one request, wait for the connection's *)
(* end.  Each callback is one step; the loop waits for state->complete and *)
(* then reads state->error and frees the state.                            *)
(***************************************************************************)
EXTENDS Naturals

VARIABLES
  pc,          \* run_tls_client_test: "open", "wait", "end", "fault"
  pcb,         \* "none", "new" with our callbacks, "live": connecting or connected, "closed"
  complete,
  error,       \* "none", "timeout", "generic"
  result,      \* what the test has returned: "none", "true", "false"
  fate         \* history: what ended the connection, "none" before

vars == <<pc, pcb, complete, error, result, fate>>

Init ==
  /\ pc = "open" /\ pcb = "none" /\ complete = FALSE
  /\ error = "none" /\ result = "none" /\ fate = "none"

-----------------------------------------------------------------------------
(* tls_client_close: complete first, then every callback off the pcb.      *)
tls_client_close == complete' = TRUE /\ pcb' = "closed"

(* tls_client_connect_to_server_ip, which altcp_connect may refuse at once.*)
tls_client_connect_to_server_ip ==
  \/ pcb' = "live" /\ UNCHANGED <<complete, fate>>
  \/ tls_client_close /\ fate' = "refused"

(* tls_client_open.  The address may be cached, or looked up.  A lookup    *)
(* that cannot start makes it call tls_client_close on the pcb instead of  *)
(* the state (line 170): the processor faults, or memory of lwIP's is      *)
(* overwritten and the state kept.                                         *)
tls_client_open ==
  /\ pc = "open"
  /\ \/ /\ pc' = "end" /\ result' = "false"
        /\ UNCHANGED <<pcb, complete, fate>>
     \/ /\ pc' = "wait" /\ tls_client_connect_to_server_ip
        /\ UNCHANGED result
     \/ /\ pc' = "wait" /\ pcb' = "new"
        /\ UNCHANGED <<complete, result, fate>>
     \/ /\ pc' \in {"end", "fault"} /\ pcb' = "new" /\ fate' = "no lookup"
        /\ result' = IF pc' = "end" THEN "false" ELSE result
        /\ UNCHANGED complete
  /\ UNCHANGED error

(* tls_client_dns_found, with the address or without one.                  *)
tls_client_dns_found ==
  /\ pc = "wait" /\ pcb = "new"
  /\ \/ tls_client_connect_to_server_ip
     \/ tls_client_close /\ fate' = "not found"
  /\ UNCHANGED <<pc, error, result>>

(* tls_client_connected: the request is written, or refused.               *)
WriteFails ==
  /\ pcb = "live" /\ tls_client_close /\ fate' = "not written"
  /\ UNCHANGED <<pc, error, result>>

(* tls_client_recv without data: the server has closed the connection.     *)
Fin ==
  /\ pcb = "live" /\ tls_client_close /\ fate' = "closed"
  /\ UNCHANGED <<pc, error, result>>

(* mutant: the timeout is not recorded *)
tls_client_poll_NoError ==
  /\ pcb = "live" /\ tls_client_close /\ fate' = "timeout"
  /\ UNCHANGED <<pc, error, result>>

tls_client_poll ==
  /\ pcb = "live" /\ tls_client_close /\ fate' = "timeout"
  /\ error' = "timeout"
  /\ UNCHANGED <<pc, result>>

(* tls_client_err sets complete before error; the loop, which reads them   *)
(* in that order, cannot come between.                                     *)
tls_client_err ==
  /\ pcb = "live" /\ tls_client_close /\ fate' = "error"
  /\ error' = "generic"
  /\ UNCHANGED <<pc, result>>

(* The loop of run_tls_client_test has seen complete.                      *)
Return ==
  /\ pc = "wait" /\ complete /\ pc' = "end"
  /\ result' = IF error = "none" THEN "true" ELSE "false"
  /\ UNCHANGED <<pcb, complete, error, fate>>

Next ==
  \/ tls_client_open \/ tls_client_dns_found \/ Return
  \/ WriteFails \/ Fin \/ tls_client_poll \/ tls_client_err

Spec == Init /\ [][Next]_vars

-----------------------------------------------------------------------------
(* The test returns false when the connection timed out or failed under    *)
(* it, or when it never got as far as a lookup, and true when the server   *)
(* ended it, but just so when the name is not found, the connection is     *)
(* refused at once or the request is not written: a verdict is what        *)
(* ended the connection, through a callback that sets complete before      *)
(* error (tls_common.c 48-77, 203, 223-226).                               *)
VerdictIsFate ==
  pc = "end" => (result = "false" <=> fate \in {"timeout", "error", "no lookup", "none"})
=============================================================================
