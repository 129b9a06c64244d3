------------------------------ MODULE Clients ------------------------------
(***************************************************************************)
(* The three client programs, of which the board runs one: the echo test   *)
(* (TcpClient), the sender (TcpSender), the TLS test (TlsClient).  They    *)
(* share their variables' names, and a way to end.                         *)
(***************************************************************************)
EXTENDS TcpClient

CONSTANTS MESSAGE, TCP_SND_BUF

VARIABLES
  image,                  \* the program the board was flashed with
  arch, flight, nulled,   \* TcpSender
  error, result, fate     \* TlsClient

ofEcho   == <<buffer, received, written, uninvited>>
ofSender == <<arch, flight, nulled>>
ofTls    == <<error, result, fate>>
ofTcp    == <<sent_len, run_count, connected, status, acked>>
all      == <<vars, image, ofSender, ofTls>>

Sender == INSTANCE TcpSender
Tls    == INSTANCE TlsClient WITH pcb <- tcp_pcb

ClientsInit ==
  /\ image \in {"echo", "sender", "tls"}
  /\ Init /\ Sender!Init /\ Tls!Init
  /\ image # "sender" => arch = "background"

EchoStep   == image = "echo" /\ Next /\ UNCHANGED <<image, ofSender, ofTls>>
SenderStep == image = "sender" /\ Sender!Next /\ UNCHANGED <<image, ofEcho, ofTls>>
TlsStep    == image = "tls" /\ Tls!Next /\ UNCHANGED <<image, ofEcho, ofSender, ofTcp>>

ClientsNext == EchoStep \/ SenderStep \/ TlsStep

(* The loops run, and their sleeps end; a message that is due is written,  *)
(* not put off for ever; lwIP's poll timer runs on a pcb that has a poll   *)
(* callback; a lookup has an end.  No server owes an answer.               *)
ClientsFairness ==
  /\ WF_all(EchoStep /\ (tcp_client_open \/ Free))
  /\ WF_all(EchoStep /\ tcp_client_poll)
  /\ WF_all(SenderStep /\ Sender!Loop)
  /\ SF_all(SenderStep /\ (Sender!WriteMessage \/ Sender!WriteFails))
  /\ WF_all(TlsStep /\ (Tls!tls_client_open \/ Tls!Return))
  /\ WF_all(TlsStep /\ Tls!tls_client_dns_found)
  /\ WF_all(TlsStep /\ Tls!tls_client_poll)

ClientsSpec == ClientsInit /\ [][ClientsNext]_all /\ ClientsFairness

-----------------------------------------------------------------------------
(* "test success" is backed by what the server has received and, in the    *)
(* echo test, sent, however its segments and acknowledgements are cut      *)
(* (picow_tcp_client.c 95-115; picow_tcp_server.c 63-77).                  *)
SuccessIsBacked ==
  /\ image = "echo" => SuccessMeansAll
  /\ image = "sender" => Sender!SuccessMeansAll

(* The sender's verdict stands, but for a write that was already due when  *)
(* the test ended, and, in the background build, for the last              *)
(* acknowledgement in the midst of a failure (picow_tcp_server.c 36-38,    *)
(* 52-60, 148-162).                                                        *)
SenderVerdictStands == [][image = "sender" => Sender!KeepsVerdict]_all

(* The TLS test's verdict is what ended its connection (tls_common.c       *)
(* 65-77, 223-226).                                                        *)
VerdictIsFate == image = "tls" => Tls!VerdictIsFate

(* Every test ends, whatever the server does or does not do: the echo and  *)
(* the TLS test by their poll callback, the sender, which has none,        *)
(* because what is not acknowledged fills lwIP's send buffer and what is   *)
(* brings success nearer.  Excepted are the sender whose connection lwIP   *)
(* has freed, and a processor that has faulted (picow_tcp_client.c         *)
(* 128-131, 222; picow_tcp_server.c 148-170; tls_common.c 65-70, 206).     *)
EveryTestEnds == <>(pc \in {"end", "fault"} \/ tcp_pcb = "lost")
=============================================================================
