----------------------------- MODULE Telemetry -----------------------------
(***************************************************************************)
(* The telemetry server, src/buddy1/buddy1.c: lwIP callbacks around one    *)
(* client_pcb.  A command from any client is parsed into telemetry_data    *)
(* and sent on to the client accepted last.                                *)
(*                                                                         *)
(* After tcp_server_open the program only sleeps; lwIP runs one callback   *)
(* at a time, so each is one action.  The clients and lwIP's side of each  *)
(* connection are the environment.                                         *)
(***************************************************************************)
EXTENDS TelemetryFormat, FiniteSets, Functions

CONSTANTS
  Clients,      \* connections; a client that connects again is another one
  NoClient,     \* the NULL client_pcb
  Commands,     \* what a client may send
  MaxSent,      \* BOUND: commands the clients send
  MaxPcbs       \* connections lwIP has room for, MEMP_NUM_TCP_PCB

ASSUME ServerAssumption ==
  /\ NoClient \notin Clients
  /\ MaxSent \in Nat /\ MaxPcbs \in Nat \ {0}

VARIABLES
  client_pcb,
  conn,         \* lwIP's pcb of each connection
  peer,         \* the client's side of it
  toServer,     \* commands on their way
  toClient,     \* every reply written to the connection
  handled,      \* history: the commands received from each client, as the server read them
  sent,         \* commands sent so far
  overlapped,   \* history: a client has connected while another was
  lost          \* history: a connection has been reset

connections == <<conn, peer, toServer, sent>>
history == <<overlapped, lost>>
vars == <<client_pcb, telemetry_data, connections, toClient, handled, history>>

(* "listening" is no pcb yet; "halfopen" has had its FIN and waits for a   *)
(* tcp_close; "closing" is closed here and may still get a FIN.            *)
States == {"listening", "open", "halfopen", "closing", "freed"}

TypeOK ==
  /\ client_pcb \in Clients \cup {NoClient}
  /\ DOMAIN telemetry_data = {"direction", "speed"} /\ telemetry_data.speed \in Nat
  /\ conn \in [Clients -> States]
  /\ peer \in [Clients -> {"idle", "connected", "finished"}]
  /\ DOMAIN toServer = Clients /\ DOMAIN toClient = Clients /\ DOMAIN handled = Clients
  /\ sent \in 0..MaxSent
  /\ overlapped \in BOOLEAN /\ lost \in BOOLEAN

Init ==
  /\ client_pcb = NoClient
  /\ telemetry_data = [direction |-> <<>>, speed |-> 0]
  /\ conn = [c \in Clients |-> "listening"]
  /\ peer = [c \in Clients |-> "idle"]
  /\ toServer = [c \in Clients |-> <<>>]
  /\ toClient = [c \in Clients |-> <<>>]
  /\ handled = [c \in Clients |-> <<>>]
  /\ sent = 0
  /\ overlapped = FALSE /\ lost = FALSE

-----------------------------------------------------------------------------
(* The environment: the clients.                                           *)
Send(c) ==
  /\ peer[c] = "connected" /\ sent < MaxSent
  /\ \E command \in Commands : toServer' = [toServer EXCEPT ![c] = Append(@, command)]
  /\ sent' = sent + 1
  /\ UNCHANGED <<client_pcb, telemetry_data, conn, peer, toClient, handled, history>>

Disconnect(c) ==
  /\ peer[c] = "connected"
  /\ peer' = [peer EXCEPT ![c] = "finished"]
  /\ UNCHANGED <<client_pcb, telemetry_data, conn, toServer, sent, toClient, handled, history>>

(* Data for a pcb already closed is refused with a reset.                  *)
Refuse(c) ==
  /\ conn[c] \in {"closing", "freed"} /\ toServer[c] # <<>>
  /\ conn' = [conn EXCEPT ![c] = "freed"]
  /\ peer' = [peer EXCEPT ![c] = "finished"]
  /\ toServer' = [toServer EXCEPT ![c] = <<>>]
  /\ UNCHANGED <<client_pcb, telemetry_data, sent, toClient, handled, history>>

(* A reset frees the pcb; no tcp_err callback is registered to tell.       *)
Reset(c) ==
  /\ conn[c] \in {"open", "halfopen", "closing"}
  /\ conn' = [conn EXCEPT ![c] = "freed"]
  /\ peer' = [peer EXCEPT ![c] = "finished"]
  /\ toServer' = [toServer EXCEPT ![c] = <<>>]
  /\ lost' = TRUE
  /\ UNCHANGED <<client_pcb, telemetry_data, sent, toClient, handled, overlapped>>

-----------------------------------------------------------------------------
Pcbs == {c \in Clients : conn[c] \in {"open", "halfopen", "closing"}}

(* mutant: the closed pcb is kept *)
tcp_server_close_Kept(pcbs, state) ==
  /\ conn' = IF client_pcb = NoClient THEN pcbs
             ELSE [pcbs EXCEPT ![client_pcb] = IF @ = "freed" THEN @ ELSE state]
  /\ client_pcb' = client_pcb

(* tcp_server_close: the pcb that is closed is client_pcb, whichever       *)
(* connection the callback was about.  pcbs is what the callback's cause   *)
(* made of the connections, state what lwIP makes of the closed one, if it *)
(* is still there.                                                         *)
tcp_server_close(pcbs, state) ==
  /\ conn' = IF client_pcb = NoClient THEN pcbs
             ELSE [pcbs EXCEPT ![client_pcb] = IF @ = "freed" THEN @ ELSE state]
  /\ client_pcb' = NoClient

(* mutant: only the first client becomes the target *)
tcp_server_accept_Once(c) ==
  /\ conn[c] = "listening" /\ Cardinality(Pcbs) < MaxPcbs
  /\ conn' = [conn EXCEPT ![c] = "open"]
  /\ peer' = [peer EXCEPT ![c] = "connected"]
  /\ overlapped' = (overlapped \/ Pcbs # {})
  /\ client_pcb' = IF \A d \in Clients : conn[d] = "listening" THEN c ELSE client_pcb
  /\ UNCHANGED <<telemetry_data, toServer, sent, toClient, handled, lost>>

(* tcp_server_accept: the connection accepted last is the one answered.    *)
tcp_server_accept(c) ==
  /\ conn[c] = "listening" /\ Cardinality(Pcbs) < MaxPcbs
  /\ conn' = [conn EXCEPT ![c] = "open"]
  /\ peer' = [peer EXCEPT ![c] = "connected"]
  /\ overlapped' = (overlapped \/ Pcbs # {})
  /\ client_pcb' = c
  /\ UNCHANGED <<telemetry_data, toServer, sent, toClient, handled, lost>>

(* tcp_server_accept with an error: lwIP has no room for one more.         *)
AcceptFails ==
  /\ \E c \in Clients : conn[c] = "listening"
  /\ Cardinality(Pcbs) >= MaxPcbs /\ client_pcb # NoClient
  /\ tcp_server_close(conn, "closing")
  /\ UNCHANGED <<telemetry_data, peer, toServer, sent, toClient, handled, history>>

(* send_data_to_target during a callback for c.  tcp_write may fail; the   *)
(* target is then closed, which frees it at once when its own data is      *)
(* still unread.  A write to a freed pcb is lost.                          *)
send_data_to_target(c, reply) ==
  \/ /\ client_pcb = NoClient
     /\ UNCHANGED <<client_pcb, conn, toClient>>
  \/ /\ client_pcb # NoClient
     /\ toClient' = IF conn[client_pcb] = "freed" THEN toClient
                    ELSE [toClient EXCEPT ![client_pcb] = Append(@, reply)]
     /\ UNCHANGED <<client_pcb, conn>>
  \/ /\ client_pcb # NoClient
     /\ tcp_server_close(conn, IF client_pcb = c THEN "freed" ELSE "closing")
     /\ UNCHANGED toClient

Receive(c, text, rest) ==
  /\ telemetry_data' = Parse(text)
  /\ send_data_to_target(c, Parse(text))
  /\ toServer' = [toServer EXCEPT ![c] = rest]
  /\ handled' = [handled EXCEPT ![c] = Append(@, text)]
  /\ UNCHANGED <<peer, sent, history>>

(* tcp_server_recv with data: lwIP hands over one command, or two that     *)
(* came in one segment.                                                    *)
ReceiveData(c) ==
  /\ conn[c] = "open" /\ toServer[c] # <<>>
  /\ \/ Receive(c, Head(toServer[c]), Tail(toServer[c]))
     \/ /\ Len(toServer[c]) > 1
        /\ Receive(c, Join(toServer[c][1], toServer[c][2]), Tail(Tail(toServer[c])))

(* mutant: a disconnection is logged only *)
ReceiveFin_LogOnly(c) ==
  /\ peer[c] = "finished" /\ toServer[c] = <<>>
  /\ conn[c] \in {"open", "closing"}
  /\ conn' = [conn EXCEPT ![c] = IF @ = "open" THEN "halfopen" ELSE "freed"]
  /\ UNCHANGED <<client_pcb, telemetry_data, peer, toServer, sent, toClient, handled, history>>

(* tcp_server_recv with p == NULL.  The callback is never taken off a pcb, *)
(* so the FIN of one closed earlier arrives here too.                      *)
ReceiveFin(c) ==
  /\ peer[c] = "finished" /\ toServer[c] = <<>>
  /\ conn[c] \in {"open", "closing"}
  /\ tcp_server_close([conn EXCEPT ![c] = IF @ = "open" THEN "halfopen" ELSE "freed"],
                      IF client_pcb = c THEN "freed" ELSE "closing")
  /\ UNCHANGED <<telemetry_data, peer, toServer, sent, toClient, handled, history>>

Stack(c) == ReceiveData(c) \/ ReceiveFin(c) \/ Refuse(c)

Next ==
  \/ \E c \in Clients : \/ Send(c) \/ Disconnect(c) \/ Reset(c)
                        \/ tcp_server_accept(c) \/ Stack(c)
  \/ AcceptFails

(* lwIP delivers what has arrived; the clients owe nothing.                *)
Spec == Init /\ [][Next]_vars /\ \A c \in Clients : WF_vars(Stack(c))

-----------------------------------------------------------------------------
(* "Send parsed data to the connected client" (buddy1.c 66): whoever is to *)
(* be answered has a connection that takes data, whatever closed the       *)
(* others and in whatever order (buddy1.c 56-64, 84, 94, 167, 174).  A     *)
(* connection that is reset is reported to no callback (179): the target   *)
(* may then be a pcb that is gone.                                         *)
TargetConnected == ~lost /\ client_pcb # NoClient => conn[client_pcb] = "open"

(* As long as a client is connected, it has been answered every command    *)
(* the server read from it, in order.  Clients that come one at a time are *)
(* served so; once two overlap, all answers go to the one accepted last    *)
(* (buddy1.c 67-87, 174).                                                  *)
AnsweredInOrder ==
  ~overlapped => \A c \in Clients : conn[c] = "open" =>
    toClient[c] = [i \in DOMAIN handled[c] |-> Parse(handled[c][i])]

(* "Close server connection if client disconnects" (buddy1.c 93): a client *)
(* that leaves has its connection closed and its pcb freed, unless two     *)
(* overlap: the connection closed is then the one accepted last, which is  *)
(* not always the one that left.                                           *)
ConnectionFreed ==
  \A c \in Clients : peer[c] = "finished" /\ ~overlapped ~> conn[c] = "freed" \/ overlapped
=============================================================================
