---------------------------- MODULE AccessPoint ----------------------------
(***************************************************************************)
(* The access point src/wifi/access_point/picow_access_point.c: main()     *)
(* from its start to its end, the key that ends it, the HTTP server's      *)
(* callbacks, and the DNS server beside them (DnsServer; the DHCP server   *)
(* has a module of its own).                                               *)
(*                                                                         *)
(* The program builds for two architectures.  In "poll" lwIP's callbacks   *)
(* and the key's worker run inside the loop's cyw43_arch_poll only; in     *)
(* "background" they interrupt main() between any two statements.          *)
(*                                                                         *)
(* Lengths are in units: a page is a header and a body of one unit each, a *)
(* redirect is a header alone.                                             *)
(***************************************************************************)
EXTENDS DnsServer

CONSTANTS
  Connections,   \* BOUND: TCP connections at a time
  Queries,       \* BOUND: the DNS queries that are sent; a label's length is a byte
  MaxSegments,   \* BOUND: segments a client sends on each connection
  MaxAborts      \* BOUND: connections that lwIP gives up

ASSUME AccessPointAssumption ==
  /\ IsFiniteSet(Connections)
  /\ MaxSegments \in [Connections -> Nat] /\ MaxAborts \in Nat
  /\ \A query \in Queries : query.labels \in Seq(0..255)

VARIABLES
  arch,            \* "poll" or "background"
  pc,              \* next statement of main
  complete, pending,   \* state->complete; the worker has been set pending
  gw,              \* state->gw is assigned
  dns,             \* "off", "bound", "ready": with d->ip assigned
  server,          \* "none", "listening", "orphan": with its arg NULL, "closed"
  led,
  conn,            \* of each connection with our callbacks: see NewState
  allocated,       \* connection states not freed
  aborts,          \* history: connections that lwIP gave up
  answer           \* history: the last name or redirect: its length, whose address, and when

main    == <<arch, pc, complete, gw, dns, server>>
client  == <<conn, allocated, aborts>>
vars    == <<main, pending, led, client, answer>>

(* What a segment of at most 127 bytes asks for: the path, and a number    *)
(* other than 0 behind "?led=", 0, or no number.                           *)
Params == {"none", "on", "off"}

Requests == [path : {"ledtest", "other", "not GET"}, param : Params]

NoConnection == [want |-> 0]
open == {c \in Connections : conn[c] # NoConnection}

(* mutant: malloc, with what the last connection left *)
NewState_Malloc ==
  [want |-> 0, sent_len |-> 0, left |-> TRUE, gw |-> server = "listening",
   flight |-> 0, segments |-> 0]

(* calloc: nothing is left over in headers.  want is header_len and        *)
(* result_len; flight and segments are the connection's history: units not *)
(* yet acknowledged, and how many segments its client has sent.            *)
NewState ==
  [want |-> 0, sent_len |-> 0, left |-> FALSE, gw |-> server = "listening",
   flight |-> 0, segments |-> 0]

Init ==
  /\ arch \in {"poll", "background"} /\ pc = "enable_ap"
  /\ complete = FALSE /\ pending = FALSE
  /\ gw = FALSE /\ dns = "off" /\ server = "none" /\ led = FALSE
  /\ conn = [c \in Connections |-> NoConnection]
  /\ allocated = 0 /\ aborts = 0
  /\ answer = [size |-> 0, ours |-> TRUE, early |-> FALSE]

-----------------------------------------------------------------------------
(* main(), statement by statement where a callback can come between.  It   *)
(* starts with the worker added and the key's callback set.                *)
Goto(from, to) == pc = from /\ pc' = to

enable_ap_mode ==
  /\ Goto("enable_ap", "gw") /\ UNCHANGED <<arch, complete, gw, dns, server>>

AssignGw ==
  /\ Goto("gw", "dns") /\ gw' = TRUE /\ UNCHANGED <<arch, complete, dns, server>>

(* mutant: the address is not copied *)
dns_server_init_NoCopy ==
  \/ Goto("dns", "dns_ip") /\ dns' = "bound" /\ UNCHANGED <<arch, complete, gw, server>>
  \/ Goto("dns", "tcp_open") /\ UNCHANGED <<arch, complete, gw, dns, server>>
  \/ Goto("dns_ip", "tcp_open") /\ UNCHANGED <<arch, complete, gw, dns, server>>

(* dns_server_init registers its callback and binds before it copies the   *)
(* address; with no pcb, or the port taken, there is no DNS server.        *)
dns_server_init ==
  \/ Goto("dns", "dns_ip") /\ dns' = "bound" /\ UNCHANGED <<arch, complete, gw, server>>
  \/ Goto("dns", "tcp_open") /\ UNCHANGED <<arch, complete, gw, dns, server>>
  \/ Goto("dns_ip", "tcp_open") /\ dns' = "ready" /\ UNCHANGED <<arch, complete, gw, server>>

tcp_server_open ==
  \/ Goto("tcp_open", "reset") /\ server' = "listening" /\ UNCHANGED <<arch, complete, gw, dns>>
  \/ Goto("tcp_open", "end") /\ UNCHANGED <<arch, complete, gw, dns, server>>

(* mutant: complete is set to false on every pass of the loop *)
ResetComplete_EachPass ==
  /\ \/ Goto("reset", "test") \/ Goto("sleep", "test")
  /\ complete' = FALSE /\ UNCHANGED <<arch, gw, dns, server>>

ResetComplete ==
  /\ Goto("reset", "test") /\ complete' = FALSE /\ UNCHANGED <<arch, gw, dns, server>>

Test ==
  /\ Goto("test", IF complete THEN "close" ELSE "sleep")
  /\ UNCHANGED <<arch, complete, gw, dns, server>>

(* cyw43_arch_poll and the wait behind it, or sleep_ms(1000).  A pending   *)
(* worker is served before the sleep is over, once at least.               *)
Sleep ==
  /\ pending => complete
  /\ Goto("sleep", "test") /\ UNCHANGED <<arch, complete, gw, dns, server>>

(* tcp_server_close takes the state from the listening pcb, then closes it.*)
tcp_server_close ==
  \/ Goto("close", "close_pcb") /\ server' = "orphan" /\ UNCHANGED <<arch, complete, gw, dns>>
  \/ Goto("close_pcb", "dns_off") /\ server' = "closed" /\ UNCHANGED <<arch, complete, gw, dns>>

dns_server_deinit ==
  /\ Goto("dns_off", "deinit") /\ dns' = "off" /\ UNCHANGED <<arch, complete, gw, server>>

cyw43_arch_deinit ==
  /\ Goto("deinit", "end") /\ UNCHANGED <<arch, complete, gw, dns, server>>

Main ==
  /\ \/ enable_ap_mode \/ AssignGw \/ dns_server_init \/ tcp_server_open
     \/ ResetComplete \/ Test \/ Sleep
     \/ tcp_server_close \/ dns_server_deinit \/ cyw43_arch_deinit
  /\ UNCHANGED <<pending, led, client, answer>>

-----------------------------------------------------------------------------
(* Whether a callback can run now. *)
Called == IF arch = "poll" THEN pc = "sleep" ELSE pc # "end"

(* key_pressed_func, in the interrupt of the console in both builds.       *)
key_pressed_func ==
  /\ pc # "end" /\ ~pending /\ pending' = TRUE
  /\ UNCHANGED <<main, led, client, answer>>

key_pressed_worker_func ==
  /\ Called /\ pending /\ pending' = FALSE
  /\ complete' = TRUE
  /\ UNCHANGED <<arch, pc, gw, dns, server, led, client, answer>>

-----------------------------------------------------------------------------
(* The callbacks of a connection. *)

(* mutant: the state is not freed *)
tcp_close_client_connection_Leaks(c) ==
  conn' = [conn EXCEPT ![c] = NoConnection] /\ UNCHANGED allocated

(* Every callback off the pcb, tcp_close or else tcp_abort, and the state  *)
(* freed; lwIP still delivers what was written.                            *)
tcp_close_client_connection(c) ==
  conn' = [conn EXCEPT ![c] = NoConnection] /\ allocated' = allocated - 1

(* A connection, or a failed calloc, on which lwIP aborts it.  Once main   *)
(* has taken the state from the listening pcb, gw is an address near 0.    *)
tcp_server_accept(c) ==
  /\ Called /\ server \in {"listening", "orphan"} /\ c \notin open
  /\ conn' = [conn EXCEPT ![c] = NewState] /\ allocated' = allocated + 1
  /\ UNCHANGED <<main, pending, led, aborts, answer>>

(* The segment is copied over the front of headers, with no end of its     *)
(* own.  Unless its request ends within it (sealed), what is read goes on  *)
(* into the bytes behind it, of earlier segments or of the answer written  *)
(* over them: these may complete a path or a method that is cut, bring a   *)
(* '?', a number behind "led=", or more digits for one.                    *)
Found(c, request, sealed) ==
  IF sealed \/ ~conn[c].left THEN {request}
  ELSE {read \in Requests :
          /\ request.path = "ledtest" \/ request.param # "none" => read.path = request.path
          /\ request.param = "on"  => read.param = "on"
          /\ request.param = "off" => read.param # "none"}

(* The connection with one more segment in headers, or the answer to it.   *)
Copied(c) == [conn[c] EXCEPT !.left = TRUE, !.segments = @ + 1]

(* test_server_content: the led after the request. *)
test_server_content(request) ==
  IF request.path = "ledtest" /\ request.param # "none" THEN request.param = "on" ELSE led

(* A segment that does not begin with GET is copied, and no more.          *)
ReceiveOther(c) ==
  /\ conn' = [conn EXCEPT ![c] = Copied(c)]
  /\ UNCHANGED <<led, allocated, answer>>

(* A GET, as it is read: the page, or a redirect with gw; sent_len starts  *)
(* again although an earlier answer may be in flight.                      *)
ReceiveGet(c, read) ==
  LET length == IF read.path = "ledtest" THEN 2 ELSE 1 IN
  /\ led' = test_server_content(read)
  /\ conn' = [conn EXCEPT ![c] = [Copied(c) EXCEPT
                !.want = length, !.sent_len = 0, !.flight = @ + length]]
  /\ answer' = IF read.path = "ledtest" THEN answer
               ELSE [size |-> 0, ours |-> gw /\ conn[c].gw, early |-> FALSE]
  /\ UNCHANGED allocated

(* tcp_write has no memory for the header or for the body.                 *)
WriteFails(c, read) ==
  /\ led' = test_server_content(read)
  /\ tcp_close_client_connection(c)
  /\ UNCHANGED answer

(* tcp_server_recv with data. *)
tcp_server_recv(c, request, sealed) ==
  /\ Called /\ c \in open /\ conn[c].segments < MaxSegments[c]
  /\ \E read \in Found(c, request, sealed) :
       IF read.path = "not GET" THEN ReceiveOther(c)
       ELSE ReceiveGet(c, read) \/ WriteFails(c, read)
  /\ UNCHANGED <<main, pending, aborts>>

(* mutant: closed only by more than was written *)
tcp_server_sent_Strict(c, len) ==
  /\ Called /\ c \in open /\ len =< conn[c].flight
  /\ IF conn[c].sent_len + len > conn[c].want
     THEN tcp_close_client_connection(c)
     ELSE /\ conn' = [conn EXCEPT ![c].sent_len = @ + len, ![c].flight = @ - len]
          /\ UNCHANGED allocated
  /\ UNCHANGED <<main, pending, led, aborts, answer>>

tcp_server_sent(c, len) ==
  /\ Called /\ c \in open /\ len =< conn[c].flight
  /\ IF conn[c].sent_len + len >= conn[c].want
     THEN tcp_close_client_connection(c)
     ELSE /\ conn' = [conn EXCEPT ![c].sent_len = @ + len, ![c].flight = @ - len]
          /\ UNCHANGED allocated
  /\ UNCHANGED <<main, pending, led, aborts, answer>>

(* tcp_server_recv without data, tcp_server_poll after 5 s, and            *)
(* tcp_server_err for a reset all do the same.                             *)
Disconnect(c) ==
  /\ Called /\ c \in open /\ tcp_close_client_connection(c)
  /\ UNCHANGED <<main, pending, led, aborts, answer>>

(* lwIP gives the connection up and reports ERR_ABRT, on which             *)
(* tcp_server_err does nothing: the state is never freed.                  *)
Abort(c) ==
  /\ Called /\ c \in open /\ aborts < MaxAborts
  /\ aborts' = aborts + 1 /\ conn' = [conn EXCEPT ![c] = NoConnection]
  /\ UNCHANGED <<main, pending, led, allocated, answer>>

(* A query to dns_server_process; the pool may be empty.                   *)
dns_server_process(query) ==
  /\ Called /\ dns # "off" /\ ~Refused(query)
  /\ answer' = [size |-> ReplyLength(query), ours |-> dns = "ready", early |-> pc = "dns_ip"]
  /\ UNCHANGED <<main, pending, led, client>>

Callback ==
  \/ key_pressed_worker_func
  \/ \E c \in Connections :
       \/ tcp_server_accept(c) \/ Disconnect(c) \/ Abort(c)
       \/ \E request \in Requests, sealed \in BOOLEAN : tcp_server_recv(c, request, sealed)
       \/ \E len \in 1..(2 * MaxSegments[c]) : tcp_server_sent(c, len)
  \/ \E query \in Queries : dns_server_process(query)

Next == Main \/ key_pressed_func \/ Callback

(* main runs on, and what is pending is worked on. *)
Fairness == WF_vars(Main) /\ WF_vars(key_pressed_worker_func)

Spec == Init /\ [][Next]_vars /\ Fairness

-----------------------------------------------------------------------------
(* The memory of a connection is freed once, by whichever callback ends    *)
(* it, and lost only when lwIP itself gives the connection up              *)
(* (picow_access_point.c 47-66, 205-211).                                  *)
StateOwned == allocated = Cardinality(open) + aborts

(* A connection that has been answered has part of the answer on its way,  *)
(* or is closed: no acknowledgement is ever missed for good, also when a   *)
(* second GET set sent_len to 0 under the first one's acknowledgements     *)
(* (picow_access_point.c 76-85, 178).                                      *)
AnsweredOrClosed == \A c \in open : conn[c].want > 0 => conn[c].flight > 0

(* The led does just what a request asks for that comes in the first       *)
(* segment of its connection, or in any segment that its request does not  *)
(* run out of: nothing of another connection, before or beside it, is read *)
(* with it.  A later segment cut after "?led=" changes the led although    *)
(* its client has sent no number, against "See if the user changed it"     *)
(* (picow_access_point.c 94-104, 131-148, 219).                            *)
LedAsAsked ==
  [][\A c \in open, request \in Requests, sealed \in BOOLEAN :
       (sealed \/ conn[c].segments = 0) /\ tcp_server_recv(c, request, sealed) =>
         led' = IF request.path = "ledtest" /\ request.param # "none"
                THEN request.param = "on" ELSE led]_vars

(* Whoever asks is told the access point's own address; in the polled      *)
(* build always, in the background build but for a name asked for before   *)
(* dns_server_init has copied the address, and for a redirect to a client  *)
(* that came while the server was closing (dnsserver.c 221-229;            *)
(* picow_access_point.c 68-74, 224).                                       *)
AddressIsOurs ==
  ~answer.ours => arch = "background" /\ (answer.early \/ server \in {"orphan", "closed"})

(* A reply fits the buffer it is written into, for the longest name that   *)
(* is let through (dnsserver.c 168-206).                                   *)
AnswerFits == answer.size =< MAX_DNS_MSG_SIZE

(* The key ends the program: in the polled build whenever it is pressed,   *)
(* in the background build once the loop has begun; before that its worker *)
(* may set complete and main set it back (picow_access_point.c 278-283,    *)
(* 311, 339-340).                                                          *)
KeyEnds == pending /\ (arch = "poll" \/ pc \in {"test", "sleep"}) ~> pc = "end"
=============================================================================
