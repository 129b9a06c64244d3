------------------------- MODULE AccessPoint_proofs -------------------------
(***************************************************************************)
(* The access point: who owns the memory of a connection, whose address    *)
(* its clients are told, what the led obeys and which answers arrive and   *)
(* fit, for any number of connections, segments and aborts, and any        *)
(* queries.  Then its DHCP server, which has a specification of its own.   *)
(***************************************************************************)
EXTENDS AccessPoint, DhcpServer, FiniteSetTheorems, NaturalsInduction,
        SequenceTheorems, WellFoundedInduction, TLAPS

States ==
  [want : Nat, sent_len : Int, left : BOOLEAN, gw : BOOLEAN,
   flight : Int, segments : Nat]

(* What a connection is made of; enough to tell one from none.             *)
ConnectionsOK ==
  /\ conn \in [Connections -> States \cup {NoConnection}]
  /\ allocated \in Int /\ aborts \in Nat

LEMMA NoneIsNoState == NoConnection \notin States
<1> SUFFICES ASSUME NoConnection \in States PROVE FALSE
  OBVIOUS
<1>1. "gw" \in DOMAIN NoConnection
  BY DEF States
<1>2. DOMAIN NoConnection = {"want"}
  BY DEF NoConnection
<1> QED
  BY <1>1, <1>2

LEMMA OpenIsFinite == IsFiniteSet(open)
<1>1. open \subseteq Connections
  BY DEF open
<1> QED
  BY <1>1, AccessPointAssumption, FS_Subset

LEMMA NewIsState == NewState \in States
BY DEF NewState, States

(* The three ways a connection's record changes.                           *)
LEMMA CopiedIsState ==
  ASSUME NEW c, conn[c] \in States
  PROVE  Copied(c) \in States
<1> DEFINE segments == conn[c].segments + 1
<1>1. segments \in Nat
  BY DEF States
<1>2. Copied(c) = [conn[c] EXCEPT !.left = TRUE, !.segments = segments]
  BY DEF Copied
<1> HIDE DEF segments
<1> QED
  BY <1>1, <1>2 DEF States

LEMMA SizedIsState ==
  ASSUME NEW s \in States, NEW length \in Nat, NEW sent \in Int
  PROVE  [s EXCEPT !.want = length, !.sent_len = sent] \in States
BY DEF States

LEMMA AnsweredIsState ==
  ASSUME NEW s \in States, NEW length \in Nat
  PROVE  [s EXCEPT !.want = length, !.sent_len = 0, !.flight = @ + length] \in States
<1> DEFINE flight == s.flight + length
           sized  == [s EXCEPT !.want = length, !.sent_len = 0]
<1>1. flight \in Int
  BY DEF States
<1>2. [s EXCEPT !.want = length, !.sent_len = 0, !.flight = flight] =
        [sized EXCEPT !.flight = flight]
  <2> HIDE DEF flight
  <2> QED
    OBVIOUS
<1>3. sized \in States
  <2>1. 0 \in Int
    OBVIOUS
  <2> QED
    BY <2>1, SizedIsState, Zenon
<1> HIDE DEF flight, sized
<1>4. [sized EXCEPT !.flight = flight] \in States
  BY <1>1, <1>3 DEF States
<1>5. [s EXCEPT !.want = length, !.sent_len = 0, !.flight = flight] \in States
  BY <1>2, <1>4
<1> QED
  BY <1>5 DEF flight

LEMMA AckedIsState ==
  ASSUME NEW s \in States, NEW len \in Nat
  PROVE  [s EXCEPT !.sent_len = @ + len, !.flight = @ - len] \in States
<1> DEFINE sent   == s.sent_len + len
           flight == s.flight - len
<1>1. sent \in Int /\ flight \in Int
  BY DEF States
<1> HIDE DEF sent, flight
<1>2. [s EXCEPT !.sent_len = sent, !.flight = flight] \in States
  BY <1>1 DEF States
<1> QED
  BY <1>2 DEF sent, flight

(* A step that leaves the connections, their memory and the count of       *)
(* aborts alone.                                                           *)
LEMMA Untouched ==
  ASSUME ConnectionsOK, StateOwned, UNCHANGED client
  PROVE  ConnectionsOK' /\ StateOwned'
BY DEF ConnectionsOK, StateOwned, client, open

(* A connection that goes on in another state.                             *)
LEMMA GoesOn ==
  ASSUME ConnectionsOK, StateOwned, NEW c \in open, NEW s \in States,
         conn' = [conn EXCEPT ![c] = s], UNCHANGED <<allocated, aborts>>
  PROVE  ConnectionsOK' /\ StateOwned'
<1>1. ConnectionsOK'
  BY DEF ConnectionsOK, open
<1>2. open' = open
  BY NoneIsNoState DEF ConnectionsOK, open
<1> QED
  BY <1>1, <1>2 DEF StateOwned

(* A connection that is taken from the open ones.                          *)
LEMMA Closes ==
  ASSUME ConnectionsOK, NEW c \in open, conn' = [conn EXCEPT ![c] = NoConnection]
  PROVE  /\ conn' \in [Connections -> States \cup {NoConnection}]
         /\ Cardinality(open') = Cardinality(open) - 1
         /\ Cardinality(open) \in Nat
<1>1. open' = open \ {c}
  BY DEF ConnectionsOK, open
<1>2. Cardinality(open \ {c}) = Cardinality(open) - 1 /\ Cardinality(open) \in Nat
  BY OpenIsFinite, FS_RemoveElement, FS_CardinalityType
<1> QED
  BY <1>1, <1>2 DEF ConnectionsOK, open

LEMMA CloseFrees ==
  ASSUME ConnectionsOK, StateOwned, NEW c \in open, tcp_close_client_connection(c),
         UNCHANGED aborts
  PROVE  ConnectionsOK' /\ StateOwned'
<1>1. conn' = [conn EXCEPT ![c] = NoConnection] /\ allocated' = allocated - 1
  BY DEF tcp_close_client_connection
<1>2. /\ conn' \in [Connections -> States \cup {NoConnection}]
      /\ Cardinality(open') = Cardinality(open) - 1 /\ Cardinality(open) \in Nat
  BY <1>1, Closes
<1> QED
  BY <1>1, <1>2 DEF ConnectionsOK, StateOwned

LEMMA Stays ==
  ASSUME ConnectionsOK, StateOwned, [Next]_vars
  PROVE  ConnectionsOK' /\ StateOwned'
<1>1. CASE UNCHANGED client
  BY <1>1, Untouched
<1>2. ASSUME NEW c \in Connections, tcp_server_accept(c)
      PROVE  ConnectionsOK' /\ StateOwned'
  <2>1. NewState \in States
    BY NewIsState
  <2>2. /\ conn' = [conn EXCEPT ![c] = NewState] /\ allocated' = allocated + 1
        /\ aborts' = aborts /\ c \notin open
    BY <1>2 DEF tcp_server_accept
  <2>3. ConnectionsOK'
    BY <2>1, <2>2 DEF ConnectionsOK
  <2>4. open' = open \cup {c}
    BY <2>1, <2>2, NoneIsNoState DEF ConnectionsOK, open
  <2>5. Cardinality(open') = Cardinality(open) + 1
    BY <2>2, <2>4, OpenIsFinite, FS_AddElement
  <2>6. Cardinality(open) \in Nat
    BY OpenIsFinite, FS_CardinalityType
  <2> QED
    BY <2>2, <2>3, <2>5, <2>6 DEF StateOwned, ConnectionsOK
<1>3. ASSUME NEW c \in Connections, Disconnect(c)
      PROVE  ConnectionsOK' /\ StateOwned'
  BY <1>3, CloseFrees DEF Disconnect
<1>4. ASSUME NEW c \in Connections, Abort(c)
      PROVE  ConnectionsOK' /\ StateOwned'
  <2>1. /\ c \in open /\ conn' = [conn EXCEPT ![c] = NoConnection]
        /\ allocated' = allocated /\ aborts' = aborts + 1
    BY <1>4 DEF Abort
  <2>2. /\ conn' \in [Connections -> States \cup {NoConnection}]
        /\ Cardinality(open') = Cardinality(open) - 1 /\ Cardinality(open) \in Nat
    BY <2>1, Closes
  <2> QED
    BY <2>1, <2>2 DEF ConnectionsOK, StateOwned
<1>5. ASSUME NEW c \in Connections, NEW request \in Requests, NEW sealed \in BOOLEAN,
             tcp_server_recv(c, request, sealed)
      PROVE  ConnectionsOK' /\ StateOwned'
  <2>1. c \in open /\ conn[c] \in States /\ aborts' = aborts
    BY <1>5 DEF tcp_server_recv, open, ConnectionsOK
  <2>2. Copied(c) \in States
    BY <2>1, CopiedIsState
  <2>3. CASE ReceiveOther(c)
    BY <2>1, <2>2, <2>3, GoesOn DEF ReceiveOther
  <2>4. ASSUME NEW read, ReceiveGet(c, read)
        PROVE  ConnectionsOK' /\ StateOwned'
    <3> DEFINE length == IF read.path = "ledtest" THEN 2 ELSE 1
               next   == [Copied(c) EXCEPT
                            !.want = length, !.sent_len = 0, !.flight = @ + length]
    <3>1. conn' = [conn EXCEPT ![c] = next] /\ allocated' = allocated
      BY <2>4 DEF ReceiveGet
    <3>2. next \in States
      BY <2>2, AnsweredIsState
    <3> HIDE DEF next
    <3> QED
      BY <2>1, <3>1, <3>2, GoesOn
  <2>5. ASSUME NEW read, WriteFails(c, read)
        PROVE  ConnectionsOK' /\ StateOwned'
    BY <2>1, <2>5, CloseFrees DEF WriteFails
  <2> QED
    BY <1>5, <2>3, <2>4, <2>5 DEF tcp_server_recv
<1>6. ASSUME NEW c \in Connections, NEW len \in Nat, tcp_server_sent(c, len)
      PROVE  ConnectionsOK' /\ StateOwned'
  <2>1. c \in open /\ conn[c] \in States /\ aborts' = aborts
    BY <1>6 DEF tcp_server_sent, open, ConnectionsOK
  <2>2. CASE tcp_close_client_connection(c)
    BY <2>1, <2>2, CloseFrees
  <2>3. CASE /\ conn' = [conn EXCEPT ![c].sent_len = @ + len, ![c].flight = @ - len]
             /\ UNCHANGED allocated
    <3> DEFINE next == [conn[c] EXCEPT !.sent_len = @ + len, !.flight = @ - len]
    <3>1. conn' = [conn EXCEPT ![c] = next]
      BY <2>1, <2>3 DEF ConnectionsOK, States
    <3>2. next \in States
      BY <2>1, AckedIsState
    <3> HIDE DEF next
    <3> QED
      BY <2>1, <2>3, <3>1, <3>2, GoesOn
  <2> QED
    BY <1>6, <2>2, <2>3 DEF tcp_server_sent
<1>7. CASE Main
  BY <1>1, <1>7 DEF Main
<1>8. CASE key_pressed_func
  BY <1>1, <1>8 DEF key_pressed_func
<1>9. CASE Callback
  <2>1. \A c \in Connections : 1..(2 * MaxSegments[c]) \subseteq Nat
    BY AccessPointAssumption
  <2>2. CASE key_pressed_worker_func
    BY <1>1, <2>2 DEF key_pressed_worker_func
  <2>3. CASE \E query \in Queries : dns_server_process(query)
    BY <1>1, <2>3 DEF dns_server_process
  <2> QED
    BY <1>2, <1>3, <1>4, <1>5, <1>6, <1>9, <2>1, <2>2, <2>3 DEF Callback
<1>10. CASE UNCHANGED vars
  BY <1>1, <1>10 DEF vars
<1> QED
  BY <1>7, <1>8, <1>9, <1>10 DEF Next

(* The memory of a connection is freed exactly once, by whichever callback *)
(* ends it; lwIP's own aborts are the only loss (picow_access_point.c      *)
(* 46-65, 205-211).                                                        *)
THEOREM OwnedOnce == Spec => []StateOwned
<1>1. Init => ConnectionsOK /\ StateOwned
  <2> SUFFICES ASSUME Init PROVE ConnectionsOK /\ StateOwned
    OBVIOUS
  <2>1. open = {}
    BY DEF Init, open
  <2> QED
    BY <2>1, FS_EmptySet DEF Init, ConnectionsOK, StateOwned
<1>2. ConnectionsOK /\ StateOwned /\ [Next]_vars => ConnectionsOK' /\ StateOwned'
  BY Stays
<1> QED
  BY <1>1, <1>2, PTL DEF Spec

-----------------------------------------------------------------------------
(* Where main is when its variables have their values.                     *)
MainOK ==
  /\ arch \in {"poll", "background"} /\ dns \in {"off", "bound", "ready"}
  /\ dns = "bound" => pc = "dns_ip"
  /\ gw \/ pc \in {"enable_ap", "gw"}
  /\ dns # "off" => gw
  /\ server # "none" => gw
  /\ server \in {"orphan", "closed"} => pc \in {"close_pcb", "dns_off", "deinit", "end"}

(* What a connection took from the listening pcb.                          *)
GivenTo(c) == gw /\ (conn[c].gw \/ (arch = "background" /\ server \in {"orphan", "closed"}))

AddressInv ==
  /\ ConnectionsOK /\ MainOK
  /\ \A c \in open : GivenTo(c)
  /\ AddressIsOurs

LEMMA SameConnections ==
  ASSUME AddressInv, MainOK', UNCHANGED client, UNCHANGED answer,
         gw => gw', arch' = arch,
         server \in {"orphan", "closed"} => server' \in {"orphan", "closed"}
  PROVE  (\A c \in open : GivenTo(c))' /\ AddressIsOurs'
<1>1. open' = open
  BY DEF client, open
<1>2. ASSUME NEW c \in open PROVE GivenTo(c)'
  BY <1>2 DEF AddressInv, GivenTo, client
<1>3. AddressIsOurs'
  BY DEF AddressInv, AddressIsOurs
<1> QED
  BY <1>1, <1>2, <1>3

(* A connection that keeps its address, or is closed; nothing else.        *)
LEMMA OneConnection ==
  ASSUME AddressInv, NEW c \in open, NEW s,
         conn' = [conn EXCEPT ![c] = s], s = NoConnection \/ s.gw = conn[c].gw,
         UNCHANGED main
  PROVE  (\A d \in open : GivenTo(d))'
<1> SUFFICES ASSUME NEW d \in open' PROVE GivenTo(d)'
  OBVIOUS
<1>1. conn \in [Connections -> States \cup {NoConnection}] /\ c \in Connections /\ d \in Connections
  BY DEF AddressInv, ConnectionsOK, open
<1>2. CASE d = c
  <2>1. conn'[c] = s /\ s # NoConnection
    BY <1>1, <1>2 DEF open
  <2> QED
    BY <1>2, <2>1 DEF AddressInv, GivenTo, main
<1>3. CASE d # c
  <2>1. conn'[d] = conn[d] /\ d \in open
    BY <1>1, <1>3 DEF open
  <2> QED
    BY <2>1 DEF AddressInv, GivenTo, main
<1> QED
  BY <1>2, <1>3

LEMMA MainRuns ==
  ASSUME AddressInv, Main
  PROVE  AddressInv'
<1>1. /\ MainOK' /\ (gw => gw') /\ arch' = arch
      /\ server \in {"orphan", "closed"} => server' \in {"orphan", "closed"}
  <2> USE DEF AddressInv, MainOK, Main, Goto
  <2>1. CASE enable_ap_mode
    BY <2>1 DEF enable_ap_mode
  <2>2. CASE AssignGw
    BY <2>2 DEF AssignGw
  <2>3. CASE dns_server_init
    BY <2>3 DEF dns_server_init
  <2>4. CASE tcp_server_open
    BY <2>4 DEF tcp_server_open
  <2>5. CASE ResetComplete \/ Test \/ Sleep
    BY <2>5 DEF ResetComplete, Test, Sleep
  <2>6. CASE tcp_server_close
    BY <2>6 DEF tcp_server_close
  <2>7. CASE dns_server_deinit \/ cyw43_arch_deinit
    BY <2>7 DEF dns_server_deinit, cyw43_arch_deinit
  <2> QED
    BY <2>1, <2>2, <2>3, <2>4, <2>5, <2>6, <2>7
<1>2. UNCHANGED client /\ UNCHANGED answer
  BY DEF Main
<1>3. ConnectionsOK'
  BY <1>2 DEF AddressInv, ConnectionsOK, client
<1>4. (\A c \in open : GivenTo(c))' /\ AddressIsOurs'
  BY <1>1, <1>2, SameConnections
<1> QED
  BY <1>1, <1>3, <1>4 DEF AddressInv

(* A callback leaves main where it is. *)
LEMMA CallbackRuns ==
  ASSUME AddressInv, ConnectionsOK', Callback, ~key_pressed_worker_func
  PROVE  AddressInv'
<1>1. UNCHANGED main
  BY DEF Callback, tcp_server_accept, Disconnect, Abort, tcp_server_recv, tcp_server_sent,
         dns_server_process
<1>2. MainOK'
  BY <1>1 DEF AddressInv, MainOK, main
<1>3. UNCHANGED answer => AddressIsOurs'
  BY <1>1 DEF AddressInv, AddressIsOurs, main
<1>4. ASSUME NEW c \in Connections, tcp_server_accept(c)
      PROVE  (\A d \in open : GivenTo(d))'
  <2>1. /\ conn' = [conn EXCEPT ![c] = NewState] /\ Called /\ server \in {"listening", "orphan"}
    BY <1>4 DEF tcp_server_accept
  <2>2. GivenTo(c)'
    <3>1. conn'[c].gw = (server = "listening")
      BY <2>1 DEF AddressInv, ConnectionsOK, NewState
    <3>2. server = "orphan" => arch = "background"
      BY <2>1 DEF AddressInv, MainOK, Called
    <3>3. gw
      BY <2>1 DEF AddressInv, MainOK
    <3>4. gw' = gw /\ arch' = arch /\ server' = server
      BY <1>1 DEF main
    <3>5. CASE server = "listening"
      BY <3>1, <3>3, <3>4, <3>5 DEF GivenTo
    <3>6. CASE server = "orphan"
      BY <3>2, <3>3, <3>4, <3>6 DEF GivenTo
    <3> QED
      BY <2>1, <3>5, <3>6
  <2>3. ASSUME NEW d \in open', d # c PROVE GivenTo(d)'
    <3>1. conn'[d] = conn[d] /\ d \in open
      BY <2>1, <2>3 DEF AddressInv, ConnectionsOK, open
    <3> QED
      BY <1>1, <3>1 DEF AddressInv, GivenTo, main
  <2> QED
    BY <2>2, <2>3
<1>5. ASSUME NEW c \in open, conn' = [conn EXCEPT ![c] = NoConnection]
      PROVE  (\A d \in open : GivenTo(d))'
  BY <1>1, <1>5, OneConnection
<1>6. ASSUME NEW c \in Connections, NEW request \in Requests, NEW sealed \in BOOLEAN,
             tcp_server_recv(c, request, sealed)
      PROVE  (\A d \in open : GivenTo(d))' /\ AddressIsOurs'
  <2>1. c \in open /\ conn[c] \in States
    BY <1>6 DEF AddressInv, ConnectionsOK, tcp_server_recv, open
  <2>2. Copied(c).gw = conn[c].gw /\ Copied(c) \in States
    BY <2>1, CopiedIsState DEF Copied, States
  <2>3. CASE ReceiveOther(c)
    BY <1>1, <1>3, <2>1, <2>2, <2>3, OneConnection DEF ReceiveOther
  <2>4. ASSUME NEW read, WriteFails(c, read)
        PROVE  (\A d \in open : GivenTo(d))' /\ AddressIsOurs'
    BY <1>3, <1>5, <2>1, <2>4 DEF WriteFails, tcp_close_client_connection
  <2>5. ASSUME NEW read, ReceiveGet(c, read)
        PROVE  (\A d \in open : GivenTo(d))' /\ AddressIsOurs'
    <3> DEFINE length == IF read.path = "ledtest" THEN 2 ELSE 1
               next   == [Copied(c) EXCEPT
                            !.want = length, !.sent_len = 0, !.flight = @ + length]
    <3>1. /\ conn' = [conn EXCEPT ![c] = next]
          /\ answer' = answer \/ answer'.ours = (gw /\ conn[c].gw)
      BY <2>5 DEF ReceiveGet
    <3>2. next.gw = conn[c].gw
      BY <2>2 DEF States
    <3>3. (\A d \in open : GivenTo(d))'
      <4> HIDE DEF next
      <4> QED
        BY <1>1, <2>1, <3>1, <3>2, OneConnection
    <3>4. GivenTo(c)
      BY <2>1 DEF AddressInv
    <3>5. AddressIsOurs'
      BY <1>1, <1>3, <3>1, <3>4 DEF AddressIsOurs, GivenTo, main
    <3> QED
      BY <3>3, <3>5
  <2> QED
    BY <1>6, <2>3, <2>4, <2>5 DEF tcp_server_recv
<1>7. ASSUME NEW c \in Connections, NEW len, tcp_server_sent(c, len)
      PROVE  (\A d \in open : GivenTo(d))'
  <2>1. c \in open /\ conn[c] \in States
    BY <1>7 DEF AddressInv, ConnectionsOK, tcp_server_sent, open
  <2>2. CASE tcp_close_client_connection(c)
    BY <1>5, <2>1, <2>2 DEF tcp_close_client_connection
  <2>3. CASE conn' = [conn EXCEPT ![c].sent_len = @ + len, ![c].flight = @ - len]
    <3> DEFINE next == [conn[c] EXCEPT !.sent_len = @ + len, !.flight = @ - len]
    <3>1. conn' = [conn EXCEPT ![c] = next]
      BY <2>1, <2>3 DEF AddressInv, ConnectionsOK, States
    <3>2. next.gw = conn[c].gw
      BY <2>1 DEF States
    <3> HIDE DEF next
    <3> QED
      BY <1>1, <2>1, <3>1, <3>2, OneConnection
  <2> QED
    BY <1>7, <2>2, <2>3 DEF tcp_server_sent
<1>8. ASSUME NEW query \in Queries, dns_server_process(query)
      PROVE  (\A d \in open : GivenTo(d))' /\ AddressIsOurs'
  <2>1. UNCHANGED client /\ Called /\ dns # "off"
        /\ answer'.ours = (dns = "ready") /\ answer'.early = (pc = "dns_ip")
    BY <1>8 DEF dns_server_process
  <2>2. (\A d \in open : GivenTo(d))'
    BY <1>1, <2>1 DEF AddressInv, GivenTo, open, main, client
  <2>3. dns \in {"off", "bound", "ready"}
    BY DEF AddressInv, MainOK
  <2>4. AddressIsOurs'
    BY <1>1, <2>1, <2>3 DEF AddressInv, MainOK, AddressIsOurs, Called, main
  <2> QED
    BY <2>2, <2>4
<1>9. (\A d \in open : GivenTo(d))' /\ AddressIsOurs'
  <2>1. ASSUME NEW c \in Connections, tcp_server_accept(c)
        PROVE  (\A d \in open : GivenTo(d))' /\ AddressIsOurs'
    BY <1>3, <1>4, <2>1 DEF tcp_server_accept
  <2>2. ASSUME NEW c \in Connections, Disconnect(c) \/ Abort(c)
        PROVE  (\A d \in open : GivenTo(d))' /\ AddressIsOurs'
    BY <1>3, <1>5, <2>2 DEF Disconnect, Abort, tcp_close_client_connection
  <2>3. ASSUME NEW c \in Connections, NEW len, tcp_server_sent(c, len)
        PROVE  (\A d \in open : GivenTo(d))' /\ AddressIsOurs'
    BY <1>3, <1>7, <2>3 DEF tcp_server_sent
  <2> QED
    BY <1>6, <1>8, <2>1, <2>2, <2>3 DEF Callback
<1> QED
  BY <1>2, <1>9 DEF AddressInv

(* Whoever asks is told the access point's own address, but for the two    *)
(* windows of the background build: before dns_server_init has copied it,  *)
(* and while the server is closing (dnsserver.c 221-229;                   *)
(* picow_access_point.c 68-74, 224).                                       *)
THEOREM AddressTold == Spec => []AddressIsOurs
<1>1. Init => AddressInv
  <2> SUFFICES ASSUME Init PROVE AddressInv
    OBVIOUS
  <2>1. open = {}
    BY DEF Init, open
  <2>2. ConnectionsOK
    BY DEF Init, ConnectionsOK
  <2>3. MainOK /\ AddressIsOurs
    BY DEF Init, MainOK, AddressIsOurs
  <2> QED
    BY <2>1, <2>2, <2>3 DEF AddressInv
<1>2. AddressInv /\ StateOwned /\ [Next]_vars => AddressInv'
  <2> SUFFICES ASSUME AddressInv, StateOwned, [Next]_vars PROVE AddressInv'
    OBVIOUS
  <2>0. ConnectionsOK'
    BY Stays DEF AddressInv
  <2>1. CASE Main
    BY <2>1, MainRuns
  <2>2. ASSUME UNCHANGED <<arch, pc, gw, dns, server>>, UNCHANGED client, UNCHANGED answer
        PROVE  AddressInv'
    <3>1. MainOK' /\ gw' = gw /\ arch' = arch /\ server' = server
      BY <2>2 DEF AddressInv, MainOK
    <3> QED
      BY <2>0, <2>2, <3>1, SameConnections DEF AddressInv
  <2>3. CASE key_pressed_func \/ key_pressed_worker_func \/ UNCHANGED vars
    BY <2>2, <2>3 DEF key_pressed_func, key_pressed_worker_func, main, vars
  <2>4. CASE Callback /\ ~key_pressed_worker_func
    BY <2>0, <2>4, CallbackRuns
  <2> QED
    BY <2>1, <2>3, <2>4 DEF Next
<1>3. AddressInv => AddressIsOurs
  BY DEF AddressInv
<1> QED
  BY <1>1, <1>2, <1>3, OwnedOnce, PTL DEF Spec

-----------------------------------------------------------------------------
(* What a connection's record promises: what is still to be acknowledged   *)
(* of the last answer is on its way, and nothing lies in headers before    *)
(* the first segment.                                                      *)
Sound(s) ==
  /\ s.flight >= 0
  /\ s.want > 0 => s.flight >= s.want - s.sent_len /\ s.sent_len < s.want
  /\ s.left => s.segments > 0

AllSound == \A c \in open : Sound(conn[c])

LEMMA NewIsSound == Sound(NewState)
BY DEF Sound, NewState

(* The record after a segment, field by field.                             *)
LEMMA CopiedFields ==
  ASSUME NEW c, conn[c] \in States
  PROVE  /\ Copied(c).want = conn[c].want
         /\ Copied(c).sent_len = conn[c].sent_len
         /\ Copied(c).flight = conn[c].flight
         /\ Copied(c).segments = conn[c].segments + 1
BY DEF Copied, States

LEMMA CopiedIsSound ==
  ASSUME NEW c, conn[c] \in States, Sound(conn[c])
  PROVE  Sound(Copied(c))
<1> DEFINE s == Copied(c)
<1>1. /\ s.want = conn[c].want /\ s.sent_len = conn[c].sent_len /\ s.flight = conn[c].flight
      /\ s.segments = conn[c].segments + 1 /\ conn[c].segments \in Nat
  BY CopiedFields DEF States
<1> HIDE DEF s
<1>2. s.segments > 0
  BY <1>1
<1> QED
  BY <1>1, <1>2 DEF Sound, s

(* An answer of one unit or two, with all of it still to come.             *)
LEMMA AnsweredIsSound ==
  ASSUME NEW s \in States, Sound(s), NEW length \in {1, 2}
  PROVE  Sound([s EXCEPT !.want = length, !.sent_len = 0, !.flight = @ + length])
<1> DEFINE t == [s EXCEPT !.want = length, !.sent_len = 0, !.flight = @ + length]
<1>1. /\ t.want = length /\ t.sent_len = 0 /\ t.flight = s.flight + length
      /\ t.left = s.left /\ t.segments = s.segments
  BY DEF States
<1> HIDE DEF t
<1>2. s.flight \in Int
  BY DEF States
<1> QED
  BY <1>1, <1>2 DEF Sound, t

LEMMA AckedIsSound ==
  ASSUME NEW s \in States, Sound(s), NEW len \in Nat, len =< s.flight,
         ~(s.sent_len + len >= s.want)
  PROVE  Sound([s EXCEPT !.sent_len = @ + len, !.flight = @ - len])
<1> DEFINE t == [s EXCEPT !.sent_len = @ + len, !.flight = @ - len]
<1>1. /\ t.want = s.want /\ t.sent_len = s.sent_len + len /\ t.flight = s.flight - len
      /\ t.left = s.left /\ t.segments = s.segments
  BY DEF States
<1> HIDE DEF t
<1>2. s.flight \in Int /\ s.sent_len \in Int /\ s.want \in Nat
  BY DEF States
<1> QED
  BY <1>1, <1>2 DEF Sound, t

(* One connection takes another state, or none; the others keep theirs.    *)
LEMMA OneIsSound ==
  ASSUME ConnectionsOK, AllSound, NEW c \in Connections, NEW s,
         conn' = [conn EXCEPT ![c] = s], s = NoConnection \/ Sound(s)
  PROVE  AllSound'
<1> SUFFICES ASSUME NEW d \in open' PROVE Sound(conn'[d])
  BY DEF AllSound
<1>1. d \in Connections /\ conn'[d] # NoConnection
  BY DEF open
<1>2. CASE d = c
  BY <1>1, <1>2 DEF ConnectionsOK
<1>3. CASE d # c
  BY <1>1, <1>3 DEF ConnectionsOK, AllSound, open
<1> QED
  BY <1>2, <1>3

LEMMA SoundStays ==
  ASSUME ConnectionsOK, AllSound, [Next]_vars
  PROVE  AllSound'
<1>1. CASE UNCHANGED client
  BY <1>1 DEF AllSound, open, client
<1>2. ASSUME NEW c \in Connections, tcp_server_accept(c)
      PROVE  AllSound'
  BY <1>2, NewIsSound, OneIsSound DEF tcp_server_accept
<1>3. ASSUME NEW c \in Connections, conn' = [conn EXCEPT ![c] = NoConnection]
      PROVE  AllSound'
  BY <1>3, OneIsSound
<1>4. ASSUME NEW c \in Connections, Disconnect(c) \/ Abort(c)
      PROVE  AllSound'
  BY <1>3, <1>4 DEF Disconnect, Abort, tcp_close_client_connection
<1>5. ASSUME NEW c \in Connections, NEW request \in Requests, NEW sealed \in BOOLEAN,
             tcp_server_recv(c, request, sealed)
      PROVE  AllSound'
  <2>1. conn[c] \in States /\ Sound(conn[c])
    BY <1>5 DEF tcp_server_recv, open, ConnectionsOK, AllSound
  <2>2. Copied(c) \in States /\ Sound(Copied(c))
    BY <2>1, CopiedIsState, CopiedIsSound
  <2>3. CASE ReceiveOther(c)
    BY <2>2, <2>3, OneIsSound DEF ReceiveOther
  <2>4. ASSUME NEW read, ReceiveGet(c, read)
        PROVE  AllSound'
    <3> DEFINE length == IF read.path = "ledtest" THEN 2 ELSE 1
               next   == [Copied(c) EXCEPT
                            !.want = length, !.sent_len = 0, !.flight = @ + length]
    <3>1. conn' = [conn EXCEPT ![c] = next]
      BY <2>4 DEF ReceiveGet
    <3>2. length \in {1, 2}
      OBVIOUS
    <3>3. Sound(next)
      <4> HIDE DEF length
      <4> QED
        BY <2>2, <3>2, AnsweredIsSound
    <3> HIDE DEF next
    <3> QED
      BY <3>1, <3>3, OneIsSound
  <2>5. ASSUME NEW read, WriteFails(c, read)
        PROVE  AllSound'
    BY <1>3, <2>5 DEF WriteFails, tcp_close_client_connection
  <2> QED
    BY <1>5, <2>3, <2>4, <2>5 DEF tcp_server_recv
<1>6. ASSUME NEW c \in Connections, NEW len \in Nat, tcp_server_sent(c, len)
      PROVE  AllSound'
  <2>1. conn[c] \in States /\ Sound(conn[c]) /\ len =< conn[c].flight
    BY <1>6 DEF tcp_server_sent, open, ConnectionsOK, AllSound
  <2>2. CASE conn[c].sent_len + len >= conn[c].want
    BY <1>3, <1>6, <2>2 DEF tcp_server_sent, tcp_close_client_connection
  <2>3. CASE ~(conn[c].sent_len + len >= conn[c].want)
    <3> DEFINE next == [conn[c] EXCEPT !.sent_len = @ + len, !.flight = @ - len]
    <3>1. conn' = [conn EXCEPT ![c].sent_len = @ + len, ![c].flight = @ - len]
      BY <1>6, <2>3 DEF tcp_server_sent
    <3>2. conn' = [conn EXCEPT ![c] = next]
      BY <2>1, <3>1 DEF ConnectionsOK, States
    <3>3. Sound(next)
      BY <2>1, <2>3, AckedIsSound
    <3> HIDE DEF next
    <3> QED
      BY <3>2, <3>3, OneIsSound
  <2> QED
    BY <2>2, <2>3
<1>7. CASE Main \/ key_pressed_func \/ UNCHANGED vars
  BY <1>1, <1>7 DEF Main, key_pressed_func, vars
<1>8. CASE Callback
  <2>1. \A c \in Connections : 1..(2 * MaxSegments[c]) \subseteq Nat
    BY AccessPointAssumption
  <2>2. CASE key_pressed_worker_func
    BY <1>1, <2>2 DEF key_pressed_worker_func
  <2>3. CASE \E query \in Queries : dns_server_process(query)
    BY <1>1, <2>3 DEF dns_server_process
  <2> QED
    BY <1>2, <1>4, <1>5, <1>6, <1>8, <2>1, <2>2, <2>3 DEF Callback
<1> QED
  BY <1>7, <1>8 DEF Next

LEMMA AlwaysSound == Spec => [](ConnectionsOK /\ AllSound)
<1> DEFINE SoundInv == ConnectionsOK /\ StateOwned /\ AllSound
<1>1. Init => SoundInv
  <2> SUFFICES ASSUME Init PROVE SoundInv
    OBVIOUS
  <2>1. open = {}
    BY DEF Init, open
  <2> QED
    BY <2>1, FS_EmptySet DEF Init, ConnectionsOK, StateOwned, AllSound
<1>2. SoundInv /\ [Next]_vars => SoundInv'
  BY Stays, SoundStays
<1>3. SoundInv => ConnectionsOK /\ AllSound
  OBVIOUS
<1> QED
  BY <1>1, <1>2, <1>3, PTL DEF Spec

(* A connection that has been answered has part of the answer on its way,  *)
(* or is closed: no acknowledgement is missed for good, also when a second *)
(* GET set sent_len to 0 under the first one's acknowledgements            *)
(* (picow_access_point.c 76-85, 178).                                      *)
THEOREM AnswersArrive == Spec => []AnsweredOrClosed
<1>1. ConnectionsOK /\ AllSound => AnsweredOrClosed
  <2> SUFFICES ASSUME ConnectionsOK, AllSound, NEW c \in open, conn[c].want > 0
               PROVE  conn[c].flight > 0
    BY DEF AnsweredOrClosed
  <2>1. conn[c] \in States /\ Sound(conn[c])
    BY DEF ConnectionsOK, AllSound, open
  <2> QED
    BY <2>1 DEF States, Sound
<1> QED
  BY <1>1, AlwaysSound, PTL

(* The led does just what a request asks for that comes first on its       *)
(* connection, or that does not run out of its segment: the buffer of a    *)
(* connection is its own and comes with nothing in it                      *)
(* (picow_access_point.c 94-104, 131-148, 219).                            *)
THEOREM LedObeys == Spec => LedAsAsked
<1> DEFINE Wanted(request) ==
      IF request.path = "ledtest" /\ request.param # "none" THEN request.param = "on" ELSE led
<1>1. ASSUME AllSound, NEW c \in open, NEW request \in Requests, NEW sealed \in BOOLEAN,
             sealed \/ conn[c].segments = 0, tcp_server_recv(c, request, sealed)
      PROVE  led' = Wanted(request)
  <2>1. sealed \/ ~conn[c].left
    BY <1>1 DEF AllSound, Sound
  <2>2. Found(c, request, sealed) = {request}
    BY <2>1 DEF Found
  <2>3. CASE request.path = "not GET"
    BY <1>1, <2>2, <2>3 DEF tcp_server_recv, ReceiveOther
  <2>4. CASE request.path # "not GET"
    <3>1. led' = test_server_content(request)
      BY <1>1, <2>2, <2>4 DEF tcp_server_recv, ReceiveGet, WriteFails
    <3> QED
      BY <3>1 DEF test_server_content
  <2> QED
    BY <2>3, <2>4
<1>2. AllSound /\ [Next]_vars =>
        [\A c \in open, request \in Requests, sealed \in BOOLEAN :
           (sealed \/ conn[c].segments = 0) /\ tcp_server_recv(c, request, sealed) =>
             led' = Wanted(request)]_vars
  BY <1>1
<1> QED
  BY <1>2, AlwaysSound, PTL DEF Spec, LedAsAsked

-----------------------------------------------------------------------------
(* A non-empty set of naturals has a smallest member.                      *)
LEMMA HasLeast ==
  ASSUME NEW S \in SUBSET Nat, S # {}
  PROVE  \E m \in S : \A k \in S : m =< k
<1> DEFINE R == OpToRel(<, Nat)
<1>1. IsWellFoundedOn(R, Nat)
  BY NatLessThanWellFounded
<1>2. \A x, y \in Nat : y < x => <<y, x>> \in R
  BY DEF OpToRel
<1> HIDE DEF R
<1>3. PICK m \in S : \A k \in S : ~(<<k, m>> \in R)
  BY <1>1, WFMin
<1>4. \A k \in S : ~(k < m)
  BY <1>2, <1>3, Zenon
<1> QED
  BY <1>4

LEMMA LeastIsMember ==
  ASSUME NEW S \in SUBSET Nat, S # {}
  PROVE  Min(S) \in S /\ \A k \in S : Min(S) =< k
BY HasLeast DEF Min

(* The walk over a name's labels adds up: a natural after each of them.    *)
(* There is such a function for the first k labels, for every k: else take *)
(* the least k without one, and lengthen the function for k - 1.           *)
LEMMA AfterIsNat ==
  ASSUME NEW query \in Queries
  PROVE  After(query) \in [0..Len(query.labels) -> Nat]
<1> DEFINE n == Len(query.labels)
           labels == query.labels
           Upto(f, k) == /\ f \in [0..n -> Nat] /\ f[0] = 0
                         /\ \A i \in 1..k : f[i] = f[i - 1] + 1 + labels[i]
           body(f) == [i \in 0..n |-> IF i = 0 THEN 0 ELSE f[i - 1] + 1 + labels[i]]
<1>1. n \in Nat /\ \A i \in 1..n : labels[i] \in Nat
  <2>1. query.labels \in Seq(0..255)
    BY AccessPointAssumption
  <2>2. n \in Nat /\ \A i \in 1..n : labels[i] \in 0..255
    BY <2>1, ElementOfSeq, LenProperties
  <2>3. 0..255 \subseteq Nat
    OBVIOUS
  <2> HIDE DEF n, labels
  <2> QED
    BY <2>2, <2>3
<1>2. \E f : Upto(f, 0)
  <2>1. Upto([i \in 0..n |-> 0], 0)
    BY <1>1
  <2> QED
    BY <2>1
<1>3. ASSUME NEW k \in 0..(n - 1), NEW f, Upto(f, k)
      PROVE  \E g : Upto(g, k + 1)
  <2> DEFINE g == [f EXCEPT ![k + 1] = f[k] + 1 + labels[k + 1]]
  <2>1. f[k] \in Nat /\ labels[k + 1] \in Nat /\ k + 1 \in 0..n
    BY <1>1, <1>3
  <2>2. g \in [0..n -> Nat] /\ g[0] = 0
    BY <1>3, <2>1
  <2>3. ASSUME NEW i \in 1..(k + 1) PROVE g[i] = g[i - 1] + 1 + labels[i]
    BY <1>1, <1>3, <2>1
  <2> QED
    BY <2>2, <2>3
<1> HIDE DEF Upto
<1>4. \E f : Upto(f, n)
  <2> DEFINE B == {k \in 0..n : ~ \E f : Upto(f, k)}
  <2>1. ASSUME B # {} PROVE FALSE
    <3>1. B \in SUBSET Nat
      BY <1>1
    <3>2. PICK m \in B : \A k \in B : m =< k
      BY <2>1, <3>1, HasLeast
    <3>3. m # 0 /\ m \in 1..n
      BY <1>1, <1>2, <3>2
    <3>4. m - 1 \in 0..(n - 1) /\ m - 1 \notin B /\ (m - 1) + 1 = m
      BY <1>1, <3>2, <3>3
    <3>5. PICK f : Upto(f, m - 1)
      BY <1>1, <3>3, <3>4
    <3>6. \E g : Upto(g, (m - 1) + 1)
      BY <1>3, <3>4, <3>5
    <3> QED
      BY <3>2, <3>4, <3>6
  <2> QED
    BY <1>1, <2>1
<1>5. PICK f : Upto(f, n)
  BY <1>4
<1>6. f \in [0..n -> Nat] /\ f = body(f)
  BY <1>1, <1>5 DEF Upto
<1>7. After(query) = body(After(query))
  <2>1. After(query) = CHOOSE at : at = body(at)
    BY DEF After
  <2> HIDE DEF body
  <2> QED
    BY <1>6, <2>1
<1>8. \A i \in 0..n : After(query)[i] \in Nat
  <2> DEFINE at == After(query)
             B  == {i \in 0..n : at[i] \notin Nat}
  <2>1. /\ at[0] = 0
        /\ \A i \in 1..n : at[i] = at[i - 1] + 1 + labels[i]
    <3> HIDE DEF at
    <3>1. at = body(at)
      BY <1>7 DEF at
    <3> QED
      BY <1>1, <3>1
  <2> HIDE DEF at
  <2>2. ASSUME B # {} PROVE FALSE
    <3>1. B \in SUBSET Nat
      BY <1>1
    <3>2. PICK m \in B : \A k \in B : m =< k
      BY <2>2, <3>1, HasLeast
    <3>3. m \in 1..n
      BY <1>1, <2>1, <3>2
    <3>4. m - 1 \in 0..n /\ m - 1 \notin B
      BY <1>1, <3>2, <3>3
    <3>5. at[m - 1] \in Nat
      BY <3>4
    <3> QED
      BY <1>1, <2>1, <3>2, <3>3, <3>5
  <2> QED
    BY <2>2 DEF at
<1> QED
  BY <1>7, <1>8

LEMMA NameIsNat ==
  ASSUME NEW query \in Queries
  PROVE  NameLength(query) \in Nat
<1> DEFINE S == {i \in 0..Len(query.labels) :
                   \/ i = Len(query.labels)
                   \/ After(query)[i] >= Given(query)
                   \/ i > 0 /\ query.labels[i] = 0}
<1>1. Len(query.labels) \in Nat
  BY AccessPointAssumption
<1>2. S \in SUBSET Nat /\ Len(query.labels) \in S
  BY <1>1
<1>3. Walked(query) \in S
  BY <1>2, LeastIsMember DEF Walked
<1> QED
  BY <1>3, AfterIsNat DEF NameLength

(* Whatever is not refused gets a reply that fits.                         *)
LEMMA ReplyFits ==
  ASSUME NEW query \in Queries, ~Refused(query)
  PROVE  ReplyLength(query) =< MAX_DNS_MSG_SIZE
BY NameIsNat DEF Refused, ReplyLength, MAX_DNS_MSG_SIZE, HEADER, QTYPE, ANSWER

(* A reply fits the buffer it is written into: the query is refused, or    *)
(* its name, however it is cut into labels or by the packet's end, leaves  *)
(* room for the answer (dnsserver.c 168-206).                              *)
THEOREM AnswersFit == Spec => []AnswerFits
<1>1. Init => AnswerFits
  BY DEF Init, AnswerFits, MAX_DNS_MSG_SIZE
<1>2. AnswerFits /\ [Next]_vars => AnswerFits'
  <2> SUFFICES ASSUME AnswerFits, [Next]_vars PROVE AnswerFits'
    OBVIOUS
  <2>1. CASE UNCHANGED answer
    BY <2>1 DEF AnswerFits
  <2>2. ASSUME NEW query \in Queries, dns_server_process(query) PROVE AnswerFits'
    BY <2>2, ReplyFits DEF dns_server_process, AnswerFits
  <2>3. ASSUME NEW c, NEW request, NEW sealed, tcp_server_recv(c, request, sealed)
        PROVE  UNCHANGED answer \/ answer'.size = 0
    <3>1. CASE ReceiveOther(c)
      BY <3>1 DEF ReceiveOther
    <3>2. ASSUME NEW read, ReceiveGet(c, read)
          PROVE  UNCHANGED answer \/ answer'.size = 0
      <4>1. answer' = IF read.path = "ledtest" THEN answer
                      ELSE [size |-> 0, ours |-> gw /\ conn[c].gw, early |-> FALSE]
        BY <3>2 DEF ReceiveGet
      <4> QED
        BY <4>1
    <3>3. ASSUME NEW read, WriteFails(c, read)
          PROVE  UNCHANGED answer
      BY <3>3 DEF WriteFails
    <3> QED
      BY <2>3, <3>1, <3>2, <3>3 DEF tcp_server_recv
  <2>4. answer'.size = 0 => AnswerFits'
    BY DEF AnswerFits, MAX_DNS_MSG_SIZE
  <2> QED
    BY <2>1, <2>2, <2>3, <2>4
    DEF Next, vars, Main, key_pressed_func, Callback, key_pressed_worker_func,
        tcp_server_accept, Disconnect, Abort, tcp_server_sent
<1> QED
  BY <1>1, <1>2, PTL DEF Spec

-----------------------------------------------------------------------------
(* The lease table, for any number of addresses and clients, any lease     *)
(* time and any width of the counter that holds more than twice of it: no  *)
(* address is used twice, and what is over is seen to be over.  The        *)
(* invariant says that the distance on the counter's circle from the       *)
(* present to a lease's end is the time the lease has left (OnCircle), and *)
(* that a client's address is its own in the table at least as long as the *)
(* client uses it (TableBacks).                                            *)
Ahead(a) == (lease[a].expiry - ticks) % Wrap

Leases == [mac : Clients \cup {NoMac}, expiry : 0..(Wrap - 1)]

(* A lease granted now has LeaseTime + carry units to go; none has more.   *)
WithinLease ==
  /\ \A a \in Addresses : granted[a] =< LeaseTime + carry
  /\ \A c \in Clients : left[c] =< LeaseTime + carry

OnCircle == \A a \in Addresses : granted[a] >= 0 => Ahead(a) = granted[a]

TableBacks ==
  \A c \in Clients, a \in Addresses :
    held[c] = a => lease[a].mac = c /\ granted[a] >= left[c]

LeaseInv == TypeOK /\ WithinLease /\ OnCircle /\ TableBacks

-----------------------------------------------------------------------------
(* The constants, as the provers want them. *)
LEMMA Circle ==
  /\ Wrap \in Nat /\ LeaseTime \in Nat /\ LeaseTime > 0
  /\ Wrap > 0 /\ 2 * (LeaseTime + 1) < Wrap
  /\ DHCPS_MAX_IP \in Nat /\ DHCPS_MAX_IP \notin Addresses /\ Addresses \subseteq Nat
BY LeaseAssumption DEF Addresses

(* Going once around the circle, backwards or forwards.                    *)
LEMMA Around ==
  ASSUME NEW x \in 0..(Wrap - 1)
  PROVE  x % Wrap = x /\ (x - Wrap) % Wrap = x /\ (x + Wrap) % Wrap = x
BY Circle

(* A point g ahead is g ahead, wherever on the circle the present is.      *)
LEMMA PointAhead ==
  ASSUME NEW t \in 0..(Wrap - 1), NEW g \in 0..(Wrap - 1)
  PROVE  (t + g) % Wrap \in 0..(Wrap - 1) /\ (((t + g) % Wrap) - t) % Wrap = g
<1>1. CASE t + g < Wrap
  BY <1>1, Circle, Around
<1>2. CASE t + g >= Wrap
  <2>1. t + g - Wrap \in 0..(Wrap - 1) /\ (t + g) % Wrap = t + g - Wrap
    <3>1. t + g - Wrap \in 0..(Wrap - 1)
      BY <1>2, Circle
    <3> QED
      BY <3>1, Circle, Around
  <2>2. ((t + g) % Wrap) - t = g - Wrap
    BY <2>1, Circle
  <2> QED
    BY <2>1, <2>2, Circle, Around
<1> QED
  BY <1>1, <1>2, Circle

(* A unit later every point but the present one is a unit nearer, and that *)
(* one is as far ahead as can be.                                          *)
LEMMA UnitLater ==
  ASSUME NEW t \in 0..(Wrap - 1), NEW e \in 0..(Wrap - 1)
  PROVE  /\ (t + 1) % Wrap \in 0..(Wrap - 1)
         /\ (e - t) % Wrap \in 0..(Wrap - 1)
         /\ (e - t) % Wrap > 0 => (e - ((t + 1) % Wrap)) % Wrap = ((e - t) % Wrap) - 1
         /\ (e - t) % Wrap = 0 => (e - ((t + 1) % Wrap)) % Wrap = Wrap - 1
<1>1. (t + 1) % Wrap = IF t = Wrap - 1 THEN 0 ELSE t + 1
  BY Circle, Around
<1>2. (e - t) % Wrap = IF e >= t THEN e - t ELSE e - t + Wrap
  BY Circle, Around
<1>3. (e - ((t + 1) % Wrap)) % Wrap =
        IF e >= ((t + 1) % Wrap) THEN e - ((t + 1) % Wrap) ELSE e - ((t + 1) % Wrap) + Wrap
  BY <1>1, Circle, Around
<1> QED
  BY <1>1, <1>2, <1>3, Circle

(* A lease that still runs is not over for the server.                     *)
LEMMA RunningIsNotOver ==
  ASSUME LeaseInv, NEW a \in Addresses, granted[a] >= 0
  PROVE  ~Expired(a)
<1>1. granted[a] \in Int /\ carry \in {0, 1} /\ granted[a] =< LeaseTime + carry
  BY DEF LeaseInv, TypeOK, WithinLease
<1>2. Ahead(a) = granted[a]
  BY DEF LeaseInv, OnCircle
<1> QED
  BY <1>1, <1>2, Circle DEF Expired, Ahead

-----------------------------------------------------------------------------
LEMMA InvInit == DhcpInit => LeaseInv
<1> SUFFICES ASSUME DhcpInit PROVE LeaseInv
  OBVIOUS
<1>1. TypeOK
  BY Circle DEF DhcpInit, TypeOK
<1>2. WithinLease /\ OnCircle
  BY Circle DEF DhcpInit, WithinLease, OnCircle
<1>3. TableBacks
  BY Circle DEF DhcpInit, TableBacks
<1> QED
  BY <1>1, <1>2, <1>3 DEF LeaseInv

(* Only what is over is cleared, and nobody uses it.                       *)
LEMMA DiscoverKeeps ==
  ASSUME LeaseInv, NEW c \in Clients, Discover(c)
  PROVE  LeaseInv'
<1>1. /\ \A a \in Addresses : a \in Cleared(c) => Expired(a)
      /\ UNCHANGED <<ticks, carry, held, left>>
  BY DEF Discover, Cleared
<1>2. lease' = [a \in Addresses |-> IF a \in Cleared(c) THEN [lease[a] EXCEPT !.mac = NoMac]
                                    ELSE lease[a]]
      /\ granted' = [a \in Addresses |-> IF a \in Cleared(c) THEN -1 ELSE granted[a]]
  BY DEF Discover
<1> HIDE DEF Discover
<1>3. \A a \in Addresses : lease[a] \in Leases /\ [lease[a] EXCEPT !.mac = NoMac] \in Leases
  BY DEF LeaseInv, TypeOK, Leases
<1>4. TypeOK'
  BY <1>1, <1>2, <1>3, Circle DEF LeaseInv, TypeOK, Leases
<1>5. WithinLease'
  BY <1>1, <1>2, Circle DEF LeaseInv, TypeOK, WithinLease
<1>6. ASSUME NEW a \in Addresses, granted[a] >= 0
      PROVE  lease'[a] = lease[a] /\ granted'[a] = granted[a]
  BY <1>1, <1>2, <1>6, RunningIsNotOver
<1>7. OnCircle'
  <2> SUFFICES ASSUME NEW a \in Addresses, granted'[a] >= 0 PROVE Ahead(a)' = granted'[a]
    BY DEF OnCircle
  <2>1. granted[a] >= 0
    BY <1>2
  <2> QED
    BY <1>1, <1>6, <2>1 DEF LeaseInv, OnCircle, Ahead
<1>8. TableBacks'
  <2> SUFFICES ASSUME NEW d \in Clients, NEW a \in Addresses, held'[d] = a
               PROVE  lease'[a].mac = d /\ granted'[a] >= left'[d]
    BY DEF TableBacks
  <2>1. lease[a].mac = d /\ granted[a] >= left[d] /\ left[d] \in Nat /\ granted[a] \in Int
    BY <1>1 DEF LeaseInv, TableBacks, TypeOK
  <2> QED
    BY <1>1, <1>6, <2>1
<1> QED
  BY <1>4, <1>5, <1>7, <1>8 DEF LeaseInv

(* A lease is renewed by its owner, or given where nobody is.              *)
LEMMA RequestKeeps ==
  ASSUME LeaseInv, NEW c \in Clients, NEW a \in Addresses, Request(c, a)
  PROVE  LeaseInv'
<1> DEFINE entry == [mac |-> c, expiry |-> Expiry]
<1>1. /\ lease' = [lease EXCEPT ![a] = entry] /\ granted' = [granted EXCEPT ![a] = LeaseTime + carry]
      /\ ticks' = ticks /\ carry' = carry /\ lease[a].mac \in {c, NoMac}
      /\ \/ /\ held' = [held EXCEPT ![c] = a]
            /\ left' = [left EXCEPT ![c] = LeaseTime + carry]
         \/ held' = held /\ left' = left
  BY DEF Request, Grantable
<1>2. ticks \in 0..(Wrap - 1) /\ carry \in {0, 1} /\ LeaseTime + carry \in 0..(Wrap - 1)
  BY Circle DEF LeaseInv, TypeOK
<1>3. Expiry \in 0..(Wrap - 1) /\ (Expiry - ticks) % Wrap = LeaseTime + carry
  <2>1. Expiry = (ticks + (LeaseTime + carry)) % Wrap
    BY <1>2, Circle DEF Expiry
  <2> QED
    BY <1>2, <2>1, PointAhead
<1>4. entry \in Leases
  BY <1>3 DEF Leases
<1>5. TypeOK'
  <2>1. lease' \in [Addresses -> Leases]
    BY <1>1, <1>4 DEF LeaseInv, TypeOK, Leases
  <2>2. a \in 0..DHCPS_MAX_IP /\ LeaseTime + carry \in 0..(LeaseTime + 1)
        /\ LeaseTime + carry \in -1..(LeaseTime + 1)
    BY <1>2, Circle DEF Addresses
  <2>3. held' \in [Clients -> 0..DHCPS_MAX_IP] /\ left' \in [Clients -> 0..(LeaseTime + 1)]
    BY <1>1, <2>2 DEF LeaseInv, TypeOK
  <2>4. granted' \in [Addresses -> -1..(LeaseTime + 1)]
    BY <1>1, <2>2 DEF LeaseInv, TypeOK
  <2> QED
    BY <1>1, <1>2, <2>1, <2>3, <2>4 DEF TypeOK, Leases
<1>6. WithinLease'
  BY <1>1, <1>2, Circle DEF LeaseInv, TypeOK, WithinLease
<1> HIDE DEF entry
<1>7. lease'[a].mac = c /\ lease'[a].expiry = Expiry /\ granted'[a] = LeaseTime + carry
  BY <1>1 DEF LeaseInv, TypeOK, entry
<1>8. \A b \in Addresses : b # a => lease'[b] = lease[b] /\ granted'[b] = granted[b]
  BY <1>1 DEF LeaseInv, TypeOK
<1>9. OnCircle'
  <2> SUFFICES ASSUME NEW b \in Addresses, granted'[b] >= 0 PROVE Ahead(b)' = granted'[b]
    BY DEF OnCircle
  <2>1. CASE b = a
    BY <1>1, <1>3, <1>7, <2>1 DEF Ahead
  <2>2. CASE b # a
    BY <1>1, <1>8, <2>2 DEF LeaseInv, OnCircle, Ahead
  <2> QED
    BY <2>1, <2>2
<1>10. TableBacks'
  <2> SUFFICES ASSUME NEW d \in Clients, NEW b \in Addresses, held'[d] = b
               PROVE  lease'[b].mac = d /\ granted'[b] >= left'[d]
    BY DEF TableBacks
  <2>1. left'[d] =< LeaseTime + carry /\ left'[d] \in Int
    BY <1>1, <1>5, <1>6 DEF WithinLease, TypeOK
  <2>2. CASE d = c /\ b = a
    BY <1>2, <1>7, <2>1, <2>2, Circle
  <2>3. CASE d = c /\ b # a
    <3>1. held' = held /\ left' = left
      BY <1>1, <2>3 DEF LeaseInv, TypeOK
    <3> QED
      BY <1>8, <2>3, <3>1 DEF LeaseInv, TableBacks
  <2>4. CASE d # c
    <3>1. held'[d] = held[d] /\ left'[d] = left[d]
      BY <1>1, <2>4 DEF LeaseInv, TypeOK
    <3>2. lease[b].mac = d /\ granted[b] >= left[d]
      BY <3>1 DEF LeaseInv, TableBacks
    <3>3. b # a
      BY <1>1, <2>4, <3>2, LeaseAssumption
    <3> QED
      BY <1>8, <3>1, <3>2, <3>3
  <2> QED
    BY <2>2, <2>3, <2>4
<1> QED
  BY <1>5, <1>6, <1>9, <1>10 DEF LeaseInv

(* A unit later every lease and every client has one unit less.            *)
LEMMA TickKeeps ==
  ASSUME LeaseInv, Tick
  PROVE  LeaseInv'
<1>1. /\ ticks' = (ticks + 1) % Wrap /\ carry = 1 /\ carry' = 0 /\ lease' = lease
      /\ held' = [c \in Clients |-> IF left[c] = 0 THEN DHCPS_MAX_IP ELSE held[c]]
      /\ left' = [c \in Clients |-> IF left[c] = 0 THEN 0 ELSE left[c] - 1]
      /\ granted' = [a \in Addresses |-> IF granted[a] = -1 THEN -1 ELSE granted[a] - 1]
  BY DEF Tick
<1>2. ticks \in 0..(Wrap - 1) /\ \A a \in Addresses : lease[a].expiry \in 0..(Wrap - 1)
  BY DEF LeaseInv, TypeOK
<1>3. /\ \A a \in Addresses : granted[a] \in Int /\ granted[a] >= -1 /\ granted[a] =< LeaseTime + 1
      /\ \A c \in Clients : left[c] \in Nat /\ left[c] =< LeaseTime + 1
  BY <1>1, Circle DEF LeaseInv, TypeOK, WithinLease
<1>4. TypeOK'
  <2>1. ticks' \in 0..(Wrap - 1)
    BY <1>1, <1>2, UnitLater
  <2>2. granted' \in [Addresses -> -1..(LeaseTime + 1)]
    BY <1>1, <1>3, Circle
  <2>3. left' \in [Clients -> 0..(LeaseTime + 1)]
    BY <1>1, <1>3, Circle
  <2>4. held' \in [Clients -> 0..DHCPS_MAX_IP]
    BY <1>1, Circle DEF LeaseInv, TypeOK
  <2> QED
    BY <1>1, <2>1, <2>2, <2>3, <2>4 DEF LeaseInv, TypeOK
<1>5. WithinLease'
  BY <1>1, <1>3, Circle DEF WithinLease
<1>6. OnCircle'
  <2> SUFFICES ASSUME NEW a \in Addresses, granted'[a] >= 0 PROVE Ahead(a)' = granted'[a]
    BY DEF OnCircle
  <2>1. granted[a] > 0 /\ granted'[a] = granted[a] - 1
    BY <1>1, <1>3
  <2>2. (lease[a].expiry - ticks) % Wrap = granted[a]
    BY <1>3, <2>1 DEF LeaseInv, OnCircle, Ahead
  <2>3. (lease[a].expiry - ((ticks + 1) % Wrap)) % Wrap = granted[a] - 1
    BY <1>2, <2>1, <2>2, UnitLater
  <2> QED
    BY <1>1, <2>1, <2>3 DEF Ahead
<1>7. TableBacks'
  <2> SUFFICES ASSUME NEW c \in Clients, NEW a \in Addresses, held'[c] = a
               PROVE  lease'[a].mac = c /\ granted'[a] >= left'[c]
    BY DEF TableBacks
  <2>1. left[c] # 0 /\ held[c] = a /\ left'[c] = left[c] - 1
    BY <1>1, Circle
  <2>2. lease[a].mac = c /\ granted[a] >= left[c]
    BY <2>1 DEF LeaseInv, TableBacks
  <2> QED
    BY <1>1, <1>3, <2>1, <2>2
<1> QED
  BY <1>4, <1>5, <1>6, <1>7 DEF LeaseInv

LEMMA InvNext == LeaseInv /\ [DhcpNext]_dhcpVars => LeaseInv'
<1> SUFFICES ASSUME LeaseInv, [DhcpNext]_dhcpVars PROVE LeaseInv'
  OBVIOUS
<1>1. CASE dhcp_server_process
  BY <1>1, DiscoverKeeps, RequestKeeps DEF dhcp_server_process
<1>2. CASE Advance
  BY <1>2, Circle DEF Advance, LeaseInv, TypeOK, WithinLease, OnCircle, Ahead, TableBacks
<1>3. CASE Tick
  BY <1>3, TickKeeps
<1>4. CASE UNCHANGED dhcpVars
  BY <1>4 DEF dhcpVars, LeaseInv, TypeOK, WithinLease, OnCircle, Ahead, TableBacks
<1> QED
  BY <1>1, <1>2, <1>3, <1>4 DEF DhcpNext

LEMMA Invariance == DhcpSpec => []LeaseInv
BY InvInit, InvNext, PTL DEF DhcpSpec

-----------------------------------------------------------------------------
(* No two clients use one address, across expiry, reuse, lost answers and  *)
(* the wrap of the counter (dhcpserver.c 215-271).                         *)
THEOREM AddressesApart == DhcpSpec => []NoSharedAddress
<1>1. LeaseInv => NoSharedAddress
  BY DEF LeaseInv, TableBacks, NoSharedAddress, Holds
<1> QED
  BY <1>1, Invariance, PTL

(* A non-empty set of addresses has a smallest one.                        *)
LEMMA SmallestIsOne ==
  ASSUME NEW S, S \subseteq Addresses, S # {}
  PROVE  Smallest(S) \in S
<1> DEFINE R == OpToRel(<, Nat)
<1>1. IsWellFoundedOn(R, Nat)
  BY NatLessThanWellFounded
<1>2. S \subseteq Nat
  BY Circle
<1>3. \A x, y \in Nat : y < x => <<y, x>> \in R
  BY DEF OpToRel
<1> HIDE DEF R
<1>4. PICK a \in S : \A b \in S : ~(<<b, a>> \in R)
  BY <1>1, <1>2, WFMin
<1>5. \A b \in S : ~(b < a)
  BY <1>2, <1>3, <1>4, Zenon
<1>6. \A b \in S : a =< b
  BY <1>2, <1>5
<1> QED
  BY <1>6 DEF Smallest

(* An offer goes to nobody else's address, and one that has an address is  *)
(* offered one of its own (dhcpserver.c 216-242).                          *)
THEOREM OffersFit == DhcpSpec => []OfferFits
<1>1. LeaseInv => OfferFits
  <2> SUFFICES ASSUME LeaseInv, NEW c \in Clients
               PROVE  /\ \A d \in Clients \ {c} : ~Holds(d, Offer(c))
                      /\ held[c] \in Addresses => Offer(c) \in Own(c)
    BY DEF OfferFits
  <2>1. Own(c) \subseteq Addresses /\ Usable(c) \subseteq Addresses
    BY DEF Own, Usable, Scanned
  <2>2. Own(c) # {} => Offer(c) \in Own(c)
    BY <2>1, SmallestIsOne DEF Offer
  <2>3. held[c] \in Addresses => held[c] \in Own(c)
    BY DEF LeaseInv, TableBacks, Own
  <2>4. ASSUME NEW d \in Clients, d # c, Holds(d, Offer(c)) PROVE FALSE
    <3>1. Offer(c) \in Addresses /\ lease[Offer(c)].mac = d /\ granted[Offer(c)] >= left[d]
      BY <2>4 DEF Holds, LeaseInv, TableBacks
    <3>2. granted[Offer(c)] >= 0
      BY <3>1 DEF LeaseInv, TypeOK
    <3>3. Own(c) = {}
      BY <2>2, <2>4, <3>1 DEF Own
    <3>4. Offer(c) \in Usable(c)
      BY <2>1, <3>1, <3>3, SmallestIsOne, Circle DEF Offer
    <3>5. Expired(Offer(c))
      BY <2>4, <3>1, <3>4, LeaseAssumption DEF Usable
    <3> QED
      BY <3>1, <3>2, <3>5, RunningIsNotOver
  <2> QED
    BY <2>2, <2>3, <2>4
<1> QED
  BY <1>1, Invariance, PTL

(* A lease can be taken again from the unit after its end (dhcpserver.c    *)
(* 231).                                                                   *)
THEOREM EndIsSeen == DhcpSpec => ExpiredReused
<1> DEFINE Seen == \A a \in Addresses : granted[a] = 0 /\ granted'[a] = -1 => Expired(a)'
<1>1. LeaseInv /\ [DhcpNext]_dhcpVars => [Seen]_dhcpVars
  <2> SUFFICES ASSUME LeaseInv, [DhcpNext]_dhcpVars, NEW a \in Addresses,
                      granted[a] = 0, granted'[a] = -1
               PROVE  Expired(a)'
    OBVIOUS
  <2>1. ASSUME NEW c \in Clients, Discover(c) PROVE FALSE
    <3>1. a \in Cleared(c)
      BY <2>1 DEF Discover
    <3> QED
      BY <3>1, RunningIsNotOver DEF Cleared
  <2>2. ASSUME NEW c \in Clients, NEW b \in Addresses, Request(c, b) PROVE FALSE
    BY <2>2, Circle DEF Request, LeaseInv, TypeOK
  <2>3. Tick
    BY <2>1, <2>2 DEF DhcpNext, dhcp_server_process, Advance, dhcpVars
  <2>4. ticks \in 0..(Wrap - 1) /\ lease[a].expiry \in 0..(Wrap - 1)
        /\ (lease[a].expiry - ticks) % Wrap = 0
    BY DEF LeaseInv, TypeOK, OnCircle, Ahead
  <2>5. (lease[a].expiry - ((ticks + 1) % Wrap)) % Wrap = Wrap - 1
    BY <2>4, UnitLater
  <2>6. 2 * (Wrap - 1) >= Wrap
    BY Circle
  <2> QED
    BY <2>3, <2>5, <2>6 DEF Tick, Expired
<1> QED
  BY <1>1, Invariance, PTL DEF DhcpSpec, ExpiredReused
=============================================================================
