-------------------------- MODULE Telemetry_proofs --------------------------
(***************************************************************************)
(* The two ends of the telemetry connection, each by itself.  The server:  *)
(* whom client_pcb points to, and that clients who come one at a time are  *)
(* answered everything in order, for any clients, any commands and any     *)
(* number of them.  Then the dashboard.                                    *)
(***************************************************************************)
EXTENDS Telemetry, Dashboard, SequenceTheorems, TLAPS

(* What the server may read at once, and what it may answer.               *)
Texts == Commands \cup {Join(a, b) : a \in Commands, b \in Commands}
Answers == {Parse(text) : text \in Texts}

Typed ==
  /\ client_pcb \in Clients \cup {NoClient}
  /\ conn \in [Clients -> States]
  /\ toServer \in [Clients -> Seq(Commands)]
  /\ toClient \in [Clients -> Seq(Answers)]
  /\ handled \in [Clients -> Seq(Texts)]
  /\ overlapped \in BOOLEAN /\ lost \in BOOLEAN

(* The target has been accepted; a client that has not been is owed nothing. *)
Accepted ==
  /\ client_pcb # NoClient => conn[client_pcb] # "listening"
  /\ \A c \in Clients : conn[c] = "listening" => handled[c] = <<>> /\ toClient[c] = <<>>

Answered(c) == toClient[c] = [i \in DOMAIN handled[c] |-> Parse(handled[c][i])]

(* One at a time: there is one connection, and while it is open it is the target. *)
OneAtATime ==
  ~overlapped =>
    /\ \A c, d \in Pcbs : c = d
    /\ \A c \in Clients : conn[c] = "open" => client_pcb = c /\ Answered(c)

ServerInv == Typed /\ Accepted /\ TargetConnected /\ OneAtATime

LEMMA InitServer == Init => ServerInv
<1> SUFFICES ASSUME Init PROVE ServerInv
  OBVIOUS
<1>1. Typed
  <2>1. toServer \in [Clients -> Seq(Commands)]
    BY DEF Init
  <2>2. toClient \in [Clients -> Seq(Answers)]
    BY DEF Init
  <2>3. handled \in [Clients -> Seq(Texts)]
    BY DEF Init
  <2> QED
    BY <2>1, <2>2, <2>3 DEF Init, Typed, States
<1>2. Accepted /\ TargetConnected
  BY DEF Init, Accepted, TargetConnected
<1>3. OneAtATime
  BY DEF Init, OneAtATime, Pcbs
<1> QED
  BY <1>1, <1>2, <1>3 DEF ServerInv

(* Closing leaves no target, and every connection but the target as it was. *)
LEMMA Closing ==
  ASSUME NEW pcbs \in [Clients -> States], NEW state \in {"freed", "closing"}, Typed,
         tcp_server_close(pcbs, state)
  PROVE  /\ client_pcb' = NoClient /\ conn' \in [Clients -> States]
         /\ \A c \in Clients : c # client_pcb => conn'[c] = pcbs[c]
         /\ client_pcb # NoClient => conn'[client_pcb] \in {"freed", "closing"}
BY DEF tcp_server_close, Typed, States

(* One answer more for one command more.                                   *)
LEMMA OneMore ==
  ASSUME NEW h \in Seq(Texts), NEW text \in Texts
  PROVE  Append([i \in DOMAIN h |-> Parse(h[i])], Parse(text))
           = [i \in DOMAIN Append(h, text) |-> Parse(Append(h, text)[i])]
<1> DEFINE more == Append(h, text)
           replies == [i \in DOMAIN h |-> Parse(h[i])]
           all == [i \in DOMAIN more |-> Parse(more[i])]
<1>1. Len(h) \in Nat /\ DOMAIN h = 1..Len(h)
  OBVIOUS
<1>2. /\ DOMAIN more = 1..(Len(h) + 1)
      /\ more[Len(h) + 1] = text
      /\ \A i \in 1..Len(h) : more[i] = h[i]
  OBVIOUS
<1>3. replies \in Seq(Answers) /\ Len(replies) = Len(h)
  <2>1. \A i \in 1..Len(h) : h[i] \in Texts
    OBVIOUS
  <2>2. \A i \in 1..Len(h) : Parse(h[i]) \in Answers
    BY <2>1 DEF Answers
  <2> QED
    BY <1>1, <2>2
<1>4. Parse(text) \in Answers
  BY DEF Answers
<1>5. /\ Append(replies, Parse(text)) \in Seq(Answers)
      /\ Len(Append(replies, Parse(text))) = Len(h) + 1
      /\ Append(replies, Parse(text))[Len(h) + 1] = Parse(text)
      /\ \A i \in 1..Len(h) : Append(replies, Parse(text))[i] = replies[i]
  <2> HIDE DEF replies
  <2> QED
    BY <1>3, <1>4, AppendProperties
<1>6. all \in Seq(Answers) /\ Len(all) = Len(h) + 1
  <2>1. \A i \in 1..(Len(h) + 1) : more[i] \in Texts
    BY <1>1, <1>2
  <2>2. \A i \in 1..(Len(h) + 1) : Parse(more[i]) \in Answers
    BY <2>1 DEF Answers
  <2> HIDE DEF more
  <2> QED
    BY <1>1, <1>2, <2>2
<1>7. \A i \in 1..(Len(h) + 1) : Append(replies, Parse(text))[i] = all[i]
  <2> TAKE i \in 1..(Len(h) + 1)
  <2>1. all[i] = Parse(more[i])
    BY <1>2
  <2>2. CASE i = Len(h) + 1
    BY <1>2, <1>5, <2>1, <2>2
  <2>3. CASE i \in 1..Len(h)
    <3>1. replies[i] = Parse(h[i])
      BY <1>1, <2>3
    <3> QED
      BY <1>2, <1>5, <2>1, <2>3, <3>1
  <2> QED
    BY <1>1, <2>2, <2>3
<1> HIDE DEF all, replies
<1>8. Append(replies, Parse(text)) = all
  BY <1>1, <1>5, <1>6, <1>7, SeqEqual
<1> QED
  BY <1>8 DEF all, replies

(* A step that leaves the target and the answers alone, and no connection  *)
(* more open or in use than it was.                                        *)
LEMMA NothingNew ==
  ASSUME ServerInv, UNCHANGED <<client_pcb, toClient, handled, overlapped>>,
         conn' \in [Clients -> States], toServer' \in [Clients -> Seq(Commands)], lost' \in BOOLEAN,
         \A c \in Clients : conn'[c] = conn[c] \/ (conn[c] # "listening" /\ conn'[c] = "freed"),
         lost' \/ (lost' = lost /\ \A c \in Clients : conn[c] = "open" => conn'[c] = "open")
  PROVE  ServerInv'
<1>1. Typed'
  BY DEF ServerInv, Typed
<1>2. Accepted'
  BY DEF ServerInv, Typed, Accepted
<1>3. TargetConnected'
  BY DEF ServerInv, Typed, TargetConnected
<1>4. Pcbs' \subseteq Pcbs
  BY DEF Pcbs
<1>5. OneAtATime'
  BY <1>4 DEF ServerInv, Typed, OneAtATime, Answered
<1> QED
  BY <1>1, <1>2, <1>3, <1>5 DEF ServerInv

LEMMA AcceptKeeps ==
  ASSUME ServerInv, NEW c \in Clients, tcp_server_accept(c)
  PROVE  ServerInv'
<1> USE DEF tcp_server_accept
<1>1. conn' = [conn EXCEPT ![c] = "open"] /\ conn \in [Clients -> States] /\ c # NoClient
  BY ServerAssumption DEF ServerInv, Typed
<1>2. Typed'
  BY <1>1 DEF ServerInv, Typed, States, connections
<1>3. Accepted'
  BY <1>1 DEF ServerInv, Typed, Accepted
<1>4. TargetConnected'
  BY <1>1 DEF TargetConnected
<1>5. OneAtATime'
  <2> SUFFICES ASSUME ~overlapped' PROVE OneAtATime'
    BY DEF OneAtATime
  <2>1. Pcbs = {}
    OBVIOUS
  <2>2. \A d \in Clients : d # c => conn'[d] \notin {"open", "halfopen", "closing"}
    BY <1>1, <2>1 DEF Pcbs
  <2>3. handled'[c] = <<>> /\ toClient'[c] = <<>>
    BY DEF ServerInv, Accepted
  <2>4. Answered(c)'
    BY <2>3 DEF Answered
  <2> QED
    BY <2>2, <2>4 DEF OneAtATime, Pcbs
<1> QED
  BY <1>2, <1>3, <1>4, <1>5 DEF ServerInv

(* A step that closes the target: afterwards there is none, and whoever is *)
(* still open had not been the target, so connections have overlapped.     *)
LEMMA CloseKeeps ==
  ASSUME ServerInv, NEW pcbs \in [Clients -> States], NEW state \in {"freed", "closing"},
         tcp_server_close(pcbs, state), UNCHANGED <<overlapped, lost>>,
         \A c \in Clients : /\ pcbs[c] = "open" => conn[c] = "open"
                            /\ pcbs[c] = "listening" <=> conn[c] = "listening"
                            /\ pcbs[c] \in {"halfopen", "closing"} =>
                                 conn[c] \in {"open", "halfopen", "closing"},
         \A c \in Clients : handled'[c] = handled[c] \/ conn[c] # "listening",
         toServer' \in [Clients -> Seq(Commands)], handled' \in [Clients -> Seq(Texts)],
         UNCHANGED toClient,
         client_pcb # NoClient => conn[client_pcb] # "freed" \/ pcbs[client_pcb] = "freed"
  PROVE  ServerInv'
<1>1. /\ client_pcb' = NoClient /\ conn' \in [Clients -> States]
      /\ \A c \in Clients : c # client_pcb => conn'[c] = pcbs[c]
      /\ client_pcb # NoClient => conn'[client_pcb] \in {"freed", "closing"}
  BY Closing DEF ServerInv
<1>2. Typed'
  BY <1>1 DEF ServerInv, Typed
<1>3. Accepted'
  <2> SUFFICES ASSUME NEW c \in Clients, conn'[c] = "listening"
               PROVE  handled'[c] = <<>> /\ toClient'[c] = <<>>
    BY <1>1 DEF Accepted
  <2>1. c # client_pcb
    BY <1>1, ServerAssumption
  <2>2. conn[c] = "listening"
    BY <1>1, <2>1
  <2>3. handled[c] = <<>> /\ toClient[c] = <<>>
    BY <2>2 DEF ServerInv, Accepted
  <2> QED
    BY <2>2, <2>3
<1>4. TargetConnected'
  BY <1>1 DEF TargetConnected
<1>5. OneAtATime'
  <2> SUFFICES ASSUME ~overlapped' PROVE OneAtATime'
    BY DEF OneAtATime
  <2>1. ~overlapped
    OBVIOUS
  <2>2. ASSUME NEW c \in Clients, conn'[c] = "open" PROVE FALSE
    <3>1. c # client_pcb
      BY <1>1, <2>2, ServerAssumption
    <3>2. conn[c] = "open"
      BY <1>1, <2>2, <3>1
    <3> QED
      BY <2>1, <3>1, <3>2 DEF ServerInv, OneAtATime
  <2>3. Pcbs' \subseteq Pcbs
    <3> SUFFICES ASSUME NEW c \in Clients, conn'[c] \in {"open", "halfopen", "closing"}
                 PROVE  conn[c] \in {"open", "halfopen", "closing"}
      BY DEF Pcbs
    <3>1. CASE c # client_pcb
      BY <1>1, <3>1
    <3>2. CASE c = client_pcb
      <4>1. client_pcb # NoClient
        BY <3>2, ServerAssumption
      <4>2. conn[c] # "listening"
        BY <3>2, <4>1 DEF ServerInv, Accepted
      <4>3. conn[c] # "freed"
        <5>1. pcbs[c] = "freed" => conn'[c] = "freed"
          BY <3>2, <4>1 DEF tcp_server_close
        <5> QED
          BY <3>2, <4>1, <5>1
      <4> QED
        BY <4>2, <4>3 DEF ServerInv, Typed, States
    <3> QED
      BY <3>1, <3>2
  <2> QED
    BY <2>1, <2>2, <2>3 DEF ServerInv, OneAtATime
<1> QED
  BY <1>2, <1>3, <1>4, <1>5 DEF ServerInv

LEMMA ReceiveKeeps ==
  ASSUME ServerInv, NEW c \in Clients, conn[c] = "open",
         NEW text \in Texts, NEW rest \in Seq(Commands), Receive(c, text, rest)
  PROVE  ServerInv'
<1>1. /\ handled' = [handled EXCEPT ![c] = Append(@, text)]
      /\ toServer' = [toServer EXCEPT ![c] = rest]
      /\ UNCHANGED <<overlapped, lost>>
  BY DEF Receive, history
<1>2. handled' \in [Clients -> Seq(Texts)] /\ toServer' \in [Clients -> Seq(Commands)]
  BY <1>1 DEF ServerInv, Typed
<1>3. \A d \in Clients : handled'[d] = handled[d] \/ conn[d] # "listening"
  BY <1>1 DEF ServerInv, Typed
<1>4. c # NoClient /\ conn \in [Clients -> States] /\ Parse(text) \in Answers
  BY ServerAssumption DEF ServerInv, Typed, Answers
<1>5. ~overlapped => client_pcb = c /\ Answered(c)
  BY DEF ServerInv, OneAtATime
<1>6. CASE client_pcb = NoClient /\ UNCHANGED <<client_pcb, conn, toClient>>
  <2>1. overlapped
    BY <1>4, <1>5, <1>6
  <2>2. Typed'
    BY <1>1, <1>2, <1>6 DEF ServerInv, Typed
  <2>3. Accepted' /\ TargetConnected'
    BY <1>3, <1>6 DEF ServerInv, Accepted, TargetConnected
  <2>4. OneAtATime'
    BY <1>1, <2>1 DEF OneAtATime
  <2> QED
    BY <2>2, <2>3, <2>4 DEF ServerInv
<1>7. CASE /\ client_pcb # NoClient
           /\ toClient' = IF conn[client_pcb] = "freed" THEN toClient
                          ELSE [toClient EXCEPT ![client_pcb] = Append(@, Parse(text))]
           /\ UNCHANGED <<client_pcb, conn>>
  <2>1. toClient' \in [Clients -> Seq(Answers)]
    BY <1>4, <1>7 DEF ServerInv, Typed
  <2>2. Typed'
    BY <1>1, <1>2, <1>7, <2>1 DEF ServerInv, Typed
  <2>3. Accepted'
    <3>1. \A d \in Clients : toClient'[d] = toClient[d] \/ d = client_pcb
      BY <1>7 DEF ServerInv, Typed
    <3> QED
      BY <1>3, <1>7, <3>1 DEF ServerInv, Accepted
  <2>4. TargetConnected'
    BY <1>1, <1>7 DEF ServerInv, TargetConnected
  <2>5. OneAtATime'
    <3> SUFFICES ASSUME ~overlapped' PROVE OneAtATime'
      BY DEF OneAtATime
    <3>1. ~overlapped /\ client_pcb = c
      BY <1>1, <1>5
    <3>2. handled'[c] = Append(handled[c], text) /\ handled[c] \in Seq(Texts)
      BY <1>1 DEF ServerInv, Typed
    <3>3. toClient'[c] = Append(toClient[c], Parse(text))
      BY <1>7, <3>1 DEF ServerInv, Typed
    <3>4. Answered(c)'
      BY <1>5, <3>1, <3>2, <3>3, OneMore DEF Answered
    <3>5. Pcbs' = Pcbs
      BY <1>7 DEF Pcbs
    <3> QED
      BY <1>7, <3>1, <3>4, <3>5 DEF ServerInv, OneAtATime
  <2> QED
    BY <2>2, <2>3, <2>4, <2>5 DEF ServerInv
<1>8. CASE /\ client_pcb # NoClient /\ UNCHANGED toClient
           /\ tcp_server_close(conn, IF client_pcb = c THEN "freed" ELSE "closing")
  <2> DEFINE state == IF client_pcb = c THEN "freed" ELSE "closing"
  <2>1. state \in {"freed", "closing"} /\ tcp_server_close(conn, state)
    BY <1>8
  <2> HIDE DEF state
  <2> QED
    BY <1>1, <1>2, <1>3, <1>4, <1>8, <2>1, CloseKeeps
<1> QED
  BY <1>6, <1>7, <1>8 DEF Receive, send_data_to_target

LEMMA ReceiveDataKeeps ==
  ASSUME ServerInv, NEW c \in Clients, ReceiveData(c)
  PROVE  ServerInv'
<1>1. toServer[c] \in Seq(Commands) /\ toServer[c] # <<>> /\ conn[c] = "open"
  BY DEF ServerInv, Typed, ReceiveData
<1>2. Head(toServer[c]) \in Commands /\ Tail(toServer[c]) \in Seq(Commands)
  BY <1>1
<1>3. CASE Receive(c, Head(toServer[c]), Tail(toServer[c]))
  <2>1. Head(toServer[c]) \in Texts
    BY <1>2 DEF Texts
  <2> QED
    BY <1>1, <1>2, <1>3, <2>1, ReceiveKeeps
<1>4. CASE /\ Len(toServer[c]) > 1
           /\ Receive(c, Join(toServer[c][1], toServer[c][2]), Tail(Tail(toServer[c])))
  <2>1. toServer[c][1] \in Commands /\ toServer[c][2] \in Commands
    BY <1>1, <1>4
  <2>2. Join(toServer[c][1], toServer[c][2]) \in Texts
    BY <2>1 DEF Texts
  <2>3. Tail(Tail(toServer[c])) \in Seq(Commands)
    <3>1. Len(Tail(toServer[c])) > 0
      BY <1>1, <1>4
    <3>2. Tail(toServer[c]) # <<>>
      BY <3>1
    <3> QED
      BY <1>2, <3>2
  <2> QED
    BY <1>1, <1>4, <2>2, <2>3, ReceiveKeeps
<1> QED
  BY <1>3, <1>4 DEF ReceiveData

LEMMA ReceiveFinKeeps ==
  ASSUME ServerInv, NEW c \in Clients, ReceiveFin(c)
  PROVE  ServerInv'
<1> DEFINE pcbs == [conn EXCEPT ![c] = IF @ = "open" THEN "halfopen" ELSE "freed"]
           state == IF client_pcb = c THEN "freed" ELSE "closing"
<1>1. /\ conn[c] \in {"open", "closing"} /\ tcp_server_close(pcbs, state)
      /\ UNCHANGED <<toServer, toClient, handled, overlapped, lost>>
  BY DEF ReceiveFin, history
<1>2. conn \in [Clients -> States] /\ state \in {"freed", "closing"}
  BY DEF ServerInv, Typed
<1>3. pcbs \in [Clients -> States]
  BY <1>2 DEF States
<1>4. \A d \in Clients : /\ pcbs[d] = "open" => conn[d] = "open"
                         /\ pcbs[d] = "listening" <=> conn[d] = "listening"
                         /\ pcbs[d] \in {"halfopen", "closing"} =>
                              conn[d] \in {"open", "halfopen", "closing"}
  BY <1>1, <1>2
<1>5. client_pcb # NoClient => conn[client_pcb] # "freed" \/ pcbs[client_pcb] = "freed"
  BY <1>1, <1>2 DEF ServerInv, Typed
<1>6. toServer' \in [Clients -> Seq(Commands)] /\ handled' \in [Clients -> Seq(Texts)]
  BY <1>1 DEF ServerInv, Typed
<1> HIDE DEF pcbs, state
<1> QED
  BY <1>1, <1>2, <1>3, <1>4, <1>5, <1>6, CloseKeeps

LEMMA AcceptFailsKeeps ==
  ASSUME ServerInv, AcceptFails
  PROVE  ServerInv'
<1>1. /\ tcp_server_close(conn, "closing")
      /\ UNCHANGED <<toServer, toClient, handled, overlapped, lost>>
  BY DEF AcceptFails, history
<1>2. /\ conn \in [Clients -> States]
      /\ toServer' \in [Clients -> Seq(Commands)] /\ handled' \in [Clients -> Seq(Texts)]
  BY <1>1 DEF ServerInv, Typed
<1> QED
  BY <1>1, <1>2, CloseKeeps

LEMMA ServerStep == ServerInv /\ [Next]_vars => ServerInv'
<1> SUFFICES ASSUME ServerInv, [Next]_vars PROVE ServerInv'
  OBVIOUS
<1> USE DEF history
<1>0. /\ conn \in [Clients -> States] /\ toServer \in [Clients -> Seq(Commands)]
      /\ lost \in BOOLEAN
  BY DEF ServerInv, Typed
<1>1. ASSUME NEW c \in Clients, Send(c) PROVE ServerInv'
  <2>1. UNCHANGED <<client_pcb, toClient, handled, overlapped, conn, lost>>
    BY <1>1 DEF Send
  <2>2. toServer' \in [Clients -> Seq(Commands)]
    BY <1>0, <1>1 DEF Send
  <2> QED
    BY <1>0, <2>1, <2>2, NothingNew
<1>2. ASSUME NEW c \in Clients, Disconnect(c) PROVE ServerInv'
  <2>1. UNCHANGED <<client_pcb, toClient, handled, overlapped, conn, lost, toServer>>
    BY <1>2 DEF Disconnect
  <2> QED
    BY <1>0, <2>1, NothingNew
<1>3. ASSUME NEW c \in Clients, Refuse(c) PROVE ServerInv'
  <2>1. UNCHANGED <<client_pcb, toClient, handled, overlapped, lost>>
    BY <1>3 DEF Refuse
  <2>2. toServer' \in [Clients -> Seq(Commands)] /\ conn' \in [Clients -> States]
    BY <1>0, <1>3 DEF Refuse, States
  <2>3. \A d \in Clients :
          /\ conn'[d] = conn[d] \/ (conn[d] # "listening" /\ conn'[d] = "freed")
          /\ conn[d] = "open" => conn'[d] = "open"
    BY <1>0, <1>3 DEF Refuse
  <2> QED
    BY <1>0, <2>1, <2>2, <2>3, NothingNew
<1>4. ASSUME NEW c \in Clients, Reset(c) PROVE ServerInv'
  <2>1. UNCHANGED <<client_pcb, toClient, handled, overlapped>> /\ lost'
    BY <1>4 DEF Reset
  <2>2. toServer' \in [Clients -> Seq(Commands)] /\ conn' \in [Clients -> States]
    BY <1>0, <1>4 DEF Reset, States
  <2>3. \A d \in Clients : conn'[d] = conn[d] \/ (conn[d] # "listening" /\ conn'[d] = "freed")
    BY <1>0, <1>4 DEF Reset
  <2>4. lost' \in BOOLEAN
    BY <1>4 DEF Reset
  <2> QED
    BY <2>1, <2>2, <2>3, <2>4, NothingNew
<1>5. CASE UNCHANGED vars
  <2>1. UNCHANGED <<client_pcb, toClient, handled, overlapped, conn, lost, toServer>>
    BY <1>5 DEF vars, connections
  <2> QED
    BY <1>0, <2>1, NothingNew
<1> QED
  BY <1>1, <1>2, <1>3, <1>4, <1>5, AcceptKeeps, ReceiveDataKeeps, ReceiveFinKeeps, AcceptFailsKeeps
     DEF Next, Stack

(* Whoever is to be answered has a connection that takes data, unless a    *)
(* reset took it without a word to any callback.                           *)
THEOREM TargetIsThere == Spec => []TargetConnected
<1>1. ServerInv => TargetConnected
  BY DEF ServerInv
<1> QED
  BY InitServer, ServerStep, <1>1, PTL DEF Spec

(* Clients that come one at a time are answered every command, in order.   *)
THEOREM OneByOne == Spec => []AnsweredInOrder
<1>1. ServerInv => AnsweredInOrder
  BY DEF ServerInv, OneAtATime, Answered, AnsweredInOrder
<1> QED
  BY InitServer, ServerStep, <1>1, PTL DEF Spec

-----------------------------------------------------------------------------
(* The operator's window, for any replies and any number of them: what     *)
(* sprintf wrote sscanf reads back, and what is painted is one of the      *)
(* replies, because neither thread is between its two halves of it while   *)
(* the other one holds the lock.                                           *)
Shown == [direction : Seq(STRING), speed : Nat]

-----------------------------------------------------------------------------
(* The text of a reply. *)
Tokens(reply) ==
  {<<"Direction", reply.direction>>, <<"Speed">>}
    \cup {<<"digit", n>> : n \in {reply.speed, reply.speed \div 10, reply.speed % 10}}

LEMMA FormatTokens ==
  ASSUME NEW reply \in Shown
  PROVE  /\ Format(reply) \in Seq(Tokens(reply))
         /\ Len(Format(reply)) = 2 + Len(Digits(reply.speed))
         /\ Format(reply)[1] = <<"Direction", reply.direction>>
         /\ Format(reply)[2] = <<"Speed">>
         /\ \A i \in 1..Len(Digits(reply.speed)) :
              Format(reply)[2 + i] = <<"digit", Digits(reply.speed)[i]>>
<1> DEFINE digits == Digits(reply.speed)
           words  == <<<<"Direction", reply.direction>>, <<"Speed">>>>
           number == [i \in DOMAIN digits |-> <<"digit", digits[i]>>]
           S      == Tokens(reply)
<1>1. /\ DOMAIN digits = 1..Len(digits) /\ Len(digits) \in {1, 2}
      /\ \A i \in 1..Len(digits) : <<"digit", digits[i]>> \in S
  <2>1. CASE digits = <<reply.speed>>
    BY <2>1 DEF Tokens
  <2>2. CASE digits = <<reply.speed \div 10, reply.speed % 10>>
    BY <2>2 DEF Tokens
  <2> QED
    BY <2>1, <2>2 DEF Digits
<1>2. words \in Seq(S) /\ Len(words) = 2
  BY DEF Tokens
<1>3. words[1] = <<"Direction", reply.direction>> /\ words[2] = <<"Speed">>
  OBVIOUS
<1> HIDE DEF S, digits, words
<1>4. number \in [1..Len(digits) -> S] /\ \A i \in 1..Len(digits) : number[i] = <<"digit", digits[i]>>
  BY <1>1
<1>5. number \in Seq(S) /\ Len(number) = Len(digits)
  BY <1>1, <1>4
<1> HIDE DEF number
<1>6. /\ words \o number \in Seq(S) /\ Len(words \o number) = 2 + Len(digits)
      /\ \A i \in 1..(2 + Len(digits)) :
           (words \o number)[i] = IF i =< 2 THEN words[i] ELSE number[i - 2]
  <2>1. /\ words \o number \in Seq(S) /\ Len(words \o number) = Len(words) + Len(number)
        /\ \A i \in 1..Len(words) + Len(number) :
             (words \o number)[i] = IF i =< Len(words) THEN words[i] ELSE number[i - Len(words)]
    <3>1. words \in Seq(S) /\ number \in Seq(S)
      BY <1>2, <1>5
    <3> QED
      BY <3>1, ConcatProperties
  <2> QED
    BY <1>2, <1>5, <2>1
<1>7. Format(reply) = words \o number
  BY DEF Format, words, digits, number
<1>8. \A i \in 1..Len(digits) : Format(reply)[2 + i] = <<"digit", digits[i]>>
  <2> SUFFICES ASSUME NEW i \in 1..Len(digits)
               PROVE  Format(reply)[2 + i] = <<"digit", digits[i]>>
    OBVIOUS
  <2>1. 2 + i \in 1..(2 + Len(digits)) /\ ~(2 + i =< 2) /\ (2 + i) - 2 = i
    BY <1>1
  <2> QED
    BY <1>4, <1>6, <1>7, <2>1
<1>9. Format(reply)[1] = <<"Direction", reply.direction>> /\ Format(reply)[2] = <<"Speed">>
  BY <1>1, <1>3, <1>6, <1>7
<1> QED
  BY <1>6, <1>7, <1>8, <1>9 DEF digits, S

(* What the server prints of a reply with a direction, the window's scan   *)
(* reads back, whatever it showed before (buddy1.c's sprintf of the reply; *)
(* interface.c 84).                                                        *)
THEOREM ScanReadsFormat ==
  ASSUME NEW reply \in Shown, reply.direction # <<>>, NEW old
  PROVE  Scan(Format(reply), old) = reply
<1> DEFINE text   == Format(reply)
           digits == Digits(reply.speed)
<1>1. /\ Len(text) = 2 + Len(digits)
      /\ text[1] = <<"Direction", reply.direction>> /\ text[2] = <<"Speed">>
      /\ \A i \in 1..Len(digits) : text[2 + i] = <<"digit", digits[i]>>
  BY FormatTokens
<1>2. reply.speed \in Nat /\ reply = [direction |-> reply.direction, speed |-> reply.speed]
  BY DEF Shown
<1> HIDE DEF text
<1>3. text[1][1] = "Direction" /\ text[1][2] = reply.direction /\ text[2][1] = "Speed"
  BY <1>1
<1>4. CASE reply.speed < 10
  <2>1. Len(digits) = 1 /\ digits[1] = reply.speed
    BY <1>4 DEF Digits
  <2> HIDE DEF digits
  <2>2. Len(text) = 3 /\ text[3] = <<"digit", reply.speed>>
    BY <1>1, <2>1
  <2>3. text[3][1] = "digit" /\ text[3][2] = reply.speed
    BY <2>2
  <2>4. Scan(text, old) = [direction |-> reply.direction, speed |-> reply.speed]
    BY <1>3, <2>2, <2>3 DEF Scan, IsDigit
  <2> QED
    BY <1>2, <2>4 DEF text
<1>5. CASE ~(reply.speed < 10)
  <2>1. Len(digits) = 2 /\ digits[1] = reply.speed \div 10 /\ digits[2] = reply.speed % 10
    BY <1>5 DEF Digits
  <2> HIDE DEF digits
  <2>2. /\ Len(text) = 4 /\ text[3] = <<"digit", reply.speed \div 10>>
        /\ text[4] = <<"digit", reply.speed % 10>>
    BY <1>1, <2>1
  <2>3. /\ text[3][1] = "digit" /\ text[3][2] = reply.speed \div 10
        /\ text[4][1] = "digit" /\ text[4][2] = reply.speed % 10
    BY <2>2
  <2>4. ((reply.speed \div 10) * 10) + (reply.speed % 10) = reply.speed
    BY <1>2
  <2>5. Scan(text, old) = [direction |-> reply.direction, speed |-> reply.speed]
    BY <1>3, <2>2, <2>3, <2>4 DEF Scan, IsDigit
  <2> QED
    BY <1>2, <2>5 DEF text
<1> QED
  BY <1>4, <1>5

-----------------------------------------------------------------------------
(* The case ShowsOneReply is about. *)
Directed == \A i \in DOMAIN last : i > 1 => last[i].direction # <<>>
Faithful == whole /\ Directed

Replied == {Format(last[i]) : i \in 2..Len(last)}
IsReply(v) == \E i \in DOMAIN last : v = last[i]

LastInv == last \in Seq(Shown) /\ Len(last) >= 1

(* Who is in the critical section. *)
LockInv ==
  /\ lock = "painter" <=> painter \in {"direction", "speed", "leave"}
  /\ lock = "deleted" <=> painter = "ended"
  /\ receiver \in {"clear", "scan", "leave"} /\ painter # "ended" => lock = "receiver"

(* The texts under way are those of replies, one each.                     *)
TextInv ==
  Faithful =>
    /\ stream \in Seq(Replied)
    /\ receiver \in {"enter", "clear", "scan"} => recvbuf \in Replied

(* telemetry_data is torn only between Clear and sscanf, the screen only   *)
(* between ShowDirection and ShowSpeed, when it has the direction of what  *)
(* is in telemetry_data still.                                             *)
DataInv ==
  Faithful /\ painter \notin {"quit", "ended"} =>
    /\ receiver # "scan" => IsReply(telemetry_data)
    /\ painter # "speed" => IsReply(buffer)
    /\ painter = "speed" => buffer \in Shown /\ buffer.direction = telemetry_data.direction

WindowInv == LastInv /\ LockInv /\ TextInv /\ DataInv

LEMMA WindowBegins == DashboardInit => WindowInv
<1> SUFFICES ASSUME DashboardInit PROVE WindowInv
  OBVIOUS
<1>1. Blank \in Shown
  BY DEF Blank, Shown
<1>2. last = <<Blank>> /\ Len(last) = 1 /\ last[1] = Blank /\ DOMAIN last = 1..1
  BY DEF DashboardInit
<1>3. LastInv
  BY <1>1, <1>2 DEF LastInv
<1>4. IsReply(Blank)
  BY <1>2 DEF IsReply
<1> QED
  BY <1>3, <1>4 DEF DashboardInit, WindowInv, LockInv, TextInv, DataInv

(* One more reply: what was one of them still is.                          *)
LEMMA LastGrows ==
  ASSUME LastInv, NEW reply \in Shown, last' = Append(last, reply)
  PROVE  /\ LastInv' /\ (Directed' => Directed) /\ Replied \subseteq Replied'
         /\ Format(reply) \in Replied' /\ \A v : IsReply(v) => IsReply(v)'
<1>1. /\ last' \in Seq(Shown) /\ Len(last') = Len(last) + 1 /\ last'[Len(last) + 1] = reply
      /\ \A i \in 1..Len(last) : last'[i] = last[i]
      /\ Len(last) \in Nat /\ DOMAIN last = 1..Len(last) /\ DOMAIN last' = 1..Len(last')
  BY AppendProperties, LenProperties DEF LastInv
<1>2. LastInv'
  BY <1>1 DEF LastInv
<1>3. Directed' => Directed
  BY <1>1 DEF Directed
<1>4. Replied \subseteq Replied'
  BY <1>1 DEF Replied
<1>5. Format(reply) \in Replied'
  BY <1>1 DEF Replied, LastInv
<1>6. \A v : IsReply(v) => IsReply(v)'
  BY <1>1 DEF IsReply
<1> QED
  BY <1>2, <1>3, <1>4, <1>5, <1>6

(* Replies are left as they are. *)
LEMMA SameReplies ==
  ASSUME UNCHANGED last
  PROVE  Directed' = Directed /\ Replied' = Replied /\ \A v : IsReply(v)' = IsReply(v)
BY DEF Directed, Replied, IsReply

LEMMA ReplyKeeps ==
  ASSUME WindowInv, Reply
  PROVE  WindowInv'
<1>1. PICK reply \in Replies : stream' = stream \o <<Format(reply)>> /\ last' = Append(last, reply)
  BY DEF Reply
<1>2. reply \in Shown
  BY DashboardAssumption DEF Shown
<1>3. /\ LastInv' /\ (Directed' => Directed) /\ Replied \subseteq Replied'
      /\ Format(reply) \in Replied' /\ \A v : IsReply(v) => IsReply(v)'
  BY <1>1, <1>2, LastGrows DEF WindowInv
<1>4. UNCHANGED <<whole, receiver, recvbuf, telemetry_data, lock, painter, buffer>>
  BY DEF Reply, thread, window
<1>5. LockInv'
  BY <1>4 DEF WindowInv, LockInv
<1>6. TextInv'
  <2> SUFFICES ASSUME Faithful' PROVE TextInv'
    BY DEF TextInv
  <2>1. Faithful
    BY <1>3, <1>4 DEF Faithful
  <2>2. stream \in Seq(Replied')
    BY <1>3, <2>1, SeqMonotonic DEF WindowInv, TextInv
  <2>3. <<Format(reply)>> \in Seq(Replied')
    BY <1>3
  <2>4. stream' \in Seq(Replied')
    BY <1>1, <2>2, <2>3, ConcatProperties
  <2> QED
    BY <1>3, <1>4, <2>1, <2>4 DEF WindowInv, TextInv
<1>7. DataInv'
  BY <1>3, <1>4 DEF WindowInv, DataInv, Faithful
<1> QED
  BY <1>3, <1>5, <1>6, <1>7 DEF WindowInv

(* A recv that returns exactly one reply returns the first one sent.       *)
LEMMA RecvKeeps ==
  ASSUME WindowInv, Recv
  PROVE  WindowInv'
<1>1. UNCHANGED <<last, telemetry_data, lock, painter, buffer>> /\ receiver = "recv" /\ receiver' = "enter"
  BY DEF Recv, window
<1>2. LastInv' /\ LockInv'
  BY <1>1 DEF WindowInv, LastInv, LockInv
<1>3. Directed' = Directed /\ Replied' = Replied /\ \A v : IsReply(v)' = IsReply(v)
  BY <1>1, SameReplies
<1>4. whole' => whole
  BY DEF Recv
<1>5. DataInv'
  BY <1>1, <1>3, <1>4 DEF WindowInv, DataInv, Faithful
<1>6. TextInv'
  <2> SUFFICES ASSUME whole', Directed PROVE stream' \in Seq(Replied) /\ recvbuf' \in Replied
    BY <1>3 DEF TextInv, Faithful
  <2>1. stream \in Seq(Replied)
    BY <1>4 DEF WindowInv, TextInv, Faithful
  <2> DEFINE Taken(n, k) ==
        /\ recvbuf' = FlattenSeq(SubSeq(stream, 1, n - 1)) \o SubSeq(stream[n], 1, k)
        /\ stream' = (IF k = Len(stream[n]) THEN <<>>
                      ELSE <<SubSeq(stream[n], k + 1, Len(stream[n]))>>)
                       \o SubSeq(stream, n + 1, Len(stream))
        /\ whole' = (whole /\ n = 1 /\ k = Len(stream[1]))
  <2>p. PICK n \in 1..Len(stream) : \E k \in 1..Len(stream[n]) : Taken(n, k)
    BY DEF Recv
  <2>2. PICK k \in 1..Len(stream[n]) : Taken(n, k)
    BY <2>p
  <2>a. n = 1 /\ k = Len(stream[1])
    BY <2>2, Zenon
  <2>3. Len(stream) \in Nat /\ Len(stream) >= 1
    BY <2>1, <2>2, <2>a, LenProperties
  <2>4. /\ recvbuf' = FlattenSeq(SubSeq(stream, 1, 0)) \o SubSeq(stream[1], 1, Len(stream[1]))
        /\ stream' = <<>> \o SubSeq(stream, 2, Len(stream))
    <3>1. n - 1 = 0 /\ n + 1 = 2 /\ stream[n] = stream[1]
      BY <2>a
    <3> QED
      BY <2>2, <2>a, <3>1
  <2>5. stream[1] \in Replied
    BY <2>1, <2>3, ElementOfSeq
  <2>6. PICK i \in 2..Len(last) : stream[1] = Format(last[i])
    BY <2>5 DEF Replied
  <2>7. last[i] \in Shown
    BY <2>6, ElementOfSeq, LenProperties DEF WindowInv, LastInv
  <2>8. stream[1] \in Seq(Tokens(last[i]))
    BY <2>6, <2>7, FormatTokens
  <2>9. FlattenSeq(SubSeq(stream, 1, 0)) = <<>>
    <3>1. SubSeq(stream, 1, 0) = <<>>
      BY SubSeqEmpty
    <3>2. Len(<<>>) = 0
      OBVIOUS
    <3> QED
      BY <3>1, <3>2 DEF FlattenSeq
  <2>10. recvbuf' = stream[1]
    BY <2>4, <2>8, <2>9, SubSeqFull, ConcatEmptySeq
  <2>11. SubSeq(stream, 2, Len(stream)) \in Seq(Replied)
    BY <2>1, <2>3, ElementOfSeq, SubSeqProperties
  <2> QED
    BY <2>4, <2>5, <2>10, <2>11, ConcatEmptySeq
<1> QED
  BY <1>2, <1>5, <1>6 DEF WindowInv

LEMMA ScanKeeps ==
  ASSUME WindowInv, sscanf
  PROVE  WindowInv'
<1>1. /\ UNCHANGED <<stream, last, whole, recvbuf, lock, painter, buffer>>
      /\ receiver = "scan" /\ receiver' = "leave" /\ telemetry_data' = Scan(recvbuf, telemetry_data)
  BY DEF sscanf, feed, window
<1>2. LastInv' /\ LockInv'
  BY <1>1 DEF WindowInv, LastInv, LockInv
<1>3. Directed' = Directed /\ Replied' = Replied /\ \A v : IsReply(v)' = IsReply(v)
  BY <1>1, SameReplies
<1>4. TextInv'
  BY <1>1, <1>3 DEF WindowInv, TextInv, Faithful
<1>5. DataInv'
  <2> SUFFICES ASSUME Faithful, painter \notin {"quit", "ended"}
               PROVE  IsReply(telemetry_data') /\ painter # "speed" /\ IsReply(buffer)
    BY <1>1, <1>3 DEF DataInv, Faithful
  <2>1. PICK i \in 2..Len(last) : recvbuf = Format(last[i])
    BY <1>1 DEF WindowInv, TextInv, Replied
  <2>2. last[i] \in Shown /\ i \in DOMAIN last /\ i > 1
    BY <2>1, ElementOfSeq, LenProperties DEF WindowInv, LastInv
  <2>3. last[i].direction # <<>>
    BY <2>2 DEF Faithful, Directed
  <2>4. telemetry_data' = last[i]
    BY <1>1, <2>1, <2>2, <2>3, ScanReadsFormat
  <2>5. painter # "speed"
    BY <1>1 DEF WindowInv, LockInv
  <2> QED
    BY <2>2, <2>4, <2>5 DEF WindowInv, DataInv, IsReply
<1> QED
  BY <1>2, <1>4, <1>5 DEF WindowInv

(* The screen takes the speed of the reply whose direction it shows.       *)
LEMMA PaintKeeps ==
  ASSUME WindowInv, ShowDirection \/ ShowSpeed
  PROVE  WindowInv'
<1>1. /\ UNCHANGED <<stream, last, whole, receiver, recvbuf, telemetry_data, lock>>
      /\ lock = "painter" /\ receiver # "scan" /\ painter # "ended"
  BY DEF ShowDirection, ShowSpeed, feed, thread, WindowInv, LockInv
<1>2. LastInv'
  BY <1>1 DEF WindowInv, LastInv
<1>3. LockInv'
  BY DEF ShowDirection, ShowSpeed, thread, WindowInv, LockInv
<1>4. Directed' = Directed /\ Replied' = Replied /\ \A v : IsReply(v)' = IsReply(v)
  BY <1>1, SameReplies
<1>5. TextInv'
  BY <1>1, <1>4 DEF WindowInv, TextInv, Faithful
<1>6. ASSUME NEW v, IsReply(v) PROVE v \in Shown
  BY <1>6, ElementOfSeq, LenProperties DEF WindowInv, LastInv, IsReply
<1>7. DataInv'
  <2> SUFFICES ASSUME Faithful PROVE DataInv'
    BY <1>1, <1>4 DEF DataInv, Faithful
  <2>1. IsReply(telemetry_data) /\ telemetry_data \in Shown
    BY <1>1, <1>6 DEF WindowInv, DataInv, ShowDirection, ShowSpeed
  <2>2. CASE ShowDirection
    <3>1. painter = "direction" /\ painter' = "speed"
          /\ buffer' = [buffer EXCEPT !.direction = telemetry_data.direction]
      BY <2>2 DEF ShowDirection
    <3>2. buffer \in Shown
      BY <1>6, <3>1 DEF WindowInv, DataInv
    <3>3. buffer' \in Shown /\ buffer'.direction = telemetry_data.direction
      BY <2>1, <3>1, <3>2 DEF Shown
    <3> QED
      BY <1>1, <1>4, <2>1, <3>1, <3>3 DEF DataInv
  <2>3. CASE ShowSpeed
    <3>1. painter = "speed" /\ painter' = "leave"
          /\ buffer' = [buffer EXCEPT !.speed = telemetry_data.speed]
      BY <2>3 DEF ShowSpeed
    <3>2. buffer \in Shown /\ buffer.direction = telemetry_data.direction
      BY <3>1 DEF WindowInv, DataInv
    <3>3. buffer' = telemetry_data
      BY <2>1, <3>1, <3>2 DEF Shown
    <3> QED
      BY <1>1, <1>4, <2>1, <3>1, <3>3 DEF DataInv
  <2> QED
    BY <2>2, <2>3
<1> QED
  BY <1>2, <1>3, <1>5, <1>7 DEF WindowInv

(* Every other step leaves texts and contents alone, but for Clear.        *)
LEMMA OthersKeep ==
  ASSUME WindowInv,
         \/ Close \/ RecvNothing \/ ReceiverEnter \/ Clear \/ ReceiverLeave \/ Invalidate
         \/ UpdateWindow \/ BeginPaint \/ PainterEnter \/ PainterLeave \/ Destroy
         \/ DeleteCriticalSection \/ Exit \/ UNCHANGED dashboardVars
  PROVE  WindowInv'
<1> USE DEF Close, RecvNothing, ReceiverEnter, Clear, ReceiverLeave, Invalidate, UpdateWindow,
        BeginPaint, PainterEnter, PainterLeave, Destroy, DeleteCriticalSection, Exit, dashboardVars,
        feed, thread, window
<1>1. UNCHANGED <<stream, last, whole, recvbuf, buffer>>
  OBVIOUS
<1>2. LastInv'
  BY <1>1 DEF WindowInv, LastInv
<1>3. LockInv'
  BY DEF WindowInv, LockInv
<1>4. Directed' = Directed /\ Replied' = Replied /\ \A v : IsReply(v)' = IsReply(v)
  BY <1>1, SameReplies
<1>5. TextInv'
  BY <1>1, <1>4 DEF WindowInv, TextInv, Faithful
<1>6. CASE Clear
  <2>1. painter' = painter /\ receiver' = "scan" /\ receiver = "clear"
    BY <1>6
  <2>2. painter # "ended" => painter # "speed"
    BY <2>1 DEF WindowInv, LockInv
  <2>3. DataInv'
    <3> SUFFICES ASSUME Faithful, painter \notin {"quit", "ended"}
                 PROVE  painter # "speed" /\ IsReply(buffer)
      BY <1>1, <1>4, <2>1 DEF DataInv, Faithful
    <3> QED
      BY <2>2 DEF WindowInv, DataInv
  <2> QED
    BY <1>2, <1>3, <1>5, <2>3 DEF WindowInv
<1>7. CASE ~Clear
  <2>1. UNCHANGED telemetry_data
    BY <1>7
  <2>2. ASSUME painter' \notin {"quit", "ended"}
        PROVE  /\ painter \notin {"quit", "ended"}
               /\ painter' = painter \/ (painter # "speed" /\ painter' # "speed")
               /\ receiver' # "scan" => receiver # "scan"
    BY <1>7, <2>2
  <2>3. DataInv'
    <3> HIDE DEF Close, RecvNothing, ReceiverEnter, Clear, ReceiverLeave, Invalidate,
          UpdateWindow, BeginPaint, PainterEnter, PainterLeave, Destroy,
          DeleteCriticalSection, Exit, dashboardVars, feed, thread, window
    <3>1. SUFFICES ASSUME Faithful, painter' \notin {"quit", "ended"} PROVE DataInv'
      BY <1>1, <1>4 DEF DataInv, Faithful
    <3>2. /\ receiver # "scan" => IsReply(telemetry_data)
          /\ painter # "speed" => IsReply(buffer)
          /\ painter = "speed" => buffer \in Shown /\ buffer.direction = telemetry_data.direction
      BY <2>2, <3>1 DEF WindowInv, DataInv
    <3>3. painter' = "speed" => painter = "speed"
      BY <2>2, <3>1
    <3> QED
      BY <1>1, <1>4, <2>1, <2>2, <3>1, <3>2, <3>3 DEF DataInv
  <2> QED
    BY <1>2, <1>3, <1>5, <2>3 DEF WindowInv
<1> QED
  BY <1>2, <1>3, <1>5, <1>6, <1>7 DEF WindowInv

(* What has been painted is one reply, whatever the two threads do in      *)
(* between, as long as each recv returns one reply and no reply has an     *)
(* empty direction (interface.c 77-90, 120-128).                           *)
THEOREM OneReplyShown == DashboardSpec => []ShowsOneReply
<1>1. WindowInv /\ [DashboardNext]_dashboardVars => WindowInv'
  BY ReplyKeeps, RecvKeeps, ScanKeeps, PaintKeeps, OthersKeep
     DEF DashboardNext, receive_telemetry, WindowProc
<1>2. WindowInv => ShowsOneReply
  BY DEF WindowInv, DataInv, ShowsOneReply, Faithful, Directed, IsReply
<1> QED
  BY <1>1, <1>2, WindowBegins, PTL DEF DashboardSpec
=============================================================================
