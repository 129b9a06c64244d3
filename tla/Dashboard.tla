----------------------------- MODULE Dashboard -----------------------------
(***************************************************************************)
(* The operator's window, src/interface.c: a thread receives the server's  *)
(* replies and scans them into telemetry_data under a lock; the window's   *)
(* thread paints it under the same lock.  recv returns whatever part of    *)
(* the TCP stream has arrived.                                             *)
(***************************************************************************)
EXTENDS TelemetryFormat, SequencesExt

CONSTANTS
  Replies,      \* what the server may send: [direction, speed]
  MaxReplies    \* BOUND: replies sent

ASSUME DashboardAssumption ==
  /\ Replies \subseteq [direction : Seq(STRING), speed : Nat]
  /\ MaxReplies \in Nat

VARIABLES
  stream,           \* tokens sent and not yet received
  last,             \* history: every reply sent, after the initial contents
  whole,            \* history: each recv has returned one reply, no more and no less
  server,           \* "up" until the server closes the connection
  receiver,         \* where receive_telemetry is
  recvbuf,          \* what recv returned
  lock,             \* who is in the critical section, "free" or "deleted"
  invalid,          \* the window has an area to be painted
  painter,          \* where the window's thread is
  buffer            \* what is on the screen

thread == <<receiver, recvbuf>>
window == <<painter, buffer>>
feed == <<last, whole>>
dashboardVars == <<stream, feed, server, thread, telemetry_data, lock, invalid, window>>

Blank == [direction |-> <<>>, speed |-> 0]

DashboardTypeOK ==
  /\ whole \in BOOLEAN
  /\ server \in {"up", "closed"}
  /\ receiver \in {"recv", "enter", "clear", "scan", "leave", "invalidate", "update", "ended"}
  /\ lock \in {"free", "receiver", "painter", "deleted"}
  /\ invalid \in BOOLEAN
  /\ painter \in {"message", "enter", "direction", "speed", "leave", "quit", "ended"}
  /\ telemetry_data.speed \in Nat /\ buffer.speed \in Nat

(* WinMain has connected, shown the window and started the thread.         *)
DashboardInit ==
  /\ stream = <<>> /\ last = <<Blank>> /\ whole = TRUE /\ server = "up"
  /\ receiver = "recv" /\ recvbuf = <<>>
  /\ telemetry_data = Blank
  /\ lock = "free" /\ invalid = TRUE
  /\ painter = "message" /\ buffer = Blank

-----------------------------------------------------------------------------
(* The server and the network.                                             *)
Reply ==
  /\ server = "up" /\ Len(last) =< MaxReplies
  /\ \E reply \in Replies : /\ stream' = stream \o <<Format(reply)>>
                            /\ last' = Append(last, reply)
  /\ UNCHANGED <<whole, server, thread, telemetry_data, lock, invalid, window>>

Close ==
  /\ server = "up" /\ server' = "closed"
  /\ UNCHANGED <<stream, feed, thread, telemetry_data, lock, invalid, window>>

-----------------------------------------------------------------------------
(* receive_telemetry.                                                      *)
Recv ==
  /\ receiver = "recv" /\ receiver' = "enter"
  /\ \E n \in 1..Len(stream) : \E k \in 1..Len(stream[n]) :
       /\ recvbuf' = FlattenSeq(SubSeq(stream, 1, n - 1)) \o SubSeq(stream[n], 1, k)
       /\ stream' = (IF k = Len(stream[n]) THEN <<>> ELSE <<SubSeq(stream[n], k + 1, Len(stream[n]))>>)
                      \o SubSeq(stream, n + 1, Len(stream))
       /\ whole' = (whole /\ n = 1 /\ k = Len(stream[1]))
  /\ UNCHANGED <<last, server, telemetry_data, lock, invalid, window>>

(* recv returns 0 after the last byte of a connection that was closed.     *)
RecvNothing ==
  /\ receiver = "recv" /\ stream = <<>> /\ server = "closed"
  /\ receiver' = "ended"
  /\ UNCHANGED <<stream, feed, server, recvbuf, telemetry_data, lock, invalid, window>>

(* A critical section that has been deleted still lets the thread in.      *)
ReceiverEnter ==
  /\ receiver = "enter" /\ lock \in {"free", "deleted"}
  /\ receiver' = "clear"
  /\ lock' = IF lock = "free" THEN "receiver" ELSE lock
  /\ UNCHANGED <<stream, feed, server, recvbuf, telemetry_data, invalid, window>>

Clear ==
  /\ receiver = "clear" /\ receiver' = "scan"
  /\ telemetry_data' = [telemetry_data EXCEPT !.direction = <<>>]
  /\ UNCHANGED <<stream, feed, server, recvbuf, lock, invalid, window>>

sscanf ==
  /\ receiver = "scan" /\ receiver' = "leave"
  /\ telemetry_data' = Scan(recvbuf, telemetry_data)
  /\ UNCHANGED <<stream, feed, server, recvbuf, lock, invalid, window>>

ReceiverLeave ==
  /\ receiver = "leave" /\ receiver' = "invalidate"
  /\ lock' = IF lock = "receiver" THEN "free" ELSE lock
  /\ UNCHANGED <<stream, feed, server, recvbuf, telemetry_data, invalid, window>>

(* mutant: the window is updated without being invalidated *)
Invalidate_Never ==
  /\ receiver = "invalidate" /\ receiver' = "update"
  /\ UNCHANGED <<stream, feed, server, recvbuf, telemetry_data, lock, invalid, window>>

Invalidate ==
  /\ receiver = "invalidate" /\ receiver' = "update"
  /\ invalid' = (painter \notin {"quit", "ended"})
  /\ UNCHANGED <<stream, feed, server, recvbuf, telemetry_data, lock, window>>

(* UpdateWindow sends WM_PAINT to the window's thread and waits for it; it *)
(* returns at once when the area is already being painted or the window is *)
(* gone.                                                                   *)
UpdateWindow ==
  /\ receiver = "update" /\ ~invalid
  /\ receiver' = "recv"
  /\ UNCHANGED <<stream, feed, server, recvbuf, telemetry_data, lock, invalid, window>>

receive_telemetry ==
  Recv \/ RecvNothing \/ ReceiverEnter \/ Clear \/ sscanf \/ ReceiverLeave \/ Invalidate \/ UpdateWindow

-----------------------------------------------------------------------------
(* WindowProc's WM_PAINT, on the window's thread.  BeginPaint validates.   *)
BeginPaint ==
  /\ painter = "message" /\ invalid
  /\ painter' = "enter" /\ invalid' = FALSE
  /\ UNCHANGED <<stream, feed, server, thread, telemetry_data, lock, buffer>>

(* mutant: the painter does not wait for the lock *)
PainterEnter_NoLock ==
  /\ painter = "enter" /\ painter' = "direction"
  /\ UNCHANGED <<stream, feed, server, thread, telemetry_data, lock, invalid, buffer>>

PainterEnter ==
  /\ painter = "enter" /\ lock = "free"
  /\ painter' = "direction" /\ lock' = "painter"
  /\ UNCHANGED <<stream, feed, server, thread, telemetry_data, invalid, buffer>>

ShowDirection ==
  /\ painter = "direction" /\ painter' = "speed"
  /\ buffer' = [buffer EXCEPT !.direction = telemetry_data.direction]
  /\ UNCHANGED <<stream, feed, server, thread, telemetry_data, lock, invalid>>

ShowSpeed ==
  /\ painter = "speed" /\ painter' = "leave"
  /\ buffer' = [buffer EXCEPT !.speed = telemetry_data.speed]
  /\ UNCHANGED <<stream, feed, server, thread, telemetry_data, lock, invalid>>

PainterLeave ==
  /\ painter = "leave" /\ painter' = "message"
  /\ lock' = IF lock = "painter" THEN "free" ELSE lock
  /\ UNCHANGED <<stream, feed, server, thread, telemetry_data, invalid, buffer>>

(* The window is closed: WM_DESTROY ends the message loop, the critical    *)
(* section is deleted and WinMain returns, which ends the process.         *)
Destroy ==
  /\ painter = "message"
  /\ painter' = "quit" /\ invalid' = FALSE
  /\ UNCHANGED <<stream, feed, server, thread, telemetry_data, lock, buffer>>

DeleteCriticalSection ==
  /\ painter = "quit" /\ painter' = "ended"
  /\ lock' = "deleted"
  /\ UNCHANGED <<stream, feed, server, thread, telemetry_data, invalid, buffer>>

Exit ==
  /\ painter = "ended" /\ receiver # "ended"
  /\ receiver' = "ended"
  /\ UNCHANGED <<stream, feed, server, recvbuf, telemetry_data, lock, invalid, window>>

WindowProc == BeginPaint \/ PainterEnter \/ ShowDirection \/ ShowSpeed \/ PainterLeave

DashboardNext == Reply \/ Close \/ receive_telemetry \/ WindowProc \/ Destroy \/ DeleteCriticalSection \/ Exit

(* Both threads are scheduled; a critical section is fair to the thread    *)
(* that keeps asking.                                                      *)
Fairness == SF_dashboardVars(receive_telemetry) /\ SF_dashboardVars(WindowProc)

DashboardSpec == DashboardInit /\ [][DashboardNext]_dashboardVars /\ Fairness

-----------------------------------------------------------------------------
Painted == painter = "message" /\ ~invalid

(* What has been painted is a reply the server sent, or the blank contents *)
(* from before the first: never the direction of one with the speed of     *)
(* another, whatever the threads do in between (interface.c 77-90,         *)
(* 120-128), as long as each recv returns one reply and no reply has an    *)
(* empty direction, which %[^;] does not match: the speed is then an older *)
(* one (84).                                                               *)
ShowsOneReply ==
  whole /\ (\A i \in DOMAIN last : i > 1 => last[i].direction # <<>>) =>
    (painter \in {"message", "leave"} => \E i \in DOMAIN last : buffer = last[i])

(* "Trigger the window to repaint with the new data" (interface.c 88):     *)
(* when everything sent has arrived, one reply in each recv, the screen    *)
(* ends up with the last reply, however painting and receiving interleave. *)
(* Replies that arrive joined or cut (70) may never be shown.              *)
ShowsLatest ==
  []<>(\/ /\ Painted /\ stream = <<>> /\ receiver \in {"recv", "ended"}
          /\ buffer.direction = last[Len(last)].direction
          /\ last[Len(last)].direction # <<>> => buffer = last[Len(last)]
       \/ ~whole \/ painter \in {"quit", "ended"})
=============================================================================
