-------------------------- MODULE TelemetryFormat --------------------------
(***************************************************************************)
(* The texts exchanged over the telemetry connection.  A driver's command  *)
(* is free text in which src/buddy1/buddy1.c looks for words and a number; *)
(* the reply "Direction: <d>; Speed: <n>" is what src/interface.c scans.   *)
(*                                                                         *)
(* A command is the set of the key words it holds, and its number with the *)
(* place it has in the text.  A direction is the sequence of words printed *)
(* for it, <<>> for the empty string.                                      *)
(*                                                                         *)
(* Both programs keep the last command in a variable of the same name and  *)
(* shape, each its own: telemetry_data is the server's in Telemetry and    *)
(* the window's in Dashboard.                                              *)
(***************************************************************************)
EXTENDS Integers, Sequences

VARIABLE telemetry_data

(* numbers is <<>> or <<n>>; a number that opens the text is not found by  *)
(* "%*[^0-9]%d", which also skips a minus sign.                            *)
Command(words, numbers, opening) == [words |-> words, numbers |-> numbers, opening |-> opening]

(* Two commands that arrive in one pbuf are read as one text.              *)
Join(a, b) ==
  IF a.numbers # <<>> THEN Command(a.words \cup b.words, a.numbers, a.opening)
  ELSE Command(a.words \cup b.words, b.numbers, FALSE)

Movement(words) ==
  IF "Forward" \in words THEN <<"Forward">>
  ELSE IF "Backward" \in words THEN <<"Backward">>
  ELSE IF "Stop Movement" \in words THEN <<"Stopped">>
  ELSE <<>>

Turn(words) ==
  IF "Left" \in words THEN <<"Left">>
  ELSE IF "Right" \in words THEN <<"Right">>
  ELSE IF "Stop Turning" \in words THEN <<"Stopped">>
  ELSE <<>>

Idle == {<<>>, <<"Stopped">>}

(* The branches on "Stopped" and "": only what is active is shown, and a   *)
(* movement that is idle hides behind a turn that is not.                  *)
Direction(words) ==
  IF Turn(words) \in Idle THEN Movement(words)
  ELSE IF Movement(words) \in Idle THEN Turn(words)
  ELSE Movement(words) \o Turn(words)

Speed(command) ==
  IF command.numbers = <<>> THEN 0
  ELSE LET n == command.numbers[1]
       IN IF n < 0 THEN -n ELSE IF command.opening THEN 0 ELSE n

Parse(command) == [direction |-> Direction(command.words), speed |-> Speed(command)]

-----------------------------------------------------------------------------
(* The reply on the wire, cut where a TCP segment may be cut: before the   *)
(* semicolon and between two digits of the speed.                          *)
Digits(n) == IF n < 10 THEN <<n>> ELSE <<n \div 10, n % 10>>

IsDigit(token) == token[1] = "digit"

Format(reply) ==
  LET digits == Digits(reply.speed)
  IN <<<<"Direction", reply.direction>>, <<"Speed">>>>
       \o [i \in DOMAIN digits |-> <<"digit", digits[i]>>]

(* sscanf(recvbuf, "Direction: %39[^;]; Speed: %d") after the direction is *)
(* cleared: a conversion that fails ends the scan, an empty direction is   *)
(* such a failure, and what is not converted keeps its value.              *)
Scan(text, old) ==
  LET shown  == Len(text) >= 1 /\ text[1][1] = "Direction" /\ text[1][2] # <<>>
      number == shown /\ Len(text) >= 3 /\ text[2][1] = "Speed" /\ IsDigit(text[3])
  IN [direction |-> IF shown THEN text[1][2] ELSE <<>>,
      speed |-> IF ~number THEN old.speed
                ELSE IF Len(text) >= 4 /\ IsDigit(text[4])
                     THEN text[3][2] * 10 + text[4][2] ELSE text[3][2]]
=============================================================================
