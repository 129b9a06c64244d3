--------------------------- MODULE MCAccessPoint ---------------------------
(***************************************************************************)
(* Two connections at a time, of which one sends two segments, so that a   *)
(* second GET meets the first one's acknowledgements, and the other none;  *)
(* queries around each of the bounds of dns_server_process.                *)
(***************************************************************************)
EXTENDS AccessPoint, TLC

CONSTANTS c1, c2

MCTwo == {c1, c2}
MCSegments == c1 :> 2 @@ c2 :> 0

Query(len, labels) ==
  [len |-> len, qr |-> 0, opcode |-> 0, questions |-> 1, labels |-> labels]

(* Answered: the root with records behind it; the longest name, 255 bytes; *)
(* a name the packet cuts short.  Ignored: all the others.                 *)
MCQueries ==
  { Query(310, <<0>>),
    Query(271, <<63, 63, 63, 61, 0>>),
    Query(230, <<63, 63, 63, 61>>),
    Query(272, <<63, 63, 63, 62, 0>>),
    Query(300, <<63, 63, 63, 63, 63>>),
    Query(90, <<64, 0>>),
    Query(11, <<>>),
    [Query(17, <<0>>) EXCEPT !.qr = 1],
    [Query(17, <<0>>) EXCEPT !.opcode = 2],
    [Query(17, <<0>>) EXCEPT !.questions = 0] }
=============================================================================
