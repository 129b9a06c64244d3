---------------------------- MODULE MCTelemetry ----------------------------
(***************************************************************************)
(* Three clients and room for two, so that clients come one after another, *)
(* overlap, and are refused; two commands among them, from one client or   *)
(* two, which reach every branch of the parser: a number after a word, a   *)
(* number first, a negative one and none.                                  *)
(***************************************************************************)
EXTENDS Telemetry

CONSTANTS c1, c2, c3

MCThree == {c1, c2, c3}

MCCommands ==
  {Command({"Forward"}, <<5>>, FALSE), Command({"Stop Movement"}, <<>>, FALSE),
   Command({"Stop Movement", "Left"}, <<-7>>, FALSE), Command({"Stop Turning"}, <<9>>, TRUE)}
=============================================================================
