---------------------------- MODULE MCDashboard ----------------------------
(***************************************************************************)
(* The replies are those the telemetry server makes of some commands; of   *)
(* Stop Turning alone it makes one whose direction is empty.               *)
(***************************************************************************)
EXTENDS Dashboard

MCReplies == {Parse(c) : c \in
  {Command({"Forward"}, <<15>>, FALSE), Command({"Stop Turning"}, <<40>>, FALSE),
   Command({"Backward", "Right"}, <<-5>>, FALSE)}}
=============================================================================
