----------------------------- MODULE MCClients -----------------------------
(***************************************************************************)
(* Echo: three buffers of three units each, in one to three segments; the  *)
(* server may send a buffer more than the test takes, and send before it   *)
(* is its turn.  Sender: messages of two units, which do not divide a      *)
(* buffer, and a send buffer of five.                                      *)
(***************************************************************************)
EXTENDS Clients
=============================================================================
