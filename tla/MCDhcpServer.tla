--------------------------- MODULE MCDhcpServer ---------------------------
(***************************************************************************)
(* Three clients and two addresses; the counter wraps at 8 and a lease     *)
(* lasts 2 or 3 units, the longest that half the circle allows.            *)
(***************************************************************************)
EXTENDS DhcpServer, TLC

MCSymmetry == Permutations(Clients)
=============================================================================
