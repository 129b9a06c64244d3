----------------------------- MODULE MCBarcode -----------------------------
(***************************************************************************)
(* Two labels in a row of "*A*", "*P*" and "***" (the code of P is that of *)
(* * reversed), and one label of every character, crossed at a speed that  *)
(* changes from one character to the next; from both ends.                 *)
(***************************************************************************)
EXTENDS Barcode

Steady(c) == [c |-> c, speeds |-> <<1, 1, 1>>]
Uneven(c) == [c |-> c, speeds |-> <<2, 1, 2>>]

MCTracks == { <<Steady("A"), Steady("P")>>, <<Steady("P"), Steady("*")>>,
              <<Steady("*"), Steady("A")>> }
            \cup { <<Uneven(array_char[i])>> : i \in DOMAIN array_char }

(* The conversion of a chunk as the program does it: the counts sorted,    *)
(* the larger first, and every bar wide whose count is one of the first    *)
(* TOP_K (buddy3.c 187-211).  A bar is compared with larger and smaller    *)
(* ones only, so that three values of the counts stand for all.            *)
SortedWide(counts) ==
  LET top_counts == SortSeq(counts, LAMBDA a, b : a > b)
  IN {i \in 1..CHUNK_SIZE : \E j \in 1..TOP_K : counts[i] = top_counts[j]}

ASSUME WideIsSorted ==
  \A counts \in [1..CHUNK_SIZE -> 1..3] : Wide(counts) = SortedWide(counts)

MCTwice == { <<Steady("A"), Steady("A")>> }
=============================================================================
