------------------------------- MODULE Code39 -------------------------------
(***************************************************************************)
(* The pure part of src/buddy3/buddy3.c: from nine stay counts to a        *)
(* character.  A nine-bit code is the set of its positions that are 1, the *)
(* wide bars.                                                              *)
(***************************************************************************)
EXTENDS Integers, Sequences, SequencesExt

CHUNK_SIZE == 9
TOP_K      == 3
UNMAPPED_CHAR == "?"

array_char ==
  <<"0", "1", "2", "3", "4", "5", "6", "7", "8", "9", "A",
     "B", "C", "D", "E", "F", "G", "H", "I", "J", "K", "L",
     "M", "N", "O", "P", "Q", "R", "S", "T", "U", "V", "W",
     "X", "Y", "Z", "_", ".", "$", "/", "+", "%", " ", "*">>

array_code ==
  <<{4,5,7}, {1,4,9}, {3,4,9}, {1,3,4}, {4,5,9}, {1,4,5},
     {3,4,5}, {4,7,9}, {1,4,7}, {3,4,7}, {1,6,9}, {3,6,9},
     {1,3,6}, {5,6,9}, {1,5,6}, {3,5,6}, {6,7,9}, {1,6,7},
     {3,6,7}, {5,6,7}, {1,8,9}, {3,8,9}, {1,3,8}, {5,8,9},
     {1,5,8}, {3,5,8}, {7,8,9}, {1,7,8}, {3,7,8}, {5,7,8},
     {1,2,9}, {2,3,9}, {1,2,3}, {2,5,9}, {1,2,5}, {2,3,5},
     {2,7,9}, {1,2,7}, {2,4,6}, {2,4,8}, {2,6,8}, {4,6,8},
     {2,3,7}, {2,5,7}>>

array_reverse_code ==
  <<{3,5,6}, {1,6,9}, {1,6,7}, {6,7,9}, {1,5,6}, {5,6,9},
     {5,6,7}, {1,3,6}, {3,6,9}, {3,6,7}, {1,4,9}, {1,4,7},
     {4,7,9}, {1,4,5}, {4,5,9}, {4,5,7}, {1,3,4}, {3,4,9},
     {3,4,7}, {3,4,5}, {1,2,9}, {1,2,7}, {2,7,9}, {1,2,5},
     {2,5,9}, {2,5,7}, {1,2,3}, {2,3,9}, {2,3,7}, {2,3,5},
     {1,8,9}, {1,7,8}, {7,8,9}, {1,5,8}, {5,8,9}, {5,7,8},
     {1,3,8}, {3,8,9}, {4,6,8}, {2,6,8}, {2,4,8}, {2,4,6},
     {3,7,8}, {3,5,8}>>

(* find_binary_index: the first row that holds the code, 0 when none does. *)
find_binary_index(code, table) ==
  IF \E i \in DOMAIN table : table[i] = code
  THEN CHOOSE i \in DOMAIN table : table[i] = code /\ \A j \in 1..(i - 1) : table[j] # code
  ELSE 0

map_binary_to_char(code, reverse) ==
  LET index == find_binary_index(code, IF reverse THEN array_reverse_code ELSE array_code)
  IN IF index # 0 THEN array_char[index] ELSE UNMAPPED_CHAR

(* The conversion of one chunk: the counts are sorted, and every bar whose *)
(* count is among the TOP_K largest is wide: fewer than TOP_K exceed it.   *)
Wide(counts) ==
  {i \in 1..CHUNK_SIZE :
     Cardinality({j \in 1..CHUNK_SIZE : counts[j] > counts[i]}) < TOP_K}
=============================================================================
