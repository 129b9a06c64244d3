--------------------------- MODULE Barcode_proofs ---------------------------
(***************************************************************************)
(* Barcode for every set of tracks: the types of its variables, and that a *)
(* label which finds the detector clean is printed.  First the tables of   *)
(* Code 39, then what a label looks like to the sensor, then the invariant *)
(* that ties the detector to the place of the sensor in the label, and one *)
(* lemma for each step.                                                    *)
(***************************************************************************)
EXTENDS Barcode, FiniteSetTheorems, SequenceTheorems, TLAPS

(* The row of a character in the tables.                                   *)
Row(c) == CHOOSE i \in DOMAIN array_char : array_char[i] = c

(* The k-th character of a label, from 0; "*" at both ends.                *)
Letter(l, k) == IF k = 1 THEN l.c ELSE "*"

(* A code read from the other end.                                         *)
Mirror(code) == {i \in 1..CHUNK_SIZE : 10 - i \in code}

(* The code that the k-th chunk shows, and its speed.                      *)
Code(l, r, k) == LET code == array_code[Row(Letter(l, k))] IN IF r THEN Mirror(code) ELSE code

Speed(l, r, k) == l.speeds[IF r THEN 3 - k ELSE k + 1]

(* The colour of bar i of a character, i = 10 its gap.                     *)
Black(i) == i % 2 = 1

-----------------------------------------------------------------------------
(* The three tables have 44 rows, the last of them "*" (buddy3.c 105-127). *)
LEMMA Tables ==
  /\ DOMAIN array_char = 1..44 /\ DOMAIN array_code = 1..44 /\ DOMAIN array_reverse_code = 1..44
  /\ array_char[44] = "*"
BY DEF array_char, array_code, array_reverse_code

(* Every code is one of nine positions.                                    *)
LEMMA CodeSize ==
  \A i \in 1..44 : array_code[i] \in SUBSET (1..9) /\ array_reverse_code[i] \in SUBSET (1..9)
<1>1. \A i \in 1..44 : array_code[i] \in SUBSET (1..9)
  BY DEF array_code
<1>2. \A i \in 1..44 : array_reverse_code[i] \in SUBSET (1..9)
  BY DEF array_reverse_code
<1> QED
  BY <1>1, <1>2

(* Counting up to one position more.                                       *)
LEMMA OneMore ==
  ASSUME NEW S, NEW m \in Nat
  PROVE  LET T(x) == S \cap 1..x
         IN Cardinality(T(m + 1)) = Cardinality(T(m)) + (IF m + 1 \in S THEN 1 ELSE 0)
<1>1. IsFiniteSet(S \cap 1..m) /\ m + 1 \notin S \cap 1..m
  <2>1. IsFiniteSet(1..m)
    BY FS_Interval
  <2> QED
    BY <2>1, FS_Subset
<1>2. S \cap 1..(m + 1) = IF m + 1 \in S THEN (S \cap 1..m) \cup {m + 1} ELSE S \cap 1..m
  OBVIOUS
<1>3. Cardinality(S \cap 1..m) \in Nat
  BY <1>1, FS_CardinalityType
<1>4. Cardinality((S \cap 1..m) \cup {m + 1}) = Cardinality(S \cap 1..m) + 1
  BY <1>1, FS_AddElement
<1> QED
  BY <1>2, <1>3, <1>4

(* A code as the program writes it, a digit for each position.             *)
Bit(S, x) == IF x \in S THEN 1 ELSE 0

(* The size of a code is the sum of its nine digits.                       *)
LEMMA CountNine ==
  ASSUME NEW S \in SUBSET (1..9)
  PROVE  Cardinality(S) = Bit(S, 1) + Bit(S, 2) + Bit(S, 3) + Bit(S, 4) + Bit(S, 5)
                          + Bit(S, 6) + Bit(S, 7) + Bit(S, 8) + Bit(S, 9)
<1> DEFINE N(m) == Cardinality(S \cap 1..m)
<1>1. N(0) = 0
  <2>1. S \cap 1..0 = {}
    OBVIOUS
  <2> QED
    BY <2>1, FS_EmptySet
<1>2. \A m \in Nat : N(m + 1) = N(m) + Bit(S, m + 1)
  BY OneMore DEF Bit
<1>3. N(9) = Cardinality(S)
  <2>1. S \cap 1..9 = S
    OBVIOUS
  <2> QED
    BY <2>1
<1> HIDE DEF N
<1>4. /\ N(0 + 1) = N(0) + Bit(S, 0 + 1) /\ N(1 + 1) = N(1) + Bit(S, 1 + 1)
      /\ N(2 + 1) = N(2) + Bit(S, 2 + 1) /\ N(3 + 1) = N(3) + Bit(S, 3 + 1)
      /\ N(4 + 1) = N(4) + Bit(S, 4 + 1) /\ N(5 + 1) = N(5) + Bit(S, 5 + 1)
      /\ N(6 + 1) = N(6) + Bit(S, 6 + 1) /\ N(7 + 1) = N(7) + Bit(S, 7 + 1)
      /\ N(8 + 1) = N(8) + Bit(S, 8 + 1)
  BY <1>2
<1> QED
  BY <1>1, <1>3, <1>4 DEF Bit

(* Code 39: every character has three wide bars of nine, in both tables.   *)
LEMMA ThreeWide ==
  \A i \in 1..44 : Cardinality(array_code[i]) = 3 /\ Cardinality(array_reverse_code[i]) = 3
<1>1. \A i \in 1..44 :
        3 = Bit(array_code[i], 1) + Bit(array_code[i], 2) + Bit(array_code[i], 3)
            + Bit(array_code[i], 4) + Bit(array_code[i], 5) + Bit(array_code[i], 6)
            + Bit(array_code[i], 7) + Bit(array_code[i], 8) + Bit(array_code[i], 9)
  BY DEF array_code, Bit
<1>2. \A i \in 1..44 :
        3 = Bit(array_reverse_code[i], 1) + Bit(array_reverse_code[i], 2) + Bit(array_reverse_code[i], 3)
            + Bit(array_reverse_code[i], 4) + Bit(array_reverse_code[i], 5) + Bit(array_reverse_code[i], 6)
            + Bit(array_reverse_code[i], 7) + Bit(array_reverse_code[i], 8) + Bit(array_reverse_code[i], 9)
  BY DEF array_reverse_code, Bit
<1>3. \A i \in 1..44 : Cardinality(array_code[i]) = 3
  BY <1>1, CodeSize, CountNine
<1>4. \A i \in 1..44 : Cardinality(array_reverse_code[i]) = 3
  BY <1>2, CodeSize, CountNine
<1> QED
  BY <1>3, <1>4

(* A row of array_reverse_code is the row of array_code, read from the     *)
(* other end (buddy3.c 119-127).                                           *)
LEMMA ReverseTable ==
  \A i \in 1..44 : array_reverse_code[i] = Mirror(array_code[i])
BY DEF array_code, array_reverse_code, Mirror, CHUNK_SIZE

(* No two rows of a table are the same.                                    *)
LEMMA RowsDiffer ==
  \A i, j \in 1..44 :
    /\ array_code[i] = array_code[j] => i = j
    /\ array_reverse_code[i] = array_reverse_code[j] => i = j
<1>1. \A i, j \in 1..44 : array_code[i] = array_code[j] => i = j
  BY DEF array_code
<1>2. \A i, j \in 1..44 : array_reverse_code[i] = array_reverse_code[j] => i = j
  BY DEF array_reverse_code
<1> QED
  BY <1>1, <1>2

(* Only the last row is "*".                                               *)
LEMMA OneStar == \A j \in 1..44 : array_char[j] = "*" => j = 44
<1>1. /\ array_char[1] # "*" /\ array_char[2] # "*" /\ array_char[3] # "*" /\ array_char[4] # "*"
      /\ array_char[5] # "*" /\ array_char[6] # "*" /\ array_char[7] # "*" /\ array_char[8] # "*"
      /\ array_char[9] # "*" /\ array_char[10] # "*" /\ array_char[11] # "*" /\ array_char[12] # "*"
      /\ array_char[13] # "*" /\ array_char[14] # "*" /\ array_char[15] # "*" /\ array_char[16] # "*"
      /\ array_char[17] # "*" /\ array_char[18] # "*" /\ array_char[19] # "*" /\ array_char[20] # "*"
      /\ array_char[21] # "*" /\ array_char[22] # "*" /\ array_char[23] # "*" /\ array_char[24] # "*"
      /\ array_char[25] # "*" /\ array_char[26] # "*" /\ array_char[27] # "*" /\ array_char[28] # "*"
      /\ array_char[29] # "*" /\ array_char[30] # "*" /\ array_char[31] # "*" /\ array_char[32] # "*"
      /\ array_char[33] # "*" /\ array_char[34] # "*" /\ array_char[35] # "*" /\ array_char[36] # "*"
      /\ array_char[37] # "*" /\ array_char[38] # "*" /\ array_char[39] # "*" /\ array_char[40] # "*"
      /\ array_char[41] # "*" /\ array_char[42] # "*" /\ array_char[43] # "*"
  BY Zenon DEF array_char
<1> QED
  BY <1>1

(* There are finitely many positions.                                      *)
LEMMA NineFinite == IsFiniteSet(1..9)
<1>1. 1 \in Int /\ 9 \in Int
  OBVIOUS
<1> QED
  BY <1>1, FS_Interval

(* Sorting finds the three wide bars when each is longer than every narrow *)
(* one.                                                                    *)
LEMMA WideBars ==
  ASSUME NEW code \in SUBSET (1..9), Cardinality(code) = 3, NEW counts,
         \A i \in 1..9 : counts[i] \in Nat,
         \A i \in code, j \in (1..9) \ code : counts[i] > counts[j]
  PROVE  Wide(counts) = code
<1> DEFINE Larger(i) == {j \in 1..9 : counts[j] > counts[i]}
<1>1. IsFiniteSet(1..9) /\ IsFiniteSet(code)
  BY NineFinite, FS_Subset
<1>2. ASSUME NEW i \in code PROVE Cardinality(Larger(i)) < 3
  <2>1. Larger(i) \subseteq code \ {i}
    <3>1. \A j \in (1..9) \ code : ~(counts[j] > counts[i])
      BY <1>2
    <3>2. ~(counts[i] > counts[i])
      BY <1>2
    <3> QED
      BY <3>1, <3>2
  <2>2. IsFiniteSet(code \ {i}) /\ Cardinality(code \ {i}) = 3 - 1
    BY <1>1, <1>2, FS_RemoveElement
  <2> HIDE DEF Larger
  <2>3. Cardinality(Larger(i)) <= Cardinality(code \ {i}) /\ IsFiniteSet(Larger(i))
    BY <2>1, <2>2, FS_Subset
  <2>4. Cardinality(Larger(i)) \in Nat
    BY <2>3, FS_CardinalityType
  <2> QED
    BY <2>2, <2>3, <2>4
<1>3. ASSUME NEW i \in (1..9) \ code PROVE ~(Cardinality(Larger(i)) < 3)
  <2>1. code \subseteq Larger(i)
    BY <1>3
  <2>2. IsFiniteSet(Larger(i))
    BY <1>1, FS_Subset
  <2> HIDE DEF Larger
  <2>3. Cardinality(code) <= Cardinality(Larger(i)) /\ Cardinality(Larger(i)) \in Nat
    BY <2>1, <2>2, FS_Subset, FS_CardinalityType
  <2> QED
    BY <2>3
<1>4. Wide(counts) = {i \in 1..9 : Cardinality(Larger(i)) < 3}
  BY DEF Wide, CHUNK_SIZE, TOP_K
<1> HIDE DEF Larger
<1> QED
  BY <1>2, <1>3, <1>4

(* find_binary_index finds the row of a code when no two rows are the      *)
(* same.                                                                   *)
LEMMA Finds ==
  ASSUME NEW table, DOMAIN table = 1..44, \A i, j \in 1..44 : table[i] = table[j] => i = j,
         NEW i \in 1..44
  PROVE  find_binary_index(table[i], table) = i
<1>1. /\ i \in DOMAIN table /\ table[i] = table[i] /\ \A j \in 1..(i - 1) : table[j] # table[i]
  OBVIOUS
<1>2. \A x \in DOMAIN table : table[x] = table[i] => x = i
  OBVIOUS
<1> QED
  BY <1>1, <1>2 DEF find_binary_index

(* Either table gives a code its character.                                *)
LEMMA Maps ==
  ASSUME NEW i \in 1..44
  PROVE  /\ map_binary_to_char(array_code[i], FALSE) = array_char[i]
         /\ map_binary_to_char(array_reverse_code[i], TRUE) = array_char[i]
<1>1. find_binary_index(array_code[i], array_code) = i
  BY Finds, Tables, RowsDiffer
<1>2. find_binary_index(array_reverse_code[i], array_reverse_code) = i
  BY Finds, Tables, RowsDiffer
<1> QED
  BY <1>1, <1>2 DEF map_binary_to_char

(* A chunk is read as its character, from either end and whatever the      *)
(* counts, if only every wide bar is longer than every narrow one:         *)
(* convert_stay_counts has no threshold that the speed must meet (buddy3.c *)
(* 169-242).                                                               *)
THEOREM CharacterRead ==
  ASSUME NEW i \in 1..44, NEW reverse \in BOOLEAN, NEW counts,
         \A x \in 1..9 : counts[x] \in Nat,
         LET code == IF reverse THEN Mirror(array_code[i]) ELSE array_code[i]
         IN \A x \in code, y \in (1..9) \ code : counts[x] > counts[y]
  PROVE  map_binary_to_char(Wide(counts), reverse) = array_char[i]
<1> DEFINE code == IF reverse THEN Mirror(array_code[i]) ELSE array_code[i]
<1>1. code = IF reverse THEN array_reverse_code[i] ELSE array_code[i]
  BY ReverseTable
<1>2. \A x \in code, y \in (1..9) \ code : counts[x] > counts[y]
  OBVIOUS
<1> HIDE DEF code
<1>3. code \in SUBSET (1..9) /\ Cardinality(code) = 3
  BY <1>1, CodeSize, ThreeWide
<1>4. Wide(counts) = code
  BY <1>2, <1>3, WideBars
<1>5. map_binary_to_char(code, reverse) = array_char[i]
  <2>1. CASE reverse
    BY <1>1, <2>1, Maps
  <2>2. CASE ~reverse
    BY <1>1, <2>2, Maps
  <2> QED
    BY <2>1, <2>2
<1> QED
  BY <1>4, <1>5

(* "*" from the other end is not "*" (it is P): the first chunk tells the  *)
(* direction (buddy3.c 217-224).                                           *)
LEMMA StarBackwards == map_binary_to_char(array_reverse_code[44], FALSE) # "*"
<1>1. array_reverse_code[44] = array_code[26]
  BY DEF array_code, array_reverse_code
<1>2. map_binary_to_char(array_code[26], FALSE) = array_char[26]
  <2>1. 26 \in 1..44
    OBVIOUS
  <2> QED
    BY <2>1, Maps, Zenon
<1>3. array_char[26] # "*"
  BY OneStar
<1> QED
  BY <1>1, <1>2, <1>3

(* A label is made of characters of the table.                             *)
LEMMA RowOf ==
  ASSUME NEW l \in Labels, NEW k \in 0..2
  PROVE  /\ Row(Letter(l, k)) \in 1..44
         /\ array_char[Row(Letter(l, k))] = Letter(l, k)
<1>1. \E i \in DOMAIN array_char : array_char[i] = Letter(l, k)
  BY Tables DEF Labels, Range, Letter
<1> QED
  BY <1>1, Tables DEF Row

(* The code under the sensor at each chunk of a label is mapped to the     *)
(* character of that chunk, and the first one tells the direction.         *)
LEMMA CodesTold ==
  ASSUME NEW l \in Labels, NEW r \in BOOLEAN, NEW k \in 0..2
  PROVE  /\ Code(l, r, k) \in SUBSET (1..9) /\ Cardinality(Code(l, r, k)) = 3
         /\ map_binary_to_char(Code(l, r, k), r) = Letter(l, k)
         /\ k = 0 => (map_binary_to_char(Code(l, r, k), FALSE) = "*" <=> ~r)
<1> DEFINE row == Row(Letter(l, k))
<1>1. Code(l, r, k) = IF r THEN array_reverse_code[row] ELSE array_code[row]
  BY RowOf, ReverseTable DEF Code
<1>2. k = 0 => row = 44
  BY RowOf, OneStar DEF Letter
<1>3. row \in 1..44 /\ array_char[row] = Letter(l, k)
  BY RowOf
<1>4. /\ map_binary_to_char(array_code[row], FALSE) = Letter(l, k)
      /\ map_binary_to_char(array_reverse_code[row], TRUE) = Letter(l, k)
  BY <1>3, Maps
<1>5. k = 0 => Letter(l, k) = "*"
  BY DEF Letter
<1> HIDE DEF row
<1>6. CASE r
  BY <1>1, <1>2, <1>3, <1>4, <1>5, <1>6, CodeSize, ThreeWide, StarBackwards
<1>7. CASE ~r
  BY <1>1, <1>3, <1>4, <1>5, <1>7, CodeSize, ThreeWide
<1> QED
  BY <1>6, <1>7

-----------------------------------------------------------------------------
(* u is s followed by t, said by its elements.                             *)
IsJoin(S, u, s, t) ==
  /\ u \in Seq(S) /\ Len(u) = Len(s) + Len(t)
  /\ \A i \in 1..Len(s) : u[i] = s[i]
  /\ \A i \in 1..Len(t) : u[Len(s) + i] = t[i]
(* Concatenation joins.                                                    *)
LEMMA Joined ==
  ASSUME NEW S, NEW s \in Seq(S), NEW t \in Seq(S)
  PROVE  IsJoin(S, s \o t, s, t)
<1>1. /\ s \o t \in Seq(S)
      /\ Len(s \o t) = Len(s) + Len(t)
      /\ \A i \in 1..(Len(s) + Len(t)) :
           (s \o t)[i] = IF i <= Len(s) THEN s[i] ELSE t[i - Len(s)]
  BY ConcatProperties
<1>0. Len(s) \in Nat /\ Len(t) \in Nat
  OBVIOUS
<1>2. ASSUME NEW i \in 1..Len(t) PROVE (s \o t)[Len(s) + i] = t[i]
  <2>1. Len(s) + i \in 1..(Len(s) + Len(t)) /\ ~(Len(s) + i <= Len(s)) /\ (Len(s) + i) - Len(s) = i
    BY <1>0
  <2> QED
    BY <1>1, <2>1
<1>3. ASSUME NEW i \in 1..Len(s) PROVE (s \o t)[i] = s[i]
  BY <1>1, <1>0
<1> QED
  BY <1>1, <1>2, <1>3 DEF IsJoin

(* s is three characters with the two gaps between them.                   *)
FiveParts(s, a, g, b, h, c) ==
  /\ s \in Seq(Run) /\ Len(s) = 29
  /\ s[10] = g[1] /\ s[20] = h[1]
  /\ \A i \in 1..9 : s[i] = a[i] /\ s[10 + i] = b[i] /\ s[20 + i] = c[i]

(* Four concatenations of them give that.                                  *)
LEMMA FiveJoined ==
  ASSUME NEW a \in Seq(Run), Len(a) = 9, NEW b \in Seq(Run), Len(b) = 9,
         NEW c \in Seq(Run), Len(c) = 9, NEW g \in Seq(Run), Len(g) = 1,
         NEW h \in Seq(Run), Len(h) = 1,
         NEW s1, IsJoin(Run, s1, a, g), NEW s2, IsJoin(Run, s2, s1, b),
         NEW s3, IsJoin(Run, s3, s2, h), NEW s, IsJoin(Run, s, s3, c)
  PROVE  FiveParts(s, a, g, b, h, c)
<1>1. /\ s1 \in Seq(Run) /\ Len(s1) = 10
      /\ \A i \in 1..9 : s1[i] = a[i]
      /\ \A i \in 1..1 : s1[9 + i] = g[i]
  BY DEF IsJoin
<1>2. s1[10] = g[1]
  BY <1>1
<1>3. /\ s2 \in Seq(Run) /\ Len(s2) = 19
      /\ \A i \in 1..10 : s2[i] = s1[i]
      /\ \A i \in 1..9 : s2[10 + i] = b[i]
  BY <1>1 DEF IsJoin
<1>4. /\ s3 \in Seq(Run) /\ Len(s3) = 20
      /\ \A i \in 1..19 : s3[i] = s2[i]
      /\ \A i \in 1..1 : s3[19 + i] = h[i]
  BY <1>3 DEF IsJoin
<1>8. s3[20] = h[1]
  BY <1>4
<1>5. /\ s \in Seq(Run) /\ Len(s) = 29
      /\ \A i \in 1..20 : s[i] = s3[i]
      /\ \A i \in 1..9 : s[20 + i] = c[i]
  BY <1>4 DEF IsJoin
<1>6. s[10] = g[1] /\ s[20] = h[1]
  <2>1. 10 \in 1..10 /\ 10 \in 1..19 /\ 10 \in 1..20 /\ 20 \in 1..20
    OBVIOUS
  <2>2. s[10] = s3[10] /\ s3[10] = s2[10] /\ s2[10] = s1[10] /\ s[20] = s3[20]
    BY <1>3, <1>4, <1>5, <2>1, Zenon
  <2> QED
    BY <1>2, <1>8, <2>2
<1>7. ASSUME NEW i \in 1..9 PROVE s[i] = a[i] /\ s[10 + i] = b[i]
  <2>1. i \in 1..10 /\ i \in 1..19 /\ i \in 1..20 /\ 10 + i \in 1..19 /\ 10 + i \in 1..20
    OBVIOUS
  <2>2. s[i] = s3[i] /\ s3[i] = s2[i] /\ s2[i] = s1[i] /\ s1[i] = a[i]
    BY <1>1, <1>3, <1>4, <1>5, <2>1
  <2>3. s[10 + i] = s3[10 + i] /\ s3[10 + i] = s2[10 + i] /\ s2[10 + i] = b[i]
    BY <1>3, <1>4, <1>5, <2>1
  <2> QED
    BY <2>2, <2>3
<1> QED
  BY <1>5, <1>6, <1>7 DEF FiveParts

(* p is the nine bars of a character, n readings to a narrow one.          *)
IsPart(p, code, n) ==
  /\ p \in Seq(Run) /\ Len(p) = 9
  /\ \A i \in 1..9 : /\ p[i].black = Black(i)
                     /\ p[i].n = IF i \in code THEN 3 * n ELSE n

(* Runs is that.                                                           *)
LEMMA RunsShape ==
  ASSUME NEW c, NEW n \in Nat \ {0}
  PROVE  IsPart(Runs(c, n), array_code[Row(c)], n)
<1> DEFINE bar(i) == [black |-> Black(i), n |-> IF i \in array_code[Row(c)] THEN 3 * n ELSE n]
<1>1. Runs(c, n) = [i \in 1..9 |-> bar(i)]
  BY DEF Runs, Row, Black, CHUNK_SIZE
<1>2. \A i \in 1..9 : bar(i) \in Run /\ bar(i).black = Black(i)
                   /\ bar(i).n = IF i \in array_code[Row(c)] THEN 3 * n ELSE n
  BY DEF Run, Black
<1> HIDE DEF bar
<1> QED
  BY <1>1, <1>2 DEF IsPart

(* A label is 30 runs: bar or gap i of character k is run 10 * k + i, of   *)
(* the colour its parity says and of the width the code read from that end *)
(* says.                                                                   *)
LEMMA LabelRuns ==
  ASSUME NEW l \in Labels, NEW r \in BOOLEAN
  PROVE  /\ Label(l, r) \in Seq(Run) /\ Len(Label(l, r)) = 30
         /\ \A k \in 0..2, i \in 1..10 : Label(l, r)[10 * k + i].black = Black(i)
         /\ \A k \in 0..2, i \in 1..9 :
              Label(l, r)[10 * k + i].n =
                IF i \in Code(l, r, k) THEN 3 * Speed(l, r, k) ELSE Speed(l, r, k)
         /\ \A k \in 0..2 : Speed(l, r, k) \in Nat \ {0}
<1> DEFINE n(k) == l.speeds[k + 1]
           part(k) == Runs(Letter(l, k), n(k))
           gap(k) == Gap(n(k))
           code(k) == array_code[Row(Letter(l, k))]
           s1 == part(0) \o gap(0)
           s2 == s1 \o part(1)
           s3 == s2 \o gap(1)
           s == s3 \o part(2)
           turned == IF r THEN Reverse(s) ELSE s
           whole == turned \o gap(2)
<1>1. \A k \in 0..2 : n(k) \in Nat \ {0}
  BY DEF Labels
<1>2. \A k \in 0..2 : IsPart(part(k), code(k), n(k))
  <2> HIDE DEF n
  <2> QED
    BY <1>1, RunsShape
<1>3. Label(l, r) = whole
  BY DEF Label, Letter
<1>4. \A k \in 0..2 : /\ part(k) \in Seq(Run) /\ Len(part(k)) = 9
                     /\ gap(k) \in Seq(Run) /\ Len(gap(k)) = 1 /\ gap(k)[1].black = FALSE
  <2> HIDE DEF part, n
  <2>1. ASSUME NEW k \in 0..2 PROVE part(k) \in Seq(Run) /\ Len(part(k)) = 9
    BY <1>2 DEF IsPart
  <2>2. ASSUME NEW k \in 0..2
        PROVE  gap(k) \in Seq(Run) /\ Len(gap(k)) = 1 /\ gap(k)[1].black = FALSE
    <3>1. [black |-> FALSE, n |-> n(k)] \in Run
      BY <1>1 DEF Run
    <3> QED
      BY <3>1 DEF Gap
  <2> HIDE DEF gap
  <2> QED
    BY <2>1, <2>2
<1>5. IsJoin(Run, s1, part(0), gap(0))
  <2> HIDE DEF part, gap
  <2> QED
    BY <1>4, Joined
<1>6. IsJoin(Run, s2, s1, part(1))
  <2> HIDE DEF part, gap, s1
  <2>1. s1 \in Seq(Run)
    BY <1>5 DEF IsJoin
  <2> QED
    BY <1>4, <2>1, Joined
<1>7. IsJoin(Run, s3, s2, gap(1))
  <2> HIDE DEF part, gap, s2
  <2>1. s2 \in Seq(Run)
    BY <1>6 DEF IsJoin
  <2> QED
    BY <1>4, <2>1, Joined
<1>8. IsJoin(Run, s, s3, part(2))
  <2> HIDE DEF part, gap, s3
  <2>1. s3 \in Seq(Run)
    BY <1>7 DEF IsJoin
  <2> QED
    BY <1>4, <2>1, Joined
<1>9. FiveParts(s, part(0), gap(0), part(1), gap(1), part(2))
  <2> HIDE DEF part, gap, s1, s2, s3, s
  <2> QED
    BY <1>4, <1>5, <1>6, <1>7, <1>8, FiveJoined
<1> HIDE DEF gap, part, s
<1>10. /\ turned \in Seq(Run) /\ Len(turned) = 29
       /\ \A j \in 1..29 : turned[j] = IF r THEN s[30 - j] ELSE s[j]
  <2>1. \A j \in 1..29 : 30 - j \in 1..29 /\ (29 - j) + 1 = 30 - j
    OBVIOUS
  <2>0. s \in Seq(Run) /\ Len(s) = 29
    BY <1>9 DEF FiveParts
  <2>2. \A j \in 1..29 : s[j] \in Run
    BY <2>0, ElementOfSeq
  <2>3. Reverse(s) = [j \in 1..29 |-> s[30 - j]]
    BY <2>0, <2>1 DEF Reverse
  <2>4. \A j \in 1..29 : s[30 - j] \in Run
    BY <2>1, <2>2
  <2> HIDE DEF Run
  <2>5. Reverse(s) \in Seq(Run) /\ Len(Reverse(s)) = 29 /\ \A j \in 1..29 : Reverse(s)[j] = s[30 - j]
    BY <2>3, <2>4
  <2> QED
    BY <2>0, <2>5
<1> HIDE DEF turned
<1>11. IsJoin(Run, whole, turned, gap(2))
  BY <1>4, <1>10, Joined
<1> HIDE DEF whole
<1>12. /\ whole \in Seq(Run) /\ Len(whole) = 30 /\ \A j \in 1..29 : whole[j] = turned[j]
       /\ whole[30].black = FALSE
  <2>1. turned \in Seq(Run) /\ Len(turned) = 29 /\ gap(2) \in Seq(Run) /\ Len(gap(2)) = 1
    BY <1>4, <1>10
  <2>5. /\ whole \in Seq(Run) /\ Len(whole) = Len(turned) + Len(gap(2))
        /\ \A j \in 1..Len(turned) : whole[j] = turned[j]
    BY <1>11 DEF IsJoin
  <2>6. Len(whole) = 30
    <3>1. Len(turned) = 29 /\ Len(gap(2)) = 1
      BY <2>1
    <3>2. Len(whole) = Len(turned) + Len(gap(2))
      BY <2>5
    <3>3. 29 + 1 = 30
      OBVIOUS
    <3> QED
      BY <3>1, <3>2, <3>3, Zenon
  <2>2. \A j \in 1..29 : whole[j] = turned[j]
    BY <2>1, <2>5, Zenon
  <2>3. whole[29 + 1] = gap(2)[1]
    BY <1>11, <2>1 DEF IsJoin
  <2>4. gap(2)[1].black = FALSE
    BY <1>4
  <2>7. whole[30].black = FALSE
    BY <2>3, <2>4
  <2> QED
    BY <2>2, <2>5, <2>6, <2>7, Zenon
<1>13. ASSUME NEW k \in 0..2, NEW i \in 1..9
       PROVE  s[10 * k + i] = part(k)[i]
  <2>1. \A x \in 1..9 : /\ s[x] = part(0)[x] /\ s[10 + x] = part(1)[x]
                       /\ s[20 + x] = part(2)[x]
    BY <1>9 DEF FiveParts
  <2>2. CASE k = 0
    BY <2>1, <2>2
  <2>3. CASE k = 1
    BY <2>1, <2>3
  <2>4. CASE k = 2
    BY <2>1, <2>4
  <2> QED
    BY <2>2, <2>3, <2>4
<1>14. s[10].black = FALSE /\ s[20].black = FALSE
  <2>1. s[10] = gap(0)[1] /\ s[20] = gap(1)[1]
    BY <1>9 DEF FiveParts
  <2> QED
    BY <1>4, <2>1
<1>15. ASSUME NEW k \in 0..2, NEW i \in 1..9
       PROVE  whole[10 * k + i] = IF r THEN part(2 - k)[10 - i] ELSE part(k)[i]
  <2>1. /\ 10 * k + i \in 1..29 /\ 2 - k \in 0..2 /\ 10 - i \in 1..9
        /\ 30 - (10 * k + i) = 10 * (2 - k) + (10 - i)
    OBVIOUS
  <2>2. whole[10 * k + i] = IF r THEN s[30 - (10 * k + i)] ELSE s[10 * k + i]
    BY <1>10, <1>12, <2>1
  <2>3. s[10 * (2 - k) + (10 - i)] = part(2 - k)[10 - i]
    BY <1>13, <2>1
  <2> QED
    BY <1>13, <2>1, <2>2, <2>3
<1>16. ASSUME NEW k \in 0..2 PROVE whole[10 * k + 10].black = FALSE
  <2>1. /\ whole[10] = turned[10] /\ whole[20] = turned[20]
        /\ turned[10] = (IF r THEN s[30 - 10] ELSE s[10])
        /\ turned[20] = (IF r THEN s[30 - 20] ELSE s[20])
    <3>1. 10 \in 1..29 /\ 20 \in 1..29
      OBVIOUS
    <3> QED
      BY <1>10, <1>12, <3>1, Zenon
  <2>2. whole[10].black = FALSE /\ whole[20].black = FALSE
    BY <1>14, <2>1
  <2>3. k = 0 \/ k = 1 \/ k = 2
    OBVIOUS
  <2>4. 10 * 0 + 10 = 10 /\ 10 * 1 + 10 = 20 /\ 10 * 2 + 10 = 30
    OBVIOUS
  <2> QED
    BY <1>12, <2>2, <2>3, <2>4, Zenon
<1>17. ASSUME NEW k \in 0..2, NEW i \in 1..9
       PROVE  /\ whole[10 * k + i].black = Black(i)
              /\ whole[10 * k + i].n = IF i \in Code(l, r, k) THEN 3 * Speed(l, r, k) ELSE Speed(l, r, k)
  <2>1. CASE r
    <3>1. 2 - k \in 0..2 /\ 10 - i \in 1..9
      OBVIOUS
    <3>2. /\ part(2 - k)[10 - i].black = Black(10 - i)
          /\ part(2 - k)[10 - i].n = IF 10 - i \in code(2 - k) THEN 3 * n(2 - k) ELSE n(2 - k)
      BY <1>2, <3>1 DEF IsPart
    <3>3. Black(10 - i) = Black(i)
      BY DEF Black
    <3>4. code(2 - k) = array_code[Row(Letter(l, k))]
      BY DEF Letter
    <3>5. i \in Code(l, r, k) <=> 10 - i \in code(2 - k)
      BY <2>1, <3>4 DEF Code, Mirror, CHUNK_SIZE
    <3>6. n(2 - k) = Speed(l, r, k)
      BY <2>1 DEF Speed
    <3> QED
      BY <1>15, <2>1, <3>2, <3>3, <3>5, <3>6
  <2>2. CASE ~r
    <3>1. /\ part(k)[i].black = Black(i)
          /\ part(k)[i].n = IF i \in code(k) THEN 3 * n(k) ELSE n(k)
      BY <1>2 DEF IsPart
    <3>2. code(k) = Code(l, r, k) /\ n(k) = Speed(l, r, k)
      BY <2>2 DEF Code, Speed
    <3> QED
      BY <1>15, <2>2, <3>1, <3>2
  <2> QED
    BY <2>1, <2>2
<1>18. \A k \in 0..2 : Speed(l, r, k) \in Nat \ {0}
  BY DEF Speed, Labels
<1>19. \A k \in 0..2, i \in 1..10 : whole[10 * k + i].black = Black(i)
  <2> SUFFICES ASSUME NEW k \in 0..2, NEW i \in 1..10
      PROVE  whole[10 * k + i].black = Black(i)
    OBVIOUS
  <2>1. CASE i = 10
    <3>1. Black(i) = FALSE
      BY <2>1 DEF Black
    <3>2. whole[10 * k + 10].black = FALSE
      BY <1>16
    <3> QED
      BY <2>1, <3>1, <3>2
  <2>2. CASE i \in 1..9
    BY <1>17, <2>2
  <2> QED
    BY <2>1, <2>2
<1> QED
  BY <1>3, <1>12, <1>17, <1>18, <1>19

-----------------------------------------------------------------------------
(* A chunk is converted only while whole chunks have been counted, or none. *)
ChunkPlaces == pc \in {"convert", "mark"} => barcount % CHUNK_SIZE = 0

(* A chunk gives a character of the table or the unmapped one.             *)
LEMMA MapsToChars ==
  ASSUME NEW code, NEW reverse \in BOOLEAN
  PROVE  map_binary_to_char(code, reverse) \in Chars
<1> DEFINE table == IF reverse THEN array_reverse_code ELSE array_code
           index == find_binary_index(code, table)
<1>1. DOMAIN table = 1..44 /\ \A i, j \in 1..44 : table[i] = table[j] => i = j
  BY Tables, RowsDiffer
<1>2. map_binary_to_char(code, reverse) = IF index # 0 THEN array_char[index] ELSE UNMAPPED_CHAR
  BY DEF map_binary_to_char
<1> HIDE DEF table
<1>3. index # 0 => index \in 1..44
  <2>1. CASE \E i \in DOMAIN table : table[i] = code
    <3>1. PICK i \in 1..44 : table[i] = code
      BY <1>1, <2>1
    <3>2. find_binary_index(table[i], table) = i
      BY <1>1, Finds
    <3> QED
      BY <3>1, <3>2
  <2>2. CASE ~\E i \in DOMAIN table : table[i] = code
    BY <2>2 DEF find_binary_index
  <2> QED
    BY <2>1, <2>2
<1>4. \A i \in 1..44 : array_char[i] \in Range(array_char)
  BY Tables DEF Range
<1> HIDE DEF index
<1> QED
  BY <1>2, <1>3, <1>4 DEF Chars

(* The counts as the button leaves them are counts.                        *)
LEMMA CountsCleared == NoCounts \in [0..(MAX_TRANSITIONS - 1) -> Nat] /\ 0 \in 0..MAX_TRANSITIONS
<1>1. NoCounts \in [0..(MAX_TRANSITIONS - 1) -> Nat]
  BY DEF NoCounts
<1>2. 0 \in 0..MAX_TRANSITIONS
  BY DEF MAX_TRANSITIONS
<1> QED
  BY <1>1, <1>2

(* Types of variables that do not change.                                  *)
LEMMA GroupsKept ==
  /\ BarsOK /\ UNCHANGED bars => BarsOK'
  /\ CharsOK /\ UNCHANGED chars => CharsOK'
  /\ FlagsOK /\ UNCHANGED flags => FlagsOK'
  /\ TrackOK /\ UNCHANGED track => TrackOK'
<1>1. BarsOK /\ UNCHANGED bars => BarsOK'
  BY DEF BarsOK, bars
<1>2. CharsOK /\ UNCHANGED chars => CharsOK'
  BY DEF CharsOK, chars
<1>3. FlagsOK /\ UNCHANGED flags => FlagsOK'
  BY DEF FlagsOK, flags
<1>4. TrackOK /\ UNCHANGED track => TrackOK'
  BY DEF TrackOK, track
<1> QED
  BY <1>1, <1>2, <1>3, <1>4

(* What one reading takes off the runs that are ahead.                     *)
Taken ==
  LET run == ahead[1]
  IN /\ ahead' \in Seq(Run)
     /\ IF run.n > 1
        THEN /\ Len(ahead') = Len(ahead)
             /\ ahead'[1] = [black |-> run.black, n |-> run.n - 1]
             /\ \A x \in 2..Len(ahead) : ahead'[x] = ahead[x]
        ELSE /\ Len(ahead') = Len(ahead) - 1
             /\ \A x \in 1..(Len(ahead) - 1) : ahead'[x] = ahead[x + 1]

(* One reading is of the first run ahead and takes it off by one.          *)
LEMMA ReadTakes ==
  ASSUME ahead \in Seq(Run), Read
  PROVE  /\ Taken /\ ahead[1] \in Run /\ Len(ahead) \in Nat \ {0}
         /\ current_state_black' = ahead[1].black
         /\ detect_barcode' = (detect_barcode \/ ahead[1].black)
<1> DEFINE run == Head(ahead)
           rest == Tail(ahead)
           less == [run EXCEPT !.n = @ - 1]
<1>1. /\ ahead # <<>>
      /\ current_state_black' = run.black
      /\ detect_barcode' = (detect_barcode \/ run.black)
      /\ ahead' = IF run.n > 1 THEN <<less>> \o rest ELSE rest
  BY DEF Read
<1>2. run = ahead[1] /\ Len(ahead) \in Nat \ {0}
  <2>1. Len(ahead) \in Nat \ {0}
    BY <1>1, EmptySeq
  <2> QED
    BY <2>1
<1>3. run \in Run
  BY <1>2, ElementOfSeq
<1>4. /\ rest \in Seq(Run) /\ Len(rest) = Len(ahead) - 1
      /\ \A x \in 1..Len(rest) : rest[x] = ahead[x + 1]
  BY <1>1, HeadTailProperties
<1>5. run.n > 1 => less \in Run /\ less = [black |-> run.black, n |-> run.n - 1]
  BY <1>3 DEF Run
<1> HIDE DEF less, rest, run
<1>6. CASE run.n > 1
  <2>1. <<less>> \in Seq(Run) /\ Len(<<less>>) = 1 /\ <<less>>[1] = less
    BY <1>5, <1>6
  <2> DEFINE one == <<less>>
  <2> HIDE DEF one
  <2>2. one \in Seq(Run) /\ Len(one) = 1 /\ one[1] = less
    BY <2>1 DEF one
  <2>3. IsJoin(Run, one \o rest, one, rest)
    BY <2>2, <1>4, Joined
  <2>4. ahead' = one \o rest
    BY <1>1, <1>6 DEF one
  <2>5. IsJoin(Run, ahead', one, rest)
    BY <2>3, <2>4
  <2>6. ahead' \in Seq(Run) /\ Len(ahead') = Len(ahead)
    BY <1>2, <1>4, <2>2, <2>5 DEF IsJoin
  <2>7. ahead'[1] = less
    BY <2>2, <2>5 DEF IsJoin
  <2>8. ASSUME NEW x \in 2..Len(ahead) PROVE ahead'[x] = ahead[x]
    <3>1. x - 1 \in 1..Len(rest) /\ 1 + (x - 1) = x /\ (x - 1) + 1 = x
      BY <1>2, <1>4
    <3>2. ahead'[1 + (x - 1)] = rest[x - 1]
      BY <2>2, <2>5, <3>1 DEF IsJoin
    <3>3. rest[x - 1] = ahead[(x - 1) + 1]
      BY <1>4, <3>1
    <3> QED
      BY <3>1, <3>2, <3>3
  <2> QED
    BY <1>1, <1>2, <1>3, <1>5, <1>6, <2>6, <2>7, <2>8 DEF Taken
<1>7. CASE ~(run.n > 1)
  BY <1>1, <1>2, <1>3, <1>4, <1>7 DEF Taken
<1> QED
  BY <1>6, <1>7

(* A reading keeps the types of what it changes.                           *)
LEMMA ReadTrack ==
  ASSUME TrackOK, Read
  PROVE  TrackOK' /\ current_state_black' \in BOOLEAN /\ detect_barcode' \in BOOLEAN
<1>1. ahead \in Seq(Run) /\ coming \in Seq(Labels) /\ coming' = coming
  BY DEF TrackOK, Read
<1>2. Taken /\ ahead[1] \in Run /\ current_state_black' = ahead[1].black
      /\ detect_barcode' = (detect_barcode \/ ahead[1].black)
  BY <1>1, ReadTakes
<1>3. ahead[1].black \in BOOLEAN
  BY <1>2 DEF Run
<1>4. ahead' \in Seq(Run)
  BY <1>2 DEF Taken
<1> QED
  BY <1>1, <1>2, <1>3, <1>4 DEF TrackOK

(* So does the next label.                                                 *)
LEMMA ApproachTrack ==
  ASSUME TrackOK, Approach
  PROVE  TrackOK'
<1>1. coming \in Seq(Labels) /\ coming # <<>> /\ coming' = Tail(coming)
  BY DEF TrackOK, Approach
<1>2. Head(coming) \in Labels /\ Tail(coming) \in Seq(Labels)
  BY <1>1, HeadTailProperties
<1>3. PICK r \in BOOLEAN : ahead' = Label(Head(coming), r)
  BY DEF Approach
<1>4. Label(Head(coming), r) \in Seq(Run)
  BY <1>2, LabelRuns
<1> QED
  BY <1>1, <1>2, <1>3, <1>4 DEF TrackOK

(* And a conversion.                                                       *)
LEMMA ConvertChars ==
  ASSUME CharsOK, FlagsOK, Convert
  PROVE  CharsOK' /\ FlagsOK'
<1>1. PICK code \in WindowCodes :
        LET normal  == map_binary_to_char(code, FALSE) = "*"
            reverse == map_binary_to_char(code, TRUE) = "*"
            known   == direction_determined \/ normal \/ reverse
        IN /\ direction' = IF direction_determined \/ ~known THEN direction ELSE ~normal
           /\ IF known /\ char_index < CHAR_COUNT
              THEN /\ converted_chars' = [converted_chars EXCEPT ![char_index + 1] =
                                            map_binary_to_char(code, direction')]
                   /\ char_index' = char_index + 1
              ELSE UNCHANGED chars
  BY DEF Convert
<1>2. direction' \in BOOLEAN
  BY <1>1 DEF FlagsOK
<1>3. map_binary_to_char(code, direction') \in Chars
  BY <1>2, MapsToChars
<1>4. CharsOK'
  <2>1. CASE UNCHANGED chars
    BY <2>1, GroupsKept
  <2>2. CASE /\ char_index < CHAR_COUNT /\ char_index' = char_index + 1
             /\ converted_chars' = [converted_chars EXCEPT ![char_index + 1] =
                                      map_binary_to_char(code, direction')]
    BY <2>2, <1>3 DEF CharsOK, CHAR_COUNT
  <2> QED
    BY <1>1, <2>1, <2>2
<1>5. FlagsOK'
  <2>1. /\ UNCHANGED <<detect_barcode, last_conversion_barcount, waiting_for_black>>
        /\ direction_determined' = TRUE
    BY DEF Convert
  <2> QED
    BY <1>2, <2>1 DEF FlagsOK
<1> QED
  BY <1>4, <1>5

(* The inductive form of the type invariant: bars are counted in chunks,   *)
(* or last_conversion_barcount would take other values.                    *)
TypeInv == TypeOK /\ ChunkPlaces

(* It holds at power-on.                                                   *)
LEMMA InitialTypes == Init => TypeInv
<1> SUFFICES ASSUME Init PROVE TypeInv
  OBVIOUS
<1>1. CharsOK
  <2> DEFINE none == ""
  <2>1. none \in Chars
    BY Zenon DEF Chars
  <2>2. converted_chars = [i \in 1..CHAR_COUNT |-> none] /\ char_index = 0
    BY DEF Init
  <2> HIDE DEF none
  <2> QED
    BY <2>1, <2>2 DEF CharsOK, CHAR_COUNT
<1>2. TrackOK
  <2>1. ahead = <<>> /\ coming \in Tracks
    BY DEF Init
  <2>2. <<>> \in Seq(Run)
    BY EmptySeq, Zenon
  <2>3. coming \in Seq(Labels)
    BY <2>1, TracksAssumption
  <2> QED
    BY <2>1, <2>2, <2>3, Zenon DEF TrackOK
<1>3. BarsOK
  BY CountsCleared DEF Init, BarsOK
<1>4. FlagsOK
  BY DEF Init, FlagsOK
<1>5. pc = "idle" /\ current_state_black = FALSE /\ found = "reset" /\ clean = TRUE
  BY DEF Init
<1> QED
  BY <1>1, <1>2, <1>3, <1>4, <1>5 DEF TypeInv, TypeOK, ChunkPlaces, Places, Found

(* Every step of the detector, the button and the track keeps it.          *)
LEMMA KeptTypes == TypeInv /\ [Next]_vars => TypeInv'
<1> SUFFICES ASSUME TypeInv, [Next]_vars PROVE TypeInv'
  OBVIOUS
<1> USE GroupsKept DEF TypeInv, TypeOK, ChunkPlaces, Places, Found
<1>1. CASE Approach
  BY <1>1, ApproachTrack DEF Approach
<1>2. CASE Read
  <2>1. FlagsOK'
    BY <1>2, ReadTrack DEF Read, FlagsOK
  <2> QED
    BY <1>2, <2>1, ReadTrack DEF Read, history
<1>3. CASE Transition
  <2>1. BarsOK'
    BY <1>3 DEF Transition, BarsOK, MAX_TRANSITIONS
  <2> QED
    BY <1>3, <2>1 DEF Transition, history
<1>4. CASE Check
  BY <1>4 DEF Check, ChunkDone, bars, history
<1>5. CASE Convert
  BY <1>5, ConvertChars DEF Convert, bars, history
<1>6. CASE Mark
  <2>1. FlagsOK'
    BY <1>6 DEF Mark, FlagsOK, BarsOK, MAX_TRANSITIONS, CHUNK_SIZE
  <2> QED
    BY <1>6, <2>1 DEF Mark, history
<1>7. CASE Finish
  <2>1. BarsOK'
    BY <1>7 DEF Finish, BarsOK, MAX_TRANSITIONS
  <2>2. CharsOK'
    BY <1>7 DEF Finish, CharsOK, CHAR_COUNT
  <2>3. FlagsOK'
    BY <1>7 DEF Finish, FlagsOK
  <2> QED
    BY <1>7, <2>1, <2>2, <2>3 DEF Finish
<1>8. CASE Resume
  <2>1. BarsOK'
    BY <1>8 DEF Resume, BarsOK, MAX_TRANSITIONS
  <2>2. FlagsOK'
    BY <1>8 DEF Resume, FlagsOK
  <2> QED
    BY <1>8, <2>1, <2>2 DEF Resume, history
<1>9. CASE Press
  <2>1. BarsOK'
    BY <1>9, CountsCleared DEF Press, BarsOK
  <2>2. CharsOK'
    BY <1>9 DEF Press, CharsOK, CHAR_COUNT
  <2>3. FlagsOK'
    BY <1>9 DEF Press, FlagsOK
  <2>4. found' \in Found /\ clean' \in BOOLEAN
    BY <1>9 DEF Press
  <2>5. pc' = pc /\ current_state_black' = current_state_black /\ barcount' = 0
    BY <1>9 DEF Press
  <2>6. TrackOK'
    BY <1>9 DEF Press
  <2>7. ChunkPlaces'
    BY <2>5 DEF CHUNK_SIZE
  <2> QED
    BY <2>1, <2>2, <2>3, <2>4, <2>5, <2>6, <2>7
<1>10. CASE UNCHANGED vars
  BY <1>10 DEF vars, bars, history
<1> QED
  BY <1>1, <1>2, <1>3, <1>4, <1>5, <1>6, <1>7, <1>8, <1>9, <1>10 DEF Next, barcode_detector

(* For every set of tracks the variables of the reader keep their types;   *)
(* above all no bar is counted past the 27 of stay_counts (buddy3.c        *)
(* 154-160, 276).                                                          *)
THEOREM TypeCorrect == Spec => []TypeOK
<1>1. TypeInv => TypeOK
  BY DEF TypeInv
<1> QED
  BY <1>1, InitialTypes, KeptTypes, PTL DEF Spec

-----------------------------------------------------------------------------
(* Where the sensor is: the runs after the j-th are ahead, or what the     *)
(* first q readings of the j-th have left of it and the runs after it.     *)
Whole(l, r, j) ==
  /\ Len(ahead) = 30 - j
  /\ \A x \in 1..(30 - j) : ahead[x] = Label(l, r)[j + x]

Partly(l, r, j, q) ==
  /\ Len(ahead) = 31 - j
  /\ ahead[1] = [black |-> Label(l, r)[j].black, n |-> Label(l, r)[j].n - q]
  /\ \A x \in 2..(31 - j) : ahead[x] = Label(l, r)[j + x - 1]

Ahead(l, r, j, q) ==
  IF q = Label(l, r)[j].n THEN Whole(l, r, j) ELSE Partly(l, r, j, q)

(* With a run passed, the next reading is the first of the run after it.   *)
LEMMA NextRun ==
  ASSUME NEW l \in Labels, NEW r \in BOOLEAN, TrackOK, Read, NEW j \in 0..30, Whole(l, r, j)
  PROVE  /\ j < 30 /\ Ahead(l, r, j + 1, 1)'
         /\ current_state_black' = Label(l, r)[j + 1].black
         /\ detect_barcode' = (detect_barcode \/ Label(l, r)[j + 1].black)
<1> DEFINE runs == Label(l, r)
<1>1. /\ Taken /\ ahead[1] \in Run /\ Len(ahead) \in Nat \ {0}
      /\ current_state_black' = ahead[1].black
      /\ detect_barcode' = (detect_barcode \/ ahead[1].black)
  BY ReadTakes DEF TrackOK
<1>2. Len(ahead) = 30 - j /\ \A x \in 1..(30 - j) : ahead[x] = runs[j + x]
  BY DEF Whole
<1>3. j < 30 /\ 1 \in 1..(30 - j)
  BY <1>1, <1>2
<1>4. ahead[1] = runs[j + 1]
  BY <1>2, <1>3
<1>5. runs[j + 1].n \in Nat \ {0}
  BY <1>1, <1>4 DEF Run
<1> HIDE DEF runs
<1>6. CASE runs[j + 1].n > 1
  <2>1. /\ Len(ahead') = Len(ahead)
        /\ ahead'[1] = [black |-> runs[j + 1].black, n |-> runs[j + 1].n - 1]
        /\ \A x \in 2..Len(ahead) : ahead'[x] = ahead[x]
    BY <1>1, <1>4, <1>6 DEF Taken
  <2>2. Len(ahead') = 31 - (j + 1)
    BY <1>2, <1>3, <2>1
  <2>3. ASSUME NEW x \in 2..(31 - (j + 1)) PROVE ahead'[x] = runs[(j + 1) + x - 1]
    <3>1. x \in 2..Len(ahead) /\ x \in 1..(30 - j) /\ (j + 1) + x - 1 = j + x
      BY <1>2, <1>3
    <3> QED
      BY <1>2, <2>1, <3>1
  <2>4. Partly(l, r, j + 1, 1)'
    BY <2>1, <2>2, <2>3 DEF Partly, runs
  <2>5. 1 # runs[j + 1].n
    BY <1>6
  <2> QED
    BY <1>1, <1>3, <1>4, <2>4, <2>5 DEF Ahead, runs
<1>7. CASE runs[j + 1].n = 1
  <2>1. /\ Len(ahead') = Len(ahead) - 1
        /\ \A x \in 1..(Len(ahead) - 1) : ahead'[x] = ahead[x + 1]
    BY <1>1, <1>4, <1>7 DEF Taken
  <2>2. Len(ahead') = 30 - (j + 1)
    BY <1>2, <1>3, <2>1
  <2>3. ASSUME NEW x \in 1..(30 - (j + 1)) PROVE ahead'[x] = runs[(j + 1) + x]
    <3>1. x \in 1..(Len(ahead) - 1) /\ x + 1 \in 1..(30 - j) /\ (j + 1) + x = j + (x + 1)
      BY <1>2, <1>3
    <3> QED
      BY <1>2, <2>1, <3>1
  <2>4. Whole(l, r, j + 1)'
    BY <2>2, <2>3 DEF Whole, runs
  <2> QED
    BY <1>1, <1>3, <1>4, <1>7, <2>4 DEF Ahead, runs
<1> QED
  BY <1>5, <1>6, <1>7

(* Within a run, the next reading is of the same run.                      *)
LEMMA SameRun ==
  ASSUME NEW l \in Labels, NEW r \in BOOLEAN, TrackOK, Read, NEW j \in 1..30,
         Label(l, r)[j].n \in Nat, NEW q \in 1..(Label(l, r)[j].n - 1), Partly(l, r, j, q)
  PROVE  /\ Ahead(l, r, j, q + 1)'
         /\ current_state_black' = Label(l, r)[j].black
         /\ detect_barcode' = (detect_barcode \/ Label(l, r)[j].black)
<1> DEFINE runs == Label(l, r)
<1>1. /\ Taken
      /\ current_state_black' = ahead[1].black
      /\ detect_barcode' = (detect_barcode \/ ahead[1].black)
  BY ReadTakes DEF TrackOK
<1>2. /\ Len(ahead) = 31 - j
      /\ ahead[1].black = runs[j].black /\ ahead[1].n = runs[j].n - q
      /\ \A x \in 2..(31 - j) : ahead[x] = runs[j + x - 1]
  BY DEF Partly
<1>3. runs[j].n \in Nat /\ q \in 1..(runs[j].n - 1)
  OBVIOUS
<1> HIDE DEF runs
<1>6. CASE runs[j].n - q > 1
  <2>1. /\ Len(ahead') = Len(ahead)
        /\ ahead'[1] = [black |-> runs[j].black, n |-> (runs[j].n - q) - 1]
        /\ \A x \in 2..Len(ahead) : ahead'[x] = ahead[x]
    BY <1>1, <1>2, <1>6 DEF Taken
  <2>2. (runs[j].n - q) - 1 = runs[j].n - (q + 1) /\ q + 1 # runs[j].n
    BY <1>3, <1>6
  <2>4. Partly(l, r, j, q + 1)'
    BY <1>2, <2>1, <2>2 DEF Partly, runs
  <2> QED
    BY <1>1, <1>2, <2>2, <2>4 DEF Ahead, runs
<1>7. CASE runs[j].n - q = 1
  <2>1. /\ Len(ahead') = Len(ahead) - 1
        /\ \A x \in 1..(Len(ahead) - 1) : ahead'[x] = ahead[x + 1]
    <3>1. ahead[1].n = 1
      BY <1>2, <1>7
    <3>2. ~(ahead[1].n > 1)
      BY <3>1
    <3> QED
      BY <1>1, <3>2 DEF Taken
  <2>6. Len(ahead) = 31 - j /\ Len(ahead') = Len(ahead) - 1
    BY <1>2, <2>1
  <2>2. Len(ahead') = 30 - j
    BY <2>6
  <2>3. ASSUME NEW x \in 1..(30 - j) PROVE ahead'[x] = runs[j + x]
    <3>1. x \in 1..(Len(ahead) - 1) /\ x + 1 \in 2..(31 - j) /\ j + (x + 1) - 1 = j + x
      BY <2>6
    <3> QED
      BY <1>2, <2>1, <3>1
  <2>4. Whole(l, r, j)'
    BY <2>2, <2>3 DEF Whole, runs
  <2>5. q + 1 = runs[j].n
    BY <1>3, <1>7
  <2> QED
    BY <1>1, <1>2, <2>4, <2>5 DEF Ahead, runs
<1>8. runs[j].n - q >= 1
  BY <1>3
<1> QED
  BY <1>3, <1>6, <1>7, <1>8

-----------------------------------------------------------------------------
(* The last reading was the q-th of run i of character k, i = 10 its gap.  *)
Position(l, r, k, i, q) ==
  /\ k \in 0..2 /\ i \in 1..10 /\ q \in 1..Label(l, r)[10 * k + i].n
  /\ Ahead(l, r, 10 * k + i, q)
  /\ detect_barcode = TRUE
  /\ current_state_black = Black(i)

(* The first n bars have been counted.                                     *)
Measured(l, r, n) ==
  /\ barcount = n
  /\ \A k \in 0..2, i \in 1..9 :
       9 * k + i =< n => stay_counts[9 * k + i - 1] = Label(l, r)[10 * k + i].n

(* The first m characters have been converted.                             *)
Converted(l, r, m) ==
  /\ char_index = m
  /\ \A k \in 0..(m - 1) : converted_chars[k + 1] = Letter(l, k)
  /\ direction_determined <=> m > 0
  /\ m > 0 => direction = r

Marked(m) == last_conversion_barcount = IF m = 0 THEN -1 ELSE 9 * m

(* The reading is of the first bar after a gap.                            *)
Resuming(k, i, q) == i = 1 /\ k > 0 /\ q = 1

(* The detector at the end of a pass through barcode_detector ...          *)
Counting(l, r, k, i, q) ==
  /\ Measured(l, r, 9 * k + i - 1)
  /\ barcode_black_detected = Black(i)
  /\ stay_count = IF i = 10 THEN 1 ELSE q

Settled(l, r, k, i, q) ==
  LET m == IF i = 10 THEN k + 1 ELSE k
  IN Counting(l, r, k, i, q) /\ Converted(l, r, m) /\ Marked(m)

(* ... and at its steps before that.                                       *)
Entering(l, r, k, i, q) ==
  LET m == IF i = 10 /\ q > 1 THEN k + 1 ELSE k
  IN /\ Converted(l, r, m) /\ Marked(m)
     /\ ~(k = 2 /\ i = 10 /\ q > 1)
     /\ \/ /\ q > 1
           /\ Measured(l, r, 9 * k + i - 1)
           /\ barcode_black_detected = Black(i)
           /\ waiting_for_black <=> (i = 10)
           /\ stay_count = IF i = 10 THEN 1 ELSE q - 1
        \/ /\ q = 1 /\ i > 1
           /\ Measured(l, r, 9 * k + i - 2)
           /\ barcode_black_detected = Black(i - 1) /\ ~waiting_for_black
           /\ stay_count = Label(l, r)[10 * k + i - 1].n
        \/ /\ q = 1 /\ i = 1
           /\ Measured(l, r, 9 * k)
           /\ barcode_black_detected = FALSE
           /\ waiting_for_black <=> (k > 0)
           /\ stay_count = IF k = 0 THEN 0 ELSE 1

Checking(l, r, k, i, q) ==
  LET m == IF i = 10 /\ q > 1 THEN k + 1 ELSE k
  IN /\ Counting(l, r, k, i, q) /\ Converted(l, r, m) /\ Marked(m)
     /\ waiting_for_black <=> ((i = 10 /\ q > 1) \/ Resuming(k, i, q))
     /\ ~(k = 2 /\ i = 10 /\ q > 1)

(* The detector at each of its places, for that position of the sensor.    *)
Place(l, r, k, i, q) ==
  \/ /\ pc = "transition" /\ Entering(l, r, k, i, q)
  \/ /\ pc = "check" /\ Checking(l, r, k, i, q)
  \/ /\ pc = "convert" /\ i = 10 /\ q = 1
     /\ Counting(l, r, k, i, q) /\ Converted(l, r, k) /\ Marked(k)
     /\ ~waiting_for_black
  \/ /\ pc = "mark" /\ i = 10 /\ q = 1
     /\ Counting(l, r, k, i, q) /\ Converted(l, r, k + 1) /\ Marked(k)
     /\ ~waiting_for_black
  \/ /\ pc = "finish" /\ Settled(l, r, k, i, q)
     /\ waiting_for_black <=> (i = 10 \/ Resuming(k, i, q))
     /\ k = 2 /\ i = 10 => q = 1
  \/ /\ pc = "resume" /\ Settled(l, r, k, i, q)
     /\ waiting_for_black <=> (i = 10 \/ Resuming(k, i, q))
     /\ ~(k = 2 /\ i = 10)
  \/ /\ pc = "idle" /\ Settled(l, r, k, i, q)
     /\ waiting_for_black <=> (i = 10)
     /\ ~(k = 2 /\ i = 10)

Inside(l, r, k, i, q) == Position(l, r, k, i, q) /\ Place(l, r, k, i, q)

(* The detector as power-on or the button leaves it.                       *)
Reset ==
  /\ detect_barcode = FALSE /\ barcode_black_detected = FALSE
  /\ stay_count = 0 /\ barcount = 0 /\ char_index = 0
  /\ direction_determined = FALSE
  /\ last_conversion_barcount = -1 /\ waiting_for_black = FALSE

(* The label is ahead of a detector that is clean.                         *)
Start(l, r) == pc = "idle" /\ Reset /\ Whole(l, r, 0)

(* Only the rest of the last gap is ahead, and it will not be looked at.   *)
Ending ==
  /\ pc \in {"idle", "resume"}
  /\ detect_barcode = FALSE /\ waiting_for_black = FALSE
  /\ \A x \in 1..Len(ahead) : ahead[x].black = FALSE
  /\ Decoded

(* The label is being crossed, and the detector knows all that can be      *)
(* known.                                                                  *)
Crossing(l, r) ==
  \/ Start(l, r)
  \/ \E k \in 0..2, i \in 1..10 : \E q \in Nat : Inside(l, r, k, i, q)

(* So it is from the moment a label finds the detector clean, until it is  *)
(* printed, unless the button is pressed.                                  *)
Undisturbed ==
  found = "reset" /\ label # "" =>
    \/ Ending
    \/ \E l \in Labels, r \in BOOLEAN : l.c = label /\ Crossing(l, r)

(* The history variable clean says what it is meant to.                    *)
CleanStart == clean => pc = "idle" /\ ahead = <<>> /\ Reset
-----------------------------------------------------------------------------
(* Every run of a label lasts a reading at least.                          *)
LEMMA Widths ==
  ASSUME NEW l \in Labels, NEW r \in BOOLEAN, NEW k \in 0..2, NEW i \in 1..10
  PROVE  /\ 10 * k + i \in 1..30
         /\ Label(l, r)[10 * k + i].n \in Nat \ {0}
         /\ Label(l, r)[10 * k + i].black = Black(i)
<1>1. 10 * k + i \in 1..30
  OBVIOUS
<1>2. Label(l, r) \in Seq(Run) /\ Len(Label(l, r)) = 30
  BY LabelRuns
<1>3. Label(l, r)[10 * k + i] \in Run
  BY <1>1, <1>2, ElementOfSeq
<1>4. Label(l, r)[10 * k + i].n \in Nat \ {0}
  BY <1>3 DEF Run
<1>5. Label(l, r)[10 * k + i].black = Black(i)
  <2>1. \A x \in 0..2, y \in 1..10 : Label(l, r)[10 * x + y].black = Black(y)
    BY LabelRuns
  <2> QED
    BY <2>1, Zenon
<1> QED
  BY <1>1, <1>4, <1>5

(* The parts of the invariant, when what they speak of does not change.    *)
LEMMA Frames ==
  ASSUME NEW l, NEW r, NEW k, NEW i, NEW q, NEW n, NEW m
  PROVE  /\ UNCHANGED <<ahead, detect_barcode, current_state_black>> =>
              (Position(l, r, k, i, q) => Position(l, r, k, i, q)')
         /\ UNCHANGED <<barcount, stay_counts>> => (Measured(l, r, n) => Measured(l, r, n)')
         /\ UNCHANGED <<chars, direction_determined, direction>> =>
              (Converted(l, r, m) => Converted(l, r, m)')
         /\ UNCHANGED last_conversion_barcount => (Marked(m) => Marked(m)')
         /\ UNCHANGED bars => (Counting(l, r, k, i, q) => Counting(l, r, k, i, q)')
<1>1. UNCHANGED <<ahead, detect_barcode, current_state_black>> =>
        (Position(l, r, k, i, q) => Position(l, r, k, i, q)')
  BY DEF Position, Ahead, Whole, Partly
<1>2. UNCHANGED <<barcount, stay_counts>> => (Measured(l, r, n) => Measured(l, r, n)')
  BY DEF Measured
<1>3. UNCHANGED <<chars, direction_determined, direction>> =>
        (Converted(l, r, m) => Converted(l, r, m)')
  BY DEF Converted, chars
<1>4. UNCHANGED last_conversion_barcount => (Marked(m) => Marked(m)')
  BY DEF Marked
<1>5. UNCHANGED bars => (Counting(l, r, k, i, q) => Counting(l, r, k, i, q)')
  BY DEF Counting, Measured, bars
<1> QED
  BY <1>1, <1>2, <1>3, <1>4, <1>5

(* The first reading of a label starts the detector (buddy3.c 54-62).      *)
LEMMA StartReads ==
  ASSUME NEW l \in Labels, NEW r \in BOOLEAN, TrackOK, Start(l, r), Read
  PROVE  Inside(l, r, 0, 1, 1)'
<1>1. /\ Ahead(l, r, 1, 1)' /\ current_state_black' = Label(l, r)[1].black
      /\ detect_barcode' = (detect_barcode \/ Label(l, r)[1].black)
  <2>1. Whole(l, r, 0) /\ 0 \in 0..30 /\ 0 + 1 = 1
    BY DEF Start
  <2> QED
    BY <2>1, NextRun
<1>2. Label(l, r)[1].n \in Nat \ {0} /\ Label(l, r)[1].black = TRUE
  <2>1. 0 \in 0..2 /\ 1 \in 1..10 /\ 10 * 0 + 1 = 1 /\ Black(1) = TRUE
    BY DEF Black
  <2>2. Label(l, r)[10 * 0 + 1].n \in Nat \ {0} /\ Label(l, r)[10 * 0 + 1].black = Black(1)
    BY <2>1, Widths
  <2> QED
    BY <2>1, <2>2
<1>3. Position(l, r, 0, 1, 1)'
  <2>1. 10 * 0 + 1 = 1 /\ 0 \in 0..2 /\ 1 \in 1..10 /\ Black(1) = TRUE
    BY DEF Black
  <2>2. 1 \in 1..Label(l, r)[1].n
    BY <1>2
  <2>3. detect_barcode' = TRUE /\ current_state_black' = Black(1)
    BY <1>1, <1>2, <2>1
  <2> QED
    BY <1>1, <2>1, <2>2, <2>3 DEF Position
<1>4. pc' = "transition"
  BY <1>1, <1>2 DEF Read
<1>5. Converted(l, r, 0)' /\ Marked(0)' /\ Measured(l, r, 9 * 0)'
  <2>1. /\ char_index' = 0 /\ direction_determined' = FALSE /\ last_conversion_barcount' = -1
        /\ barcount' = 0
    BY DEF Start, Reset, Read, bars, chars
  <2>2. ~(0 > 0) /\ \A x \in 0..(0 - 1) : FALSE
    OBVIOUS
  <2>3. Converted(l, r, 0)'
    BY <2>1, <2>2, Zenon DEF Converted
  <2> QED
    BY <2>1, <2>3 DEF Marked, Measured
<1>6. barcode_black_detected' = FALSE /\ ~waiting_for_black' /\ stay_count' = 0
  BY DEF Start, Reset, Read, bars
<1>7. Entering(l, r, 0, 1, 1)'
  <2>0. FALSE = (0 > 0)
    OBVIOUS
  <2>1. waiting_for_black' <=> (0 > 0)
    BY <1>6, <2>0, Zenon
  <2>2. ~(1 = 10 /\ 1 > 1) /\ ~(0 = 2 /\ 1 = 10 /\ 1 > 1) /\ 1 = 1 /\ 0 = 0
    OBVIOUS
  <2> QED
    BY <1>5, <1>6, <2>1, <2>2, Zenon DEF Entering
<1> QED
  BY <1>3, <1>4, <1>7 DEF Inside, Place

(* Every later reading is of the same run, of the next, or of the first    *)
(* run of the next character.                                              *)
LEMMA IdleReads ==
  ASSUME NEW l \in Labels, NEW r \in BOOLEAN, NEW k \in 0..2, NEW i \in 1..10, NEW q \in Nat,
         TrackOK, Inside(l, r, k, i, q), pc = "idle", Read
  PROVE  \E k2 \in 0..2, i2 \in 1..10 : \E q2 \in Nat : Inside(l, r, k2, i2, q2)'
<1> DEFINE j == 10 * k + i
           n == Label(l, r)[j].n
<1>1. /\ q \in 1..n /\ Ahead(l, r, j, q) /\ detect_barcode = TRUE
      /\ current_state_black = Black(i)
  BY DEF Inside, Position
<1>2. /\ Settled(l, r, k, i, q) /\ (waiting_for_black <=> i = 10) /\ ~(k = 2 /\ i = 10)
  BY DEF Inside, Place
<1>3. j \in 1..30 /\ n \in Nat \ {0} /\ Label(l, r)[j].black = Black(i)
  BY Widths
<1>4. /\ UNCHANGED <<chars, direction_determined, direction>> /\ UNCHANGED last_conversion_barcount
      /\ UNCHANGED <<barcount, stay_counts>> /\ UNCHANGED <<stay_count, barcode_black_detected>>
      /\ UNCHANGED waiting_for_black
  BY DEF Read, bars
<1>5. pc' = "transition" /\ detect_barcode' = TRUE
  BY <1>1 DEF Read
<1>6. \A m, x : /\ Measured(l, r, x) => Measured(l, r, x)'
                /\ Converted(l, r, m) => Converted(l, r, m)'
                /\ Marked(m) => Marked(m)'
  BY <1>4, Frames
<1>7. CASE q < n
  <2>1. q \in 1..(n - 1) /\ q # n
    BY <1>1, <1>3, <1>7
  <2>2. Partly(l, r, j, q)
    BY <1>1, <2>1 DEF Ahead
  <2>3. /\ Ahead(l, r, j, q + 1)' /\ current_state_black' = Label(l, r)[j].black
    <3> HIDE DEF j
    <3> QED
      BY <1>3, <2>1, <2>2, SameRun
  <2>4. Position(l, r, k, i, q + 1)'
    BY <1>3, <1>5, <2>1, <2>3 DEF Position
  <2>5. Entering(l, r, k, i, q + 1)'
    <3>1. q + 1 > 1 /\ q + 1 - 1 = q
      BY <2>1
    <3> QED
      BY <1>2, <1>4, <1>6, <3>1 DEF Entering, Settled, Counting
  <2>6. Inside(l, r, k, i, q + 1)'
    BY <1>5, <2>4, <2>5 DEF Inside, Place
  <2>7. q + 1 \in Nat
    OBVIOUS
  <2> QED
    BY <2>6, <2>7
<1>8. CASE q = n /\ i < 10
  <2>1. i + 1 \in 1..10 /\ 10 * k + (i + 1) = j + 1 /\ j \in 0..30
    BY <1>3, <1>8
  <2>2. Whole(l, r, j)
    BY <1>1, <1>8 DEF Ahead
  <2>3. Ahead(l, r, j + 1, 1)' /\ current_state_black' = Label(l, r)[j + 1].black
    <3> HIDE DEF j
    <3> QED
      BY <2>1, <2>2, NextRun
  <2>4. Label(l, r)[j + 1].n \in Nat \ {0} /\ Label(l, r)[j + 1].black = Black(i + 1)
    <3>1. /\ Label(l, r)[10 * k + (i + 1)].n \in Nat \ {0}
          /\ Label(l, r)[10 * k + (i + 1)].black = Black(i + 1)
      <4> HIDE DEF j
      <4> QED
        BY <2>1, Widths
    <3> QED
      BY <2>1, <3>1
  <2>5. Position(l, r, k, i + 1, 1)'
    <3>1. 1 \in 1..Label(l, r)[10 * k + (i + 1)].n
      BY <2>1, <2>4
    <3>2. Ahead(l, r, 10 * k + (i + 1), 1)' /\ current_state_black' = Black(i + 1)
      BY <2>1, <2>3, <2>4
    <3> QED
      BY <1>5, <2>1, <3>1, <3>2 DEF Position
  <2>6. Entering(l, r, k, i + 1, 1)'
    <3>1. i + 1 > 1 /\ (i + 1) - 1 = i /\ 9 * k + (i + 1) - 2 = 9 * k + i - 1 /\ i # 10
          /\ 10 * k + (i + 1) - 1 = 10 * k + i
      BY <1>8
    <3>2. /\ Measured(l, r, 9 * k + i - 1) /\ Converted(l, r, k) /\ Marked(k)
          /\ barcode_black_detected = Black(i) /\ stay_count = q /\ ~waiting_for_black
      BY <1>2, <3>1 DEF Settled, Counting
    <3>3. /\ Measured(l, r, 9 * k + (i + 1) - 2)' /\ Converted(l, r, k)' /\ Marked(k)'
      BY <1>6, <3>1, <3>2
    <3>4. /\ barcode_black_detected' = Black((i + 1) - 1) /\ ~waiting_for_black'
          /\ stay_count' = Label(l, r)[10 * k + (i + 1) - 1].n
      BY <1>4, <1>8, <3>1, <3>2
    <3> QED
      BY <3>1, <3>3, <3>4 DEF Entering
  <2>7. Inside(l, r, k, i + 1, 1)'
    BY <1>5, <2>5, <2>6 DEF Inside, Place
  <2> QED
    BY <2>1, <2>7
<1>9. CASE q = n /\ i = 10
  <2>1. k + 1 \in 0..2 /\ 10 * (k + 1) + 1 = j + 1 /\ j \in 0..30 /\ 1 \in 1..10
    BY <1>2, <1>3, <1>9
  <2>2. Whole(l, r, j)
    BY <1>1, <1>9 DEF Ahead
  <2>3. Ahead(l, r, j + 1, 1)' /\ current_state_black' = Label(l, r)[j + 1].black
    <3> HIDE DEF j
    <3> QED
      BY <2>1, <2>2, NextRun
  <2>4. Label(l, r)[j + 1].n \in Nat \ {0} /\ Label(l, r)[j + 1].black = Black(1)
    <3>1. /\ Label(l, r)[10 * (k + 1) + 1].n \in Nat \ {0}
          /\ Label(l, r)[10 * (k + 1) + 1].black = Black(1)
      <4> HIDE DEF j
      <4> QED
        BY <2>1, Widths
    <3> QED
      BY <2>1, <3>1
  <2>5. Position(l, r, k + 1, 1, 1)'
    <3>1. 1 \in 1..Label(l, r)[10 * (k + 1) + 1].n
      BY <2>1, <2>4
    <3>2. Ahead(l, r, 10 * (k + 1) + 1, 1)' /\ current_state_black' = Black(1)
      BY <2>1, <2>3, <2>4
    <3> QED
      BY <1>5, <2>1, <3>1, <3>2 DEF Position
  <2>6. Entering(l, r, k + 1, 1, 1)'
    <3>1. 9 * k + i - 1 = 9 * (k + 1) /\ k + 1 > 0 /\ k + 1 # 0 /\ Black(10) = FALSE
      BY <1>9 DEF Black
    <3>2. /\ Measured(l, r, 9 * (k + 1)) /\ Converted(l, r, k + 1) /\ Marked(k + 1)
          /\ barcode_black_detected = FALSE /\ stay_count = 1 /\ waiting_for_black
      BY <1>2, <1>9, <3>1 DEF Settled, Counting
    <3>3. /\ Measured(l, r, 9 * (k + 1))' /\ Converted(l, r, k + 1)' /\ Marked(k + 1)'
          /\ barcode_black_detected' = FALSE /\ stay_count' = 1 /\ waiting_for_black'
      BY <1>4, <1>6, <3>2
    <3>4. waiting_for_black' <=> (k + 1 > 0)
      BY <3>1, <3>3
    <3>5. ~(1 = 10 /\ 1 > 1) /\ ~(k + 1 = 2 /\ 1 = 10 /\ 1 > 1) /\ 1 = 1
      OBVIOUS
    <3> QED
      BY <3>1, <3>3, <3>4, <3>5, Zenon DEF Entering
  <2>7. Inside(l, r, k + 1, 1, 1)'
    BY <1>5, <2>5, <2>6 DEF Inside, Place
  <2> QED
    BY <2>1, <2>7
<1> QED
  BY <1>1, <1>3, <1>7, <1>8, <1>9

(* The gap after a printed label does not start the detector again.        *)
LEMMA EndingReads ==
  ASSUME TrackOK, Ending, Read
  PROVE  Ending'
<1>1. /\ Taken /\ ahead[1] \in Run /\ Len(ahead) \in Nat \ {0}
      /\ detect_barcode' = (detect_barcode \/ ahead[1].black)
  BY ReadTakes DEF TrackOK
<1>2. ahead[1].black = FALSE
  BY <1>1 DEF Ending
<1>3. detect_barcode' = FALSE
  BY <1>1, <1>2 DEF Ending
<1>4. /\ pc' = "idle" /\ ~waiting_for_black' /\ Decoded'
  BY <1>3 DEF Ending, Read, Decoded, history
<1>5. \A x \in 1..Len(ahead') : ahead'[x].black = FALSE
  <2>1. CASE ahead[1].n > 1
    <3>1. /\ Len(ahead') = Len(ahead) /\ ahead'[1].black = ahead[1].black
          /\ \A x \in 2..Len(ahead) : ahead'[x] = ahead[x]
      BY <1>1, <2>1 DEF Taken
    <3> QED
      BY <1>1, <1>2, <3>1 DEF Ending
  <2>2. CASE ~(ahead[1].n > 1)
    <3>1. /\ Len(ahead') = Len(ahead) - 1
          /\ \A x \in 1..(Len(ahead) - 1) : ahead'[x] = ahead[x + 1]
      BY <1>1, <2>2 DEF Taken
    <3>2. \A x \in 1..(Len(ahead) - 1) : x + 1 \in 1..Len(ahead)
      BY <1>1
    <3> QED
      BY <1>1, <3>1, <3>2 DEF Ending
  <2> QED
    BY <2>1, <2>2
<1> QED
  BY <1>3, <1>4, <1>5 DEF Ending

(* Neighbouring bars differ in colour; the first is black, the gap is      *)
(* white.                                                                  *)
LEMMA Alternates ==
  ASSUME NEW i \in 1..10
  PROVE  /\ Black(i) \in BOOLEAN /\ Black(1) = TRUE /\ Black(10) = FALSE
         /\ i > 1 => Black(i) # Black(i - 1)
<1>1. i > 1 => Black(i) # Black(i - 1)
  BY DEF Black
<1> QED
  BY <1>1 DEF Black

(* A bar that ends is counted in its place, and no other count changes.    *)
LEMMA CountsOneMore ==
  ASSUME NEW l, NEW r, NEW k \in 0..2, NEW i \in 2..10,
         stay_counts \in [0..26 -> Nat],
         Measured(l, r, 9 * k + i - 2),
         stay_counts' = [stay_counts EXCEPT ![9 * k + i - 2] = Label(l, r)[10 * k + i - 1].n],
         barcount' = (9 * k + i - 2) + 1
  PROVE  Measured(l, r, 9 * k + i - 1)'
<1>1. barcount' = 9 * k + i - 1
  OBVIOUS
<1>2. ASSUME NEW x \in 0..2, NEW y \in 1..9, 9 * x + y =< 9 * k + i - 1
      PROVE  stay_counts'[9 * x + y - 1] = Label(l, r)[10 * x + y].n
  <2>1. 9 * x + y - 1 \in 0..26 /\ 9 * k + i - 2 \in 0..26
    OBVIOUS
  <2>2. CASE 9 * x + y =< 9 * k + i - 2
    <3>1. stay_counts[9 * x + y - 1] = Label(l, r)[10 * x + y].n
      BY <2>2 DEF Measured
    <3>2. 9 * x + y - 1 # 9 * k + i - 2
      BY <2>2
    <3> QED
      BY <2>1, <3>1, <3>2
  <2>3. CASE 9 * x + y = 9 * k + i - 1
    <3>1. x = k /\ y = i - 1
      BY <2>3
    <3>2. 9 * x + y - 1 = 9 * k + i - 2 /\ 10 * x + y = 10 * k + i - 1
      BY <3>1
    <3> QED
      BY <2>1, <3>2
  <2>4. 9 * x + y =< 9 * k + i - 2 \/ 9 * x + y = 9 * k + i - 1
    BY <1>2
  <2> QED
    BY <2>2, <2>3, <2>4
<1> QED
  BY <1>1, <1>2 DEF Measured

(* Transition counts what the reading shows (buddy3.c 262-287).            *)
LEMMA Transitions ==
  ASSUME NEW l \in Labels, NEW r \in BOOLEAN, NEW k \in 0..2, NEW i \in 1..10, NEW q \in Nat,
         BarsOK, FlagsOK, Inside(l, r, k, i, q), Transition
  PROVE  Inside(l, r, k, i, q)'
<1> DEFINE m == IF i = 10 /\ q > 1 THEN k + 1 ELSE k
<1>1. pc = "transition" /\ pc' = "check" /\ Position(l, r, k, i, q) /\ Entering(l, r, k, i, q)
  BY DEF Inside, Place, Transition
<1>2. /\ UNCHANGED <<ahead, detect_barcode, current_state_black>> /\ UNCHANGED waiting_for_black
      /\ UNCHANGED <<chars, direction_determined, direction>> /\ UNCHANGED last_conversion_barcount
  BY DEF Transition, track, flags, chars
<1>3. Position(l, r, k, i, q)' /\ Converted(l, r, m)' /\ Marked(m)' /\ ~(k = 2 /\ i = 10 /\ q > 1)
  BY <1>1, <1>2, Frames DEF Entering
<1>4. current_state_black = Black(i) /\ barcode_black_detected' = Black(i)
  BY <1>1 DEF Position, Transition
<1>5. waiting_for_black \in BOOLEAN /\ stay_count \in Nat /\ stay_counts \in [0..26 -> Nat]
  BY DEF BarsOK, FlagsOK, MAX_TRANSITIONS
<1>6. /\ Counting(l, r, k, i, q)'
      /\ waiting_for_black <=> ((i = 10 /\ q > 1) \/ Resuming(k, i, q))
  <2>1. CASE q > 1 /\ i = 10
    <3>1. waiting_for_black /\ Measured(l, r, 9 * k + i - 1) /\ stay_count = 1
      BY <1>1, <2>1 DEF Entering
    <3>2. UNCHANGED <<barcount, stay_counts>> /\ UNCHANGED stay_count
      BY <3>1 DEF Transition
    <3>3. Measured(l, r, 9 * k + i - 1)'
      BY <3>1, <3>2, Frames
    <3> QED
      BY <1>4, <2>1, <3>1, <3>2, <3>3 DEF Counting, Resuming
  <2>2. CASE q > 1 /\ i # 10
    <3>1. /\ ~waiting_for_black /\ Measured(l, r, 9 * k + i - 1) /\ stay_count = q - 1
          /\ barcode_black_detected = Black(i)
      BY <1>1, <1>5, <2>2 DEF Entering
    <3>2. UNCHANGED <<barcount, stay_counts>> /\ stay_count' = q
      BY <1>4, <2>2, <3>1 DEF Transition
    <3>3. Measured(l, r, 9 * k + i - 1)'
      BY <3>1, <3>2, Frames
    <3> QED
      BY <1>4, <1>5, <2>2, <3>1, <3>2, <3>3 DEF Counting, Resuming
  <2>3. CASE q = 1 /\ i > 1
    <3>1. /\ ~waiting_for_black /\ Measured(l, r, 9 * k + i - 2)
          /\ barcode_black_detected = Black(i - 1)
          /\ stay_count = Label(l, r)[10 * k + i - 1].n
      BY <1>1, <1>5, <2>3 DEF Entering
    <3>2. stay_count > 0
      <4>1. i - 1 \in 1..10 /\ 10 * k + (i - 1) = 10 * k + i - 1
        BY <2>3
      <4>2. Label(l, r)[10 * k + (i - 1)].n \in Nat \ {0}
        BY <4>1, Widths
      <4> QED
        BY <3>1, <4>1, <4>2
    <3>3. barcount = 9 * k + i - 2 /\ barcount < 27
      BY <3>1 DEF Measured
    <3>4. current_state_black # barcode_black_detected
      BY <1>4, <2>3, <3>1, Alternates
    <3>5. /\ stay_count' = 1 /\ stay_counts' = [stay_counts EXCEPT ![barcount] = stay_count]
          /\ barcount' = barcount + 1
      BY <3>1, <3>2, <3>3, <3>4 DEF Transition, MAX_TRANSITIONS
    <3>6. Measured(l, r, 9 * k + i - 1)'
      <4>1. i \in 2..10
        BY <2>3
      <4> QED
        BY <1>5, <3>1, <3>3, <3>5, <4>1, CountsOneMore
    <3> QED
      BY <1>4, <1>5, <2>3, <3>1, <3>5, <3>6 DEF Counting, Resuming
  <2>4. CASE q = 1 /\ i = 1 /\ k = 0
    <3>1. /\ ~waiting_for_black /\ Measured(l, r, 9 * k) /\ stay_count = 0
          /\ barcode_black_detected = FALSE
      BY <1>1, <1>5, <2>4 DEF Entering
    <3>2. current_state_black = TRUE /\ barcount = 0
      <4>1. barcount = 9 * k /\ 9 * k = 0
        BY <2>4, <3>1 DEF Measured
      <4>2. Black(1) = TRUE
        BY DEF Black
      <4> QED
        BY <1>4, <2>4, <4>1, <4>2
    <3>3. stay_count' = 1 /\ UNCHANGED <<barcount, stay_counts>>
      BY <3>1, <3>2 DEF Transition
    <3>4. Measured(l, r, 9 * k + i - 1)'
      <4>1. 9 * k + i - 1 = 9 * k
        BY <2>4
      <4> QED
        BY <3>1, <3>3, <4>1, Frames
    <3> QED
      BY <1>4, <1>5, <2>4, <3>1, <3>3, <3>4 DEF Counting, Resuming
  <2>5. CASE q = 1 /\ i = 1 /\ k > 0
    <3>1. waiting_for_black /\ Measured(l, r, 9 * k) /\ stay_count = 1
      BY <1>1, <1>5, <2>5 DEF Entering
    <3>2. UNCHANGED <<barcount, stay_counts>> /\ UNCHANGED stay_count
      BY <3>1 DEF Transition
    <3>4. Measured(l, r, 9 * k + i - 1)'
      <4>1. 9 * k + i - 1 = 9 * k
        BY <2>5
      <4> QED
        BY <3>1, <3>2, <4>1, Frames
    <3> QED
      BY <1>4, <1>5, <2>5, <3>1, <3>2, <3>4 DEF Counting, Resuming
  <2>6. q >= 1
    BY <1>1, Widths DEF Position
  <2> QED
    BY <2>1, <2>2, <2>3, <2>4, <2>5, <2>6
<1>7. waiting_for_black' <=> ((i = 10 /\ q > 1) \/ Resuming(k, i, q))
  BY <1>2, <1>6
<1>8. Checking(l, r, k, i, q)'
  BY <1>3, <1>6, <1>7, Zenon DEF Checking
<1> QED
  BY <1>1, <1>3, <1>8 DEF Inside, Place

(* A conversion is due at the first reading of a gap and at no other       *)
(* (buddy3.c 289-291).                                                     *)
LEMMA Checks ==
  ASSUME NEW l \in Labels, NEW r \in BOOLEAN, NEW k \in 0..2, NEW i \in 1..10, NEW q \in Nat,
         FlagsOK, Inside(l, r, k, i, q), Check
  PROVE  Inside(l, r, k, i, q)'
<1> DEFINE m == IF i = 10 /\ q > 1 THEN k + 1 ELSE k
<1>1. /\ Position(l, r, k, i, q) /\ Counting(l, r, k, i, q) /\ Converted(l, r, m) /\ Marked(m)
      /\ waiting_for_black <=> ((i = 10 /\ q > 1) \/ Resuming(k, i, q))
      /\ ~(k = 2 /\ i = 10 /\ q > 1)
  BY DEF Inside, Place, Check, Checking
<1>2. /\ UNCHANGED <<ahead, detect_barcode, current_state_black>> /\ UNCHANGED waiting_for_black
      /\ UNCHANGED <<chars, direction_determined, direction>> /\ UNCHANGED last_conversion_barcount
      /\ UNCHANGED bars
  BY DEF Check, track, flags
<1>3. /\ Position(l, r, k, i, q)' /\ Counting(l, r, k, i, q)' /\ Converted(l, r, m)' /\ Marked(m)'
      /\ waiting_for_black' <=> ((i = 10 /\ q > 1) \/ Resuming(k, i, q))
  BY <1>1, <1>2, Frames
<1>4. q >= 1
  BY <1>1, Widths DEF Position
<1>5. barcount = 9 * k + i - 1 /\ last_conversion_barcount = IF m = 0 THEN -1 ELSE 9 * m
  BY <1>1 DEF Counting, Measured, Marked
<1>6. ChunkDone <=> i = 10 /\ q = 1
  BY <1>4, <1>5 DEF ChunkDone, CHUNK_SIZE
<1>7. CASE i = 10 /\ q = 1
  <2>1. pc' = "convert" /\ m = k /\ ~waiting_for_black'
    BY <1>3, <1>6, <1>7 DEF Check, Resuming
  <2> QED
    BY <1>3, <1>7, <2>1 DEF Inside, Place
<1>8. CASE ~(i = 10 /\ q = 1)
  <2>1. pc' = "finish" /\ (i = 10 => q > 1)
    BY <1>4, <1>6, <1>8 DEF Check
  <2>2. m = (IF i = 10 THEN k + 1 ELSE k) /\ (k = 2 /\ i = 10 => q = 1)
    BY <1>1, <2>1
  <2>3. waiting_for_black' <=> (i = 10 \/ Resuming(k, i, q))
    BY <1>3, <2>1
  <2> HIDE DEF m
  <2>4. Settled(l, r, k, i, q)'
    BY <1>3, <2>2 DEF Settled
  <2> QED
    BY <1>3, <2>1, <2>2, <2>3, <2>4 DEF Inside, Place
<1> QED
  BY <1>7, <1>8

(* The window of a conversion is the chunk that has just been crossed.     *)
LEMMA LastNine ==
  ASSUME NEW l \in Labels, NEW r \in BOOLEAN, NEW k \in 0..2, Measured(l, r, 9 * k + 9)
  PROVE  WindowCodes = {Code(l, r, k)}
<1> DEFINE counts == [i \in 1..CHUNK_SIZE |-> stay_counts[barcount - CHUNK_SIZE + i - 1]]
           s == Speed(l, r, k)
<1>1. barcount = 9 * k + 9 /\ barcount >= CHUNK_SIZE
  BY DEF Measured, CHUNK_SIZE
<1>2. WindowCodes = {Wide(counts)}
  BY <1>1 DEF WindowCodes
<1>3. ASSUME NEW i \in 1..9
      PROVE  counts[i] = IF i \in Code(l, r, k) THEN 3 * s ELSE s
  <2>1. counts[i] = stay_counts[barcount - CHUNK_SIZE + i - 1]
    BY DEF CHUNK_SIZE
  <2>2. barcount - CHUNK_SIZE + i - 1 = 9 * k + i - 1 /\ 9 * k + i =< 9 * k + 9
    BY <1>1 DEF CHUNK_SIZE
  <2>3. stay_counts[9 * k + i - 1] = Label(l, r)[10 * k + i].n
    BY <2>2 DEF Measured
  <2>4. Label(l, r)[10 * k + i].n = IF i \in Code(l, r, k) THEN 3 * s ELSE s
    <3>1. \A x \in 0..2, y \in 1..9 :
            Label(l, r)[10 * x + y].n =
              IF y \in Code(l, r, x) THEN 3 * Speed(l, r, x) ELSE Speed(l, r, x)
      BY LabelRuns
    <3> QED
      BY <3>1, Zenon
  <2> QED
    BY <2>1, <2>2, <2>3, <2>4
<1>4. s \in Nat \ {0}
  BY LabelRuns
<1>5. Code(l, r, k) \in SUBSET (1..9) /\ Cardinality(Code(l, r, k)) = 3
  BY CodesTold
<1> HIDE DEF counts, s
<1>6. Wide(counts) = Code(l, r, k)
  <2> DEFINE code == Code(l, r, k)
  <2>1. code \in SUBSET (1..9) /\ Cardinality(code) = 3
    BY <1>5
  <2>2. \A i \in 1..9 : counts[i] = IF i \in code THEN 3 * s ELSE s
    BY <1>3
  <2> HIDE DEF code
  <2>3. \A i \in 1..9 : counts[i] \in Nat
    BY <1>4, <2>2
  <2>4. \A i \in code, j \in (1..9) \ code : counts[i] > counts[j]
    BY <1>4, <2>1, <2>2
  <2> QED
    BY <2>1, <2>3, <2>4, WideBars DEF code
<1> QED
  BY <1>2, <1>6

(* The conversion stores the character that has just been crossed, and the *)
(* first one sets the direction.                                           *)
LEMMA Converts ==
  ASSUME NEW l \in Labels, NEW r \in BOOLEAN, NEW k \in 0..2, NEW i \in 1..10, NEW q \in Nat,
         CharsOK, FlagsOK, Inside(l, r, k, i, q), Convert
  PROVE  Inside(l, r, k, i, q)'
<1> DEFINE code == Code(l, r, k)
<1>1. /\ i = 10 /\ q = 1 /\ Position(l, r, k, i, q) /\ Counting(l, r, k, i, q)
      /\ Converted(l, r, k) /\ Marked(k) /\ ~waiting_for_black
  BY DEF Inside, Place, Convert
<1>2. /\ UNCHANGED <<ahead, detect_barcode, current_state_black>> /\ UNCHANGED waiting_for_black
      /\ UNCHANGED last_conversion_barcount /\ UNCHANGED bars /\ pc' = "mark"
      /\ direction_determined' = TRUE
  BY DEF Convert, track
<1>3. Position(l, r, k, i, q)' /\ Counting(l, r, k, i, q)' /\ Marked(k)' /\ ~waiting_for_black'
  BY <1>1, <1>2, Frames
<1>4. WindowCodes = {code}
  <2>1. Measured(l, r, 9 * k + 9)
    <3>1. 9 * k + i - 1 = 9 * k + 9
      BY <1>1
    <3> QED
      BY <1>1, <3>1 DEF Counting
  <2> QED
    BY <2>1, LastNine
<1>5. /\ map_binary_to_char(code, r) = Letter(l, k)
      /\ k = 0 => (map_binary_to_char(code, FALSE) = "*" <=> ~r)
      /\ k = 0 => Letter(l, k) = "*"
  BY CodesTold DEF Letter
<1> HIDE DEF code
<1>6. LET normal  == map_binary_to_char(code, FALSE) = "*"
          reverse == map_binary_to_char(code, TRUE) = "*"
          known   == direction_determined \/ normal \/ reverse
      IN /\ direction' = IF direction_determined \/ ~known THEN direction ELSE ~normal
         /\ IF known /\ char_index < CHAR_COUNT
            THEN /\ converted_chars' = [converted_chars EXCEPT ![char_index + 1] =
                                          map_binary_to_char(code, direction')]
                 /\ char_index' = char_index + 1
            ELSE UNCHANGED chars
  BY <1>4 DEF Convert
<1>7. /\ char_index = k /\ (direction_determined <=> k > 0) /\ (k > 0 => direction = r)
      /\ \A x \in 0..(k - 1) : converted_chars[x + 1] = Letter(l, x)
  BY <1>1 DEF Converted
<1>8. k = 0 => (map_binary_to_char(code, FALSE) = "*" \/ map_binary_to_char(code, TRUE) = "*")
  BY <1>5
<1>9. direction' = r
  <2>1. CASE k = 0
    <3>1. ~direction_determined
      BY <1>7, <2>1
    <3>2. direction' = ~(map_binary_to_char(code, FALSE) = "*")
      BY <1>6, <1>8, <2>1, <3>1
    <3> QED
      BY <1>5, <2>1, <3>2
  <2>2. CASE k > 0
    BY <1>6, <1>7, <2>2
  <2> QED
    BY <2>1, <2>2
<1>10. /\ converted_chars' = [converted_chars EXCEPT ![k + 1] = Letter(l, k)]
       /\ char_index' = k + 1
  <2>1. direction_determined \/ map_binary_to_char(code, FALSE) = "*"
                             \/ map_binary_to_char(code, TRUE) = "*"
    <3>1. CASE k = 0
      BY <1>8, <3>1, Zenon
    <3>2. CASE k > 0
      BY <1>7, <3>2, Zenon
    <3>3. k = 0 \/ k > 0
      OBVIOUS
    <3> QED
      BY <3>1, <3>2, <3>3, Zenon
  <2>2. char_index < CHAR_COUNT
    BY <1>7 DEF CHAR_COUNT
  <2> QED
    BY <1>5, <1>6, <1>7, <1>9, <2>1, <2>2
<1>11. ASSUME NEW x \in 0..((k + 1) - 1) PROVE converted_chars'[x + 1] = Letter(l, x)
  <2>1. DOMAIN converted_chars = 1..3 /\ x + 1 \in 1..3 /\ k + 1 \in 1..3
    BY DEF CharsOK, CHAR_COUNT
  <2>2. CASE x = k
    BY <1>10, <2>1, <2>2
  <2>3. CASE x # k
    <3>1. x \in 0..(k - 1) /\ x + 1 # k + 1
      BY <2>3
    <3> QED
      BY <1>7, <1>10, <2>1, <3>1
  <2> QED
    BY <2>2, <2>3
<1>12. Converted(l, r, k + 1)'
  <2>1. direction_determined' <=> k + 1 > 0
    BY <1>2
  <2> QED
    BY <1>9, <1>10, <1>11, <2>1, Zenon DEF Converted
<1> QED
  BY <1>1, <1>2, <1>3, <1>12 DEF Inside, Place

(* The chunk is not converted again, and the gap not counted (buddy3.c     *)
(* 298-300).                                                               *)
LEMMA Marks ==
  ASSUME NEW l \in Labels, NEW r \in BOOLEAN, NEW k \in 0..2, NEW i \in 1..10, NEW q \in Nat,
         Inside(l, r, k, i, q), Mark
  PROVE  Inside(l, r, k, i, q)'
<1>1. /\ i = 10 /\ q = 1 /\ Position(l, r, k, i, q) /\ Counting(l, r, k, i, q)
      /\ Converted(l, r, k + 1)
  BY DEF Inside, Place, Mark
<1>2. /\ UNCHANGED <<ahead, detect_barcode, current_state_black>>
      /\ UNCHANGED <<chars, direction_determined, direction>> /\ UNCHANGED bars
      /\ pc' = "finish" /\ waiting_for_black' = TRUE /\ last_conversion_barcount' = barcount
  BY DEF Mark, track
<1>3. Position(l, r, k, i, q)' /\ Counting(l, r, k, i, q)' /\ Converted(l, r, k + 1)'
  BY <1>1, <1>2, Frames
<1>4. Marked(k + 1)'
  <2>1. barcount = 9 * (k + 1) /\ k + 1 # 0
    BY <1>1 DEF Counting, Measured
  <2> QED
    BY <1>2, <2>1 DEF Marked
<1>5. Settled(l, r, k, i, q)'
  BY <1>1, <1>3, <1>4 DEF Settled
<1> QED
  BY <1>1, <1>2, <1>3, <1>5 DEF Inside, Place

(* After the third chunk the label is printed, and before it nothing is    *)
(* (buddy3.c 302-320).                                                     *)
LEMMA Finishes ==
  ASSUME NEW l \in Labels, NEW r \in BOOLEAN, NEW k \in 0..2, NEW i \in 1..10, NEW q \in Nat,
         CharsOK, Inside(l, r, k, i, q), l.c = label, Finish
  PROVE  Inside(l, r, k, i, q)' \/ Ending'
<1> DEFINE m == IF i = 10 THEN k + 1 ELSE k
<1>1. /\ Position(l, r, k, i, q) /\ Settled(l, r, k, i, q)
      /\ waiting_for_black <=> (i = 10 \/ Resuming(k, i, q))
      /\ k = 2 /\ i = 10 => q = 1
  BY DEF Inside, Place, Finish
<1>2. /\ UNCHANGED current_state_black /\ UNCHANGED <<ahead, label>> /\ pc' = "resume"
      /\ UNCHANGED <<stay_count, stay_counts, barcode_black_detected>>
      /\ UNCHANGED direction /\ UNCHANGED converted_chars
  BY DEF Finish, track
<1>3. barcount = 9 * k + i - 1
  BY <1>1 DEF Settled, Counting, Measured
<1>4. CASE ~(k = 2 /\ i = 10)
  <2>1. ~(barcount >= MAX_TRANSITIONS)
    BY <1>3, <1>4 DEF MAX_TRANSITIONS
  <2>2. /\ UNCHANGED <<detect_barcode, barcount, char_index, direction_determined>>
        /\ UNCHANGED last_conversion_barcount /\ UNCHANGED waiting_for_black
    BY <2>1 DEF Finish
  <2>3. /\ UNCHANGED bars /\ UNCHANGED <<chars, direction_determined, direction>>
        /\ UNCHANGED <<ahead, detect_barcode, current_state_black>>
    BY <1>2, <2>2 DEF bars, chars
  <2>4. Position(l, r, k, i, q)' /\ Settled(l, r, k, i, q)'
    BY <1>1, <2>2, <2>3, Frames DEF Settled
  <2> QED
    BY <1>1, <1>2, <1>4, <2>2, <2>4 DEF Inside, Place
<1>5. CASE k = 2 /\ i = 10
  <2>1. barcount >= MAX_TRANSITIONS
    BY <1>3, <1>5 DEF MAX_TRANSITIONS
  <2>2. printed' = converted_chars /\ detect_barcode' = FALSE /\ waiting_for_black' = FALSE
    BY <2>1 DEF Finish
  <2>3. converted_chars = <<"*", l.c, "*">>
    <3>1. Converted(l, r, 3)
      BY <1>1, <1>5 DEF Settled
    <3>2. 0 \in 0..(3 - 1) /\ 1 \in 0..(3 - 1) /\ 2 \in 0..(3 - 1)
      OBVIOUS
    <3>3. \A x \in 0..(3 - 1) : converted_chars[x + 1] = Letter(l, x)
      BY <3>1, Zenon DEF Converted
    <3>4. /\ converted_chars[1] = Letter(l, 0) /\ converted_chars[2] = Letter(l, 1)
          /\ converted_chars[3] = Letter(l, 2)
      BY <3>2, <3>3
    <3>5. Letter(l, 0) = "*" /\ Letter(l, 1) = l.c /\ Letter(l, 2) = "*"
      BY DEF Letter
    <3>6. converted_chars \in [1..3 -> Chars]
      BY DEF CharsOK, CHAR_COUNT
    <3>7. converted_chars = [x \in 1..3 |-> converted_chars[x]]
      BY <3>6
    <3>8. <<"*", l.c, "*">> = [x \in 1..3 |-> <<"*", l.c, "*">>[x]]
      OBVIOUS
    <3>9. \A x \in 1..3 : converted_chars[x] = <<"*", l.c, "*">>[x]
      BY <3>4, <3>5
    <3> QED
      BY <3>7, <3>8, <3>9, Zenon
  <2>4. \A x \in 1..Len(ahead) : ahead[x].black = FALSE
    <3>0. q = 1 /\ 10 * k + i = 30
      BY <1>1, <1>5
    <3>1. Ahead(l, r, 30, 1)
      BY <1>1, <3>0 DEF Position
    <3>2. Label(l, r)[30].black = FALSE
      <4>1. 2 \in 0..2 /\ 10 \in 1..10
        OBVIOUS
      <4>2. Label(l, r)[10 * 2 + 10].black = Black(10)
        BY <4>1, Widths
      <4>3. Black(10) = FALSE
        BY DEF Black
      <4> QED
        BY <4>2, <4>3
    <3>3. CASE Whole(l, r, 30)
      BY <3>3 DEF Whole
    <3>4. CASE Partly(l, r, 30, 1)
      BY <3>2, <3>4 DEF Partly
    <3> QED
      BY <3>1, <3>3, <3>4 DEF Ahead
  <2>5. Decoded'
    BY <1>2, <2>2, <2>3 DEF Decoded
  <2> QED
    BY <1>2, <2>2, <2>4, <2>5 DEF Ending
<1> QED
  BY <1>4, <1>5

(* The first black after a gap is the first reading of the next bar        *)
(* (buddy3.c 322-328).                                                     *)
LEMMA Resumes ==
  ASSUME NEW l \in Labels, NEW r \in BOOLEAN, NEW k \in 0..2, NEW i \in 1..10, NEW q \in Nat,
         FlagsOK, Inside(l, r, k, i, q), Resume
  PROVE  Inside(l, r, k, i, q)'
<1>1. /\ Position(l, r, k, i, q) /\ Settled(l, r, k, i, q)
      /\ waiting_for_black <=> (i = 10 \/ Resuming(k, i, q))
      /\ ~(k = 2 /\ i = 10)
  BY DEF Inside, Place, Resume
<1>2. /\ UNCHANGED <<ahead, detect_barcode, current_state_black>>
      /\ UNCHANGED <<chars, direction_determined, direction>>
      /\ UNCHANGED last_conversion_barcount /\ UNCHANGED <<barcount, stay_counts>>
      /\ UNCHANGED barcode_black_detected /\ pc' = "idle"
  BY DEF Resume, track
<1>3. /\ Position(l, r, k, i, q)'
      /\ \A m, n : /\ Measured(l, r, n) => Measured(l, r, n)'
                   /\ Converted(l, r, m) => Converted(l, r, m)'
                   /\ Marked(m) => Marked(m)'
  BY <1>1, <1>2, Frames
<1>4. current_state_black = Black(i)
  BY <1>1 DEF Position
<1>5. stay_count' = stay_count /\ (waiting_for_black' <=> i = 10)
  <2>1. CASE i = 10
    <3>1. current_state_black = FALSE
      <4>1. Black(10) = FALSE
        BY DEF Black
      <4> QED
        BY <1>4, <2>1, <4>1
    <3> QED
      BY <1>1, <2>1, <3>1 DEF Resume
  <2>2. CASE i # 10 /\ Resuming(k, i, q)
    <3>1. current_state_black = TRUE /\ stay_count = 1
      <4>1. Black(1) = TRUE
        BY DEF Black
      <4> QED
        BY <1>1, <1>4, <2>2, <4>1 DEF Resuming, Settled, Counting
    <3> QED
      BY <1>1, <2>2, <3>1 DEF Resume
  <2>3. CASE i # 10 /\ ~Resuming(k, i, q)
    BY <1>1, <2>3 DEF Resume
  <2> QED
    BY <2>1, <2>2, <2>3
<1>6. Settled(l, r, k, i, q)'
  BY <1>1, <1>2, <1>3, <1>5 DEF Settled, Counting
<1> QED
  BY <1>1, <1>2, <1>3, <1>5, <1>6 DEF Inside, Place

-----------------------------------------------------------------------------
(* Between two readings of a label that is not printed yet, some of it is  *)
(* still ahead.                                                            *)
LEMMA StillAhead ==
  ASSUME NEW l \in Labels, NEW r \in BOOLEAN, Crossing(l, r), pc = "idle"
  PROVE  ahead # <<>>
<1>1. CASE Start(l, r)
  <2>1. Len(ahead) = 30
    BY <1>1 DEF Start, Whole
  <2>2. Len(<<>>) # 30
    OBVIOUS
  <2> QED
    BY <2>1, <2>2, Zenon
<1>2. CASE \E k \in 0..2, i \in 1..10 : \E q \in Nat : Inside(l, r, k, i, q)
  <2>1. PICK k \in 0..2, i \in 1..10 : \E q \in Nat : Inside(l, r, k, i, q)
    BY <1>2
  <2>2. PICK q \in Nat : Inside(l, r, k, i, q)
    BY <2>1
  <2>3. ~(k = 2 /\ i = 10) /\ Ahead(l, r, 10 * k + i, q)
    BY <2>2 DEF Inside, Place, Position
  <2>4. Len(ahead) = 30 - (10 * k + i) \/ Len(ahead) = 31 - (10 * k + i)
    BY <2>3 DEF Ahead, Whole, Partly
  <2>5. Len(ahead) # 0
    BY <2>3, <2>4
  <2> QED
    BY <2>5
<1> QED
  BY <1>1, <1>2 DEF Crossing

(* A label that finds the detector clean starts there.                     *)
LEMMA Approaches ==
  ASSUME TrackOK, CleanStart, Approach, found' = "reset"
  PROVE  \E l \in Labels, r \in BOOLEAN : l.c = label' /\ Crossing(l, r)'
<1>1. clean
  BY DEF Approach
<1>2. PICK l \in Labels : l = Head(coming)
  BY HeadTailProperties DEF TrackOK, Approach
<1>3. PICK r \in BOOLEAN : ahead' = Label(l, r)
  BY <1>2 DEF Approach
<1>4. Reset' /\ pc' = "idle" /\ label' = l.c
  BY <1>1, <1>2 DEF CleanStart, Reset, Approach, bars, chars, flags
<1>5. Whole(l, r, 0)'
  <2>1. Len(ahead') = 30
    BY <1>3, LabelRuns
  <2>2. \A x \in 1..30 : ahead'[x] = Label(l, r)[0 + x]
    BY <1>3
  <2> QED
    BY <2>1, <2>2 DEF Whole
<1>6. Crossing(l, r)'
  BY <1>4, <1>5 DEF Crossing, Start
<1> QED
  BY <1>4, <1>6

(* A reading keeps track of the label.                                     *)
LEMMA Reads ==
  ASSUME NEW l \in Labels, NEW r \in BOOLEAN, TrackOK, Crossing(l, r), Read
  PROVE  Crossing(l, r)'
<1>1. CASE Start(l, r)
  <2>1. Inside(l, r, 0, 1, 1)' /\ 0 \in 0..2 /\ 1 \in 1..10 /\ 1 \in Nat
    BY <1>1, StartReads
  <2> QED
    BY <2>1, Zenon DEF Crossing
<1>2. CASE \E k \in 0..2, i \in 1..10 : \E q \in Nat : Inside(l, r, k, i, q)
  <2>1. PICK k \in 0..2, i \in 1..10 : \E q \in Nat : Inside(l, r, k, i, q)
    BY <1>2
  <2>2. PICK q \in Nat : Inside(l, r, k, i, q)
    BY <2>1
  <2>3. \E k2 \in 0..2, i2 \in 1..10 : \E q2 \in Nat : Inside(l, r, k2, i2, q2)'
    BY <2>2, IdleReads DEF Read
  <2> QED
    BY <2>3 DEF Crossing
<1> QED
  BY <1>1, <1>2 DEF Crossing

(* So does every step of barcode_detector, until the label is printed.     *)
LEMMA Detects ==
  ASSUME NEW l \in Labels, NEW r \in BOOLEAN, TypeOK, Crossing(l, r), l.c = label,
         barcode_detector
  PROVE  Crossing(l, r)' \/ Ending'
<1>1. ~Start(l, r)
  BY DEF Start, barcode_detector, Transition, Check, Convert, Mark, Finish, Resume
<1>2. PICK k \in 0..2, i \in 1..10 : \E q \in Nat : Inside(l, r, k, i, q)
  BY <1>1 DEF Crossing
<1>3. PICK q \in Nat : Inside(l, r, k, i, q)
  BY <1>2
<1>4. BarsOK /\ CharsOK /\ FlagsOK
  BY DEF TypeOK
<1>5. Inside(l, r, k, i, q)' \/ Ending'
  BY <1>3, <1>4, Transitions, Checks, Converts, Marks, Finishes, Resumes DEF barcode_detector
<1> QED
  BY <1>5 DEF Crossing

(* And a stuttering step.                                                  *)
LEMMA CrossingKept ==
  ASSUME NEW l, NEW r, UNCHANGED vars
  PROVE  Crossing(l, r) => Crossing(l, r)'
<1>1. /\ UNCHANGED <<pc, ahead, detect_barcode, current_state_black>>
      /\ UNCHANGED <<stay_count, stay_counts, barcount, barcode_black_detected>>
      /\ UNCHANGED <<converted_chars, char_index, direction_determined, direction>>
      /\ UNCHANGED <<last_conversion_barcount, waiting_for_black>>
  BY DEF vars, bars, chars, flags, track
<1>2. Start(l, r) => Start(l, r)'
  BY <1>1 DEF Start, Reset, Whole
<1>3. ASSUME NEW k, NEW i, NEW q, Inside(l, r, k, i, q)
      PROVE  Inside(l, r, k, i, q)'
  <2>1. Position(l, r, k, i, q)'
    BY <1>1, <1>3, Frames DEF Inside
  <2>2. \A m, n : /\ Measured(l, r, n) => Measured(l, r, n)'
                  /\ Converted(l, r, m) => Converted(l, r, m)'
                  /\ Marked(m) => Marked(m)'
    <3>1. UNCHANGED chars
      BY <1>1 DEF chars
    <3> QED
      BY <1>1, <3>1, Frames
  <2>3. Counting(l, r, k, i, q) => Counting(l, r, k, i, q)'
    <3>1. UNCHANGED bars
      BY <1>1 DEF bars
    <3> QED
      BY <3>1, Frames
  <2>4. Settled(l, r, k, i, q) => Settled(l, r, k, i, q)'
    BY <2>2, <2>3 DEF Settled
  <2>5. Entering(l, r, k, i, q) => Entering(l, r, k, i, q)'
    BY <1>1, <2>2 DEF Entering
  <2>6. Checking(l, r, k, i, q) => Checking(l, r, k, i, q)'
    BY <1>1, <2>2, <2>3 DEF Checking
  <2>7. Place(l, r, k, i, q)'
    BY <1>1, <1>3, <2>2, <2>3, <2>4, <2>5, <2>6 DEF Inside, Place
  <2> QED
    BY <2>1, <2>7 DEF Inside
<1> QED
  BY <1>2, <1>3 DEF Crossing

(* The inductive invariant: what the detector holds is a function of where *)
(* the sensor is in the label.                                             *)
LabelInv == TypeInv /\ CleanStart /\ Undisturbed

(* For every set of tracks, labels of any of the 44 characters, crossed    *)
(* from either end and at any speed of each character: a label that finds  *)
(* the detector as power-on or the button leaves it is printed, complete   *)
(* and in order, unless the button is pressed meanwhile (buddy3.c 256-328, *)
(* 344-364).                                                               *)
THEOREM LabelDecodes == Spec => []FirstLabelDecodes
<1>1. Init => CleanStart /\ Undisturbed
  BY DEF Init, CleanStart, Reset, Undisturbed
<1>2. TypeInv /\ CleanStart /\ [Next]_vars => CleanStart'
  <2> SUFFICES ASSUME TypeInv, CleanStart, [Next]_vars PROVE CleanStart'
    OBVIOUS
  <2>1. CASE Approach
    BY <2>1 DEF Approach, CleanStart
  <2>2. CASE Read
    BY <2>2 DEF Read, CleanStart, history
  <2>3. CASE barcode_detector
    BY <2>3 DEF CleanStart, barcode_detector, Transition, Check, Convert, Mark, Finish, Resume, history
  <2>4. CASE Press
    BY <2>4 DEF Press, CleanStart, Reset, track
  <2>5. CASE UNCHANGED vars
    BY <2>5 DEF CleanStart, Reset, vars, bars, chars, flags, track, history
  <2> QED
    BY <2>1, <2>2, <2>3, <2>4, <2>5 DEF Next
<1>3. TypeInv /\ CleanStart /\ Undisturbed /\ [Next]_vars => Undisturbed'
  <2> SUFFICES ASSUME TypeInv, CleanStart, Undisturbed, [Next]_vars, found' = "reset", label' # ""
      PROVE  Ending' \/ \E l \in Labels, r \in BOOLEAN : l.c = label' /\ Crossing(l, r)'
    BY DEF Undisturbed
  <2> DEFINE Under == Ending \/ \E l \in Labels, r \in BOOLEAN : l.c = label /\ Crossing(l, r)
  <2>0. TypeOK /\ TrackOK
    BY DEF TypeInv, TypeOK
  <2>1. CASE Approach
    BY <2>0, <2>1, Approaches
  <2>2. CASE Read
    <3>1. label' = label /\ Under
      BY <2>2 DEF Read, history, Undisturbed
    <3>2. CASE Ending
      BY <2>0, <2>2, <3>2, EndingReads
    <3>3. ASSUME NEW l \in Labels, NEW r \in BOOLEAN, l.c = label, Crossing(l, r)
          PROVE  l.c = label' /\ Crossing(l, r)'
      BY <2>0, <2>2, <3>1, <3>3, Reads
    <3> QED
      BY <3>1, <3>2, <3>3
  <2>3. CASE barcode_detector
    <3>1. label' = label /\ Under
      BY <2>3 DEF barcode_detector, Transition, Check, Convert, Mark, Finish, Resume, track, history,
                  Undisturbed
    <3>2. CASE Ending
      <4>1. Resume
        BY <2>3, <3>2 DEF Ending, barcode_detector, Transition, Check, Convert, Mark, Finish
      <4> QED
        BY <3>2, <4>1 DEF Ending, Resume, track, history, Decoded
    <3>3. ASSUME NEW l \in Labels, NEW r \in BOOLEAN, l.c = label, Crossing(l, r)
          PROVE  (l.c = label' /\ Crossing(l, r)') \/ Ending'
      BY <2>0, <2>3, <3>1, <3>3, Detects
    <3> QED
      BY <3>1, <3>2, <3>3
  <2>4. CASE Press
    <3>1. /\ ahead = <<>> /\ pc = "idle" /\ found = "reset"
          /\ UNCHANGED <<ahead, pc, label, printed>>
      BY <2>4 DEF Press, track
    <3>2. Under
      BY <3>1 DEF Undisturbed
    <3>3. Ending
      BY <3>1, <3>2, StillAhead
    <3>4. detect_barcode' = FALSE /\ waiting_for_black' = FALSE
      BY <2>4 DEF Press
    <3> QED
      BY <3>1, <3>3, <3>4 DEF Ending, Decoded
  <2>5. CASE UNCHANGED vars
    <3>1. UNCHANGED <<found, label, pc, ahead, printed, detect_barcode, waiting_for_black>>
      BY <2>5 DEF vars, flags, track, history
    <3>2. Under
      BY <3>1 DEF Undisturbed
    <3>3. CASE Ending
      BY <3>1, <3>3 DEF Ending, Decoded
    <3> QED
      BY <2>5, <3>1, <3>2, <3>3, CrossingKept
  <2> QED
    BY <2>1, <2>2, <2>3, <2>4, <2>5 DEF Next
<1>4. LabelInv => FirstLabelDecodes
  <2> SUFFICES ASSUME Undisturbed, Passed, found = "reset" PROVE Decoded
    BY DEF LabelInv, FirstLabelDecodes
  <2>1. Ending
    BY StillAhead DEF Undisturbed, Passed
  <2> QED
    BY <2>1 DEF Ending
<1>5. Init => TypeInv
  BY InitialTypes
<1>6. TypeInv /\ [Next]_vars => TypeInv'
  BY KeptTypes
<1> QED
  BY <1>1, <1>2, <1>3, <1>4, <1>5, <1>6, PTL DEF Spec, LabelInv

=============================================================================
