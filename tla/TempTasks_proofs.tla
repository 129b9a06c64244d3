-------------------------- MODULE TempTasks_proofs --------------------------
(***************************************************************************)
(* The temperature tasks, for any length of the queues and of the ring:    *)
(* first that no reading is lost, then what the sum of a sequence is, how a *)
(* count goes round a ring, and with both the moving average.              *)
(***************************************************************************)
EXTENDS TempTasks, FiniteSetTheorems, NaturalsInduction, SequenceTheorems,
        WellFoundedInduction, TLAPS

(* Where a reading taken can be: received by an average, in the queue, or  *)
(* about to be sent.  Before the first reading the task's variable is 0.   *)
Values == Readings \cup {0}

Steps == {"read", "send", "message", "delay", "receive", "print"}

Received(t) == Len(got[t])

Queued == Len(tempQueue)

Sending == IF pc["temp"] = "send" THEN 1 ELSE 0

(* Inductive: the types that the counts rest on, and the sum of the three. *)
Conserving ==
  /\ pc \in [Tasks -> Steps]
  /\ tempReading \in [n : Nat, value : Values] /\ tempQueue \in Seq([n : Nat, value : Values])
  /\ got \in [Averagers -> Seq(Values)] /\ taken \in Nat
  /\ ReadingsConserved

(* The invariant of the runs in the names above. *)
LEMMA ConservedAs ==
  ReadingsConserved <=>
    taken = Received("moving") + Received("simple") + Queued + Sending
BY DEF ReadingsConserved, Received, Queued, Sending

(* The two averages do the same to the queue and to their own history. *)
LEMMA ReceiveConserves ==
  ASSUME Conserving, NEW t \in Averagers, tempQueue # <<>>,
         pc' = [pc EXCEPT ![t] = "message"], tempQueue' = Tail(tempQueue),
         got' = [got EXCEPT ![t] = Append(@, Head(tempQueue).value)],
         UNCHANGED <<tempReading, taken>>
  PROVE  Conserving'
<1> USE DEF Averagers, Tasks
<1>1. /\ Head(tempQueue) \in [n : Nat, value : Values]
      /\ tempQueue' \in Seq([n : Nat, value : Values])
      /\ Len(tempQueue') = Len(tempQueue) - 1 /\ Len(tempQueue) \in Nat
  BY HeadTailProperties, LenProperties DEF Conserving
<1>2. got[t] \in Seq(Values) /\ Head(tempQueue).value \in Values
  BY <1>1 DEF Conserving
<1>3. got'[t] = Append(got[t], Head(tempQueue).value)
  BY DEF Conserving
<1>4. got'[t] \in Seq(Values) /\ Len(got'[t]) = Len(got[t]) + 1
  BY <1>2, <1>3, AppendProperties
<1>5. got' \in [Averagers -> Seq(Values)]
  BY <1>2, <1>3, <1>4 DEF Conserving
<1>6. \A u \in Averagers : u # t => got'[u] = got[u]
  BY DEF Conserving
<1>7. /\ Received("moving") \in Nat /\ Received("simple") \in Nat
      /\ Received("moving")' \in Nat /\ Received("simple")' \in Nat
  BY <1>5, LenProperties DEF Conserving, Received
<1>8. \/ Received("moving")' = Received("moving") + 1 /\ Received("simple")' = Received("simple")
      \/ Received("simple")' = Received("simple") + 1 /\ Received("moving")' = Received("moving")
  BY <1>4, <1>6 DEF Received
<1>9. pc' \in [Tasks -> Steps] /\ pc'["temp"] = pc["temp"]
  BY DEF Conserving, Steps
<1>s. Sending' = Sending /\ Sending \in Nat
  BY <1>9 DEF Sending
<1>q. Queued' = Queued - 1 /\ Queued \in Nat
  BY <1>1 DEF Queued
<1>10. taken = Received("moving") + Received("simple") + Queued + Sending
  BY ConservedAs DEF Conserving
<1>11. taken' = Received("moving")' + Received("simple")' + Queued' + Sending'
  <2>1. taken' = Received("moving") + Received("simple") + Queued + Sending
    BY <1>10
  <2>2. Received("moving")' + Received("simple")' = Received("moving") + Received("simple") + 1
    BY <1>7, <1>8
  <2>3. Queued' = Queued - 1 /\ Sending' = Sending
    BY <1>s, <1>q
  <2> QED
    BY <1>7, <1>s, <1>q, <2>1, <2>2, <2>3
<1>12. ReadingsConserved'
  BY <1>11 DEF ReadingsConserved, Received, Queued, Sending
<1> QED
  BY <1>1, <1>5, <1>9, <1>12 DEF Conserving

(* A task that receives from the queue has found a reading there. *)
LEMMA RunningReceives ==
  ASSUME NEW t \in Averagers, Running(t), pc[t] = "receive"
  PROVE  tempQueue # <<>>
BY DEF Running, Ready, Averagers

LEMMA ConservingHolds == Spec => []Conserving
<1>1. Init => Conserving
  BY DEF Init, Conserving, Tasks, Steps, Averagers, Values, ReadingsConserved
<1>2. Conserving /\ [Next]_vars => Conserving'
  <2> SUFFICES ASSUME Conserving, [Next]_vars PROVE Conserving'
    OBVIOUS
  <2> USE DEF Goto
  <2>t. /\ Received("moving") \in Nat /\ Received("simple") \in Nat /\ Queued \in Nat
        /\ taken = Received("moving") + Received("simple") + Queued + Sending
    BY LenProperties, ConservedAs DEF Conserving, Averagers, Received, Queued
  <2>1. CASE Read
    <3>1. /\ pc["temp"] = "read" /\ taken' = taken + 1 /\ UNCHANGED <<tempQueue, got>>
          /\ pc' = [pc EXCEPT !["temp"] = "send"]
      BY <2>1 DEF Read, queues
    <3>2. tempReading' \in [n : Nat, value : Values]
      BY <2>1 DEF Read, Values, Conserving
    <3>3. pc'["temp"] = "send" /\ pc' \in [Tasks -> Steps]
      BY <3>1 DEF Conserving, Tasks, Steps
    <3>4. /\ Sending = 0 /\ Sending' = 1 /\ Received("moving")' = Received("moving")
          /\ Received("simple")' = Received("simple") /\ Queued' = Queued
      BY <3>1, <3>3 DEF Sending, Received, Queued
    <3>5. taken' = Received("moving")' + Received("simple")' + Queued' + Sending'
      BY <2>t, <3>1, <3>4
    <3>6. ReadingsConserved'
      BY <3>5 DEF ReadingsConserved, Received, Queued, Sending
    <3> QED
      BY <2>t, <3>1, <3>2, <3>3, <3>6 DEF Conserving
  <2>2. CASE SendReading
    <3>1. /\ pc["temp"] = "send" /\ UNCHANGED <<tempReading, got, taken>>
          /\ tempQueue' = Append(tempQueue, tempReading)
          /\ pc' = [pc EXCEPT !["temp"] = "message"]
      BY <2>2 DEF SendReading
    <3>2. tempQueue' \in Seq([n : Nat, value : Values]) /\ Len(tempQueue') = Len(tempQueue) + 1
      BY <3>1, AppendProperties DEF Conserving
    <3>3. pc'["temp"] = "message" /\ pc' \in [Tasks -> Steps]
      BY <3>1 DEF Conserving, Tasks, Steps
    <3>4. /\ Sending = 1 /\ Sending' = 0 /\ Received("moving")' = Received("moving")
          /\ Received("simple")' = Received("simple") /\ taken' = taken
      BY <3>1, <3>3 DEF Sending, Received
    <3>5. Queued' = Queued + 1
      BY <3>2 DEF Queued
    <3>6. taken' = Received("moving")' + Received("simple")' + Queued' + Sending'
      BY <2>t, <3>4, <3>5
    <3>7. ReadingsConserved'
      BY <3>6 DEF ReadingsConserved, Received, Queued, Sending
    <3> QED
      BY <3>1, <3>2, <3>3, <3>7 DEF Conserving
  <2>3. ASSUME NEW t \in {"temp", "moving", "simple"}, SendMessage(t) PROVE Conserving'
    BY <2>3 DEF SendMessage, Conserving, Tasks, Steps, ReadingsConserved
  <2>4. CASE Wake
    BY <2>4 DEF Wake, Conserving, Tasks, Steps, ReadingsConserved, queues
  <2>5. CASE moving_avg_task
    BY <2>5, RunningReceives, ReceiveConserves DEF moving_avg_task, Averagers
  <2>6. CASE simple_avg_task
    BY <2>6, RunningReceives, ReceiveConserves DEF simple_avg_task, Averagers
  <2>7. CASE ReceiveLine
    BY <2>7 DEF ReceiveLine, Conserving, Tasks, Steps, ReadingsConserved
  <2>8. CASE PrintLine
    BY <2>8 DEF PrintLine, Conserving, Tasks, Steps, ReadingsConserved, queues
  <2>9. CASE UNCHANGED vars
    BY <2>9 DEF vars, Conserving, ReadingsConserved, queues
  <2> QED
    BY <2>1, <2>2, <2>3, <2>4, <2>5, <2>6, <2>7, <2>8, <2>9
    DEF Next, temp_task, print_task
<1> QED
  BY <1>1, <1>2, PTL DEF Spec

(* Each reading taken is about to be sent, in the queue, or received by    *)
(* one of the averages (picow_freertos_ping.c 60-84, 92-150).              *)
THEOREM ReadingsKept == Spec => []ReadingsConserved
<1>1. Conserving => ReadingsConserved
  BY DEF Conserving
<1> QED
  BY <1>1, ConservingHolds, PTL

-----------------------------------------------------------------------------
(* Induction, as a set of naturals that holds 0 and the successor of each  *)
(* of its members.                                                         *)
LEMMA Successors ==
  ASSUME NEW G, 0 \in G, \A k \in Nat : k \in G => (k + 1) \in G
  PROVE  \A k \in Nat : k \in G
<1> SUFFICES ASSUME Nat \ G # {} PROVE FALSE
  OBVIOUS
<1> DEFINE R == OpToRel(<, Nat)
<1>1. IsWellFoundedOn(R, Nat)
  BY NatLessThanWellFounded
<1>2. \A x, y \in Nat : y < x => <<y, x>> \in R
  BY DEF OpToRel
<1> HIDE DEF R
<1>3. PICK m \in Nat \ G : \A k \in Nat \ G : ~(<<k, m>> \in R)
  BY <1>1, WFMin
<1>4. m # 0 /\ m - 1 \in Nat /\ m - 1 < m /\ (m - 1) + 1 = m
  OBVIOUS
<1>5. m - 1 \in G
  BY <1>2, <1>3, <1>4
<1> QED
  BY <1>4, <1>5

(* The sum of a sequence adds up its values over the sets of its indices,  *)
(* taking one index off after the other.                                   *)
Totals(s, f) ==
  [T \in SUBSET DOMAIN s |->
     IF T = {} THEN 0 ELSE LET i == CHOOSE x \in T : TRUE IN s[i] + f[T \ {i}]]

Total(s) == CHOOSE f : f = Totals(s, f)

LEMMA SumIsTotal ==
  ASSUME NEW s
  PROVE  Sum(s) = Total(s)[DOMAIN s]
BY Zenon DEF Sum, FoldSeq, FoldFunction, FoldFunctionOnSet,
   MapThenFoldSet, Total, Totals

LEMMA Indices ==
  ASSUME NEW n \in Nat, NEW T \in SUBSET (1..n)
  PROVE  /\ Cardinality(T) \in 0..n /\ (Cardinality(T) = 0 <=> T = {})
         /\ \A i \in T : Cardinality(T \ {i}) = Cardinality(T) - 1 /\ (T \ {i}) \in SUBSET (1..n)
<1>1. IsFiniteSet(1..n) /\ Cardinality(1..n) = n
  BY FS_Interval
<1>2. IsFiniteSet(T) /\ Cardinality(T) =< n
  BY <1>1, FS_Subset
<1>3. Cardinality(T) \in Nat
  BY <1>2, FS_CardinalityType
<1>4. Cardinality(T) = 0 <=> T = {}
  BY <1>2, FS_EmptySet
<1>5. ASSUME NEW i \in T PROVE Cardinality(T \ {i}) = Cardinality(T) - 1
  BY <1>2, FS_RemoveElement
<1> QED
  BY <1>2, <1>3, <1>4, <1>5

LEMMA TotalExists ==
  ASSUME NEW s \in Seq(Int)
  PROVE  Total(s) = Totals(s, Total(s))
<1> DEFINE n == Len(s)
           Upto(f, k) == /\ f = [T \in SUBSET (1..n) |-> f[T]]
                         /\ \A T \in SUBSET (1..n) : Cardinality(T) =< k => f[T] = Totals(s, f)[T]
           G == {k \in Nat : \E f : Upto(f, k)}
<1>1. n \in Nat /\ DOMAIN s = 1..n
  BY LenProperties
<1>2. \A f : Totals(s, f) = [T \in SUBSET (1..n) |-> 
         IF T = {} THEN 0 ELSE s[CHOOSE x \in T : TRUE] + f[T \ {CHOOSE x \in T : TRUE}]]
  BY <1>1 DEF Totals
<1> HIDE DEF n
<1>3. 0 \in G
  <2> DEFINE f == [T \in SUBSET (1..n) |-> 0]
  <2>1. ASSUME NEW T \in SUBSET (1..n), Cardinality(T) =< 0 PROVE f[T] = Totals(s, f)[T]
    <3>1. T = {}
      BY <1>1, <2>1, Indices
    <3> QED
      BY <1>2, <3>1
  <2>2. Upto(f, 0)
    BY <2>1
  <2> QED
    BY <2>2
<1>4. ASSUME NEW k \in Nat, k \in G PROVE (k + 1) \in G
  <2>1. PICK f : Upto(f, k)
    BY <1>4
  <2> DEFINE g == Totals(s, f)
  <2>2. g = [T \in SUBSET (1..n) |-> g[T]]
    BY <1>2
  <2>3. ASSUME NEW T \in SUBSET (1..n), Cardinality(T) =< k + 1 PROVE g[T] = Totals(s, g)[T]
    <3>1. CASE T = {}
      <4>1. g[T] = 0
        BY <1>2, <3>1
      <4>2. Totals(s, g)[T] = 0
        <5> HIDE DEF g
        <5> QED
          BY <1>2, <3>1
      <4> QED
        BY <4>1, <4>2
    <3>2. CASE T # {}
      <4> DEFINE c == CHOOSE x \in T : TRUE
      <4>1. c \in T
        BY <3>2
      <4>2. (T \ {c}) \in SUBSET (1..n) /\ Cardinality(T \ {c}) =< k
        BY <1>1, <2>3, <4>1, Indices
      <4>3. f[T \ {c}] = g[T \ {c}]
        BY <2>1, <4>2
      <4>4. g[T] = s[c] + f[T \ {c}]
        BY <1>2, <3>2
      <4>5. Totals(s, g)[T] = s[c] + g[T \ {c}]
        <5> HIDE DEF g
        <5> QED
          BY <1>2, <3>2
      <4> QED
        BY <4>3, <4>4, <4>5
    <3> QED
      BY <3>1, <3>2
  <2>4. Upto(g, k + 1)
    <3> HIDE DEF g
    <3> QED
      BY <2>2, <2>3
  <2> HIDE DEF Upto
  <2> QED
    BY <2>4
<1>5. n \in G
  <2> HIDE DEF G
  <2> QED
    BY <1>1, <1>3, <1>4, Successors
<1>6. PICK f : Upto(f, n)
  BY <1>5
<1>7. f = Totals(s, f)
  <2>1. \A T \in SUBSET (1..n) : f[T] = Totals(s, f)[T]
    <3> SUFFICES ASSUME NEW T \in SUBSET (1..n) PROVE f[T] = Totals(s, f)[T]
      OBVIOUS
    <3>1. Cardinality(T) =< n
      BY <1>1, Indices
    <3> QED
      BY <1>6, <3>1
  <2>2. f = [T \in SUBSET (1..n) |-> f[T]] /\ Totals(s, f) = [T \in SUBSET (1..n) |-> Totals(s, f)[T]]
    BY <1>2, <1>6
  <2> QED
    BY <2>1, <2>2
<1> QED
  BY <1>7 DEF Total

LEMMA TotalStep ==
  ASSUME NEW s \in Seq(Int), NEW T \in SUBSET (1..Len(s))
  PROVE  Total(s)[T] = IF T = {} THEN 0
                       ELSE s[CHOOSE x \in T : TRUE] + Total(s)[T \ {CHOOSE x \in T : TRUE}]
<1> DEFINE f == Total(s)
<1>1. DOMAIN s = 1..Len(s)
  BY LenProperties
<1>2. f = Totals(s, f)
  BY TotalExists
<1> HIDE DEF f
<1>3. Totals(s, f)[T] = IF T = {} THEN 0
                        ELSE s[CHOOSE x \in T : TRUE] + f[T \ {CHOOSE x \in T : TRUE}]
  BY <1>1 DEF Totals
<1>4. f[T] = Totals(s, f)[T]
  BY <1>2
<1> QED
  BY <1>3, <1>4 DEF f

(* It is an integer, and any index may be the first to be taken off. *)
LEMMA TotalAny ==
  ASSUME NEW s \in Seq(Int)
  PROVE  \A T \in SUBSET (1..Len(s)) :
           /\ Total(s)[T] \in Int
           /\ \A i \in T : Total(s)[T] = s[i] + Total(s)[T \ {i}]
<1> DEFINE n == Len(s)
           f == Total(s)
           AnyIndex(T) == f[T] \in Int /\ \A i \in T : f[T] = s[i] + f[T \ {i}]
           G == {k \in Nat : \A T \in SUBSET (1..n) : Cardinality(T) =< k => AnyIndex(T)}
<1>1. n \in Nat
  BY LenProperties
<1>e. \A i \in 1..n : s[i] \in Int
  BY ElementOfSeq
<1>2. \A T \in SUBSET (1..n) : f[T] = IF T = {} THEN 0
                       ELSE s[CHOOSE x \in T : TRUE] + f[T \ {CHOOSE x \in T : TRUE}]
  BY TotalStep
<1> HIDE DEF n, f
<1>z. AnyIndex({})
  <2>1. {} \in SUBSET (1..n)
    OBVIOUS
  <2>2. f[{}] = 0
    BY <1>2, <2>1
  <2> QED
    BY <2>2
<1>3. 0 \in G
  <2> SUFFICES ASSUME NEW T \in SUBSET (1..n), Cardinality(T) =< 0 PROVE AnyIndex(T)
    OBVIOUS
  <2>1. T = {}
    <3>1. Cardinality(T) \in 0..n /\ (Cardinality(T) = 0 <=> T = {})
      BY <1>1, Indices
    <3> QED
      BY <1>1, <3>1
  <2> HIDE DEF AnyIndex
  <2> QED
    BY <1>z, <2>1
<1>4. ASSUME NEW k \in Nat, k \in G PROVE (k + 1) \in G
  <2> SUFFICES ASSUME NEW T \in SUBSET (1..n), Cardinality(T) =< k + 1 PROVE AnyIndex(T)
    <3> HIDE DEF AnyIndex
    <3> QED
      OBVIOUS
  <2> SUFFICES ASSUME T # {} PROVE AnyIndex(T)
    <3> HIDE DEF AnyIndex
    <3> QED
      BY <1>z
  <2> DEFINE c == CHOOSE x \in T : TRUE
  <2>1. c \in T /\ f[T] = s[c] + f[T \ {c}]
    BY <1>2
  <2> HIDE DEF c
  <2>2. \A i \in T : (T \ {i}) \in SUBSET (1..n) /\ Cardinality(T \ {i}) =< k
    <3> SUFFICES ASSUME NEW i \in T PROVE (T \ {i}) \in SUBSET (1..n) /\ Cardinality(T \ {i}) =< k
      OBVIOUS
    <3>1. Cardinality(T \ {i}) = Cardinality(T) - 1 /\ Cardinality(T) \in 0..n
      BY <1>1, Indices
    <3> QED
      BY <1>1, <3>1
  <2>3. \A i \in T : AnyIndex(T \ {i})
    BY <1>4, <2>2
  <2>4. \A i \in T : f[T \ {i}] \in Int /\ s[i] \in Int
    BY <1>e, <2>3
  <2>5. f[T] \in Int
    <3>1. s[c] \in Int /\ f[T \ {c}] \in Int
      BY <2>1, <2>4
    <3> QED
      BY <2>1, <3>1
  <2>6. ASSUME NEW i \in T, i # c PROVE f[T] = s[i] + f[T \ {i}]
    <3>1. f[T \ {c}] = s[i] + f[(T \ {c}) \ {i}]
      BY <2>1, <2>3, <2>6
    <3>2. f[T \ {i}] = s[c] + f[(T \ {i}) \ {c}]
      BY <2>1, <2>3, <2>6
    <3>3. (T \ {c}) \ {i} = (T \ {i}) \ {c}
      OBVIOUS
    <3>4. f[(T \ {i}) \ {c}] \in Int
      <4>1. (T \ {i}) \ {c} \in SUBSET (1..n) /\ c \in T \ {i}
        BY <2>1, <2>6
      <4>2. Cardinality((T \ {i}) \ {c}) =< k
        <5>1. /\ Cardinality((T \ {i}) \ {c}) = Cardinality(T \ {i}) - 1
              /\ Cardinality(T \ {i}) \in 0..n
          BY <1>1, <2>2, <4>1, Indices
        <5> QED
          BY <1>1, <2>2, <5>1
      <4> QED
        BY <1>4, <4>1, <4>2
    <3> QED
      <4>1. PICK u \in Int : u = f[(T \ {i}) \ {c}]
        BY <3>4
      <4>2. f[T \ {c}] = s[i] + u /\ f[T \ {i}] = s[c] + u
        BY <3>1, <3>2, <3>3, <4>1
      <4>3. s[i] \in Int /\ s[c] \in Int
        BY <2>1, <2>4
      <4> QED
        BY <2>1, <4>2, <4>3
  <2> QED
    BY <2>1, <2>5, <2>6
<1>5. n \in G
  <2> HIDE DEF G
  <2> QED
    BY <1>1, <1>3, <1>4, Successors
<1>6. \A T \in SUBSET (1..n) : AnyIndex(T)
  <2> SUFFICES ASSUME NEW T \in SUBSET (1..n) PROVE AnyIndex(T)
    OBVIOUS
  <2>1. Cardinality(T) =< n
    BY <1>1, Indices
  <2> QED
    BY <1>5, <2>1
<1> QED
  BY <1>6 DEF n, f

(* Two sequences have the same totals where they have the same values. *)
LEMMA TotalAgrees ==
  ASSUME NEW s \in Seq(Int), NEW t \in Seq(Int), Len(t) =< Len(s),
         \A i \in 1..Len(t) : t[i] = s[i]
  PROVE  \A T \in SUBSET (1..Len(t)) : Total(t)[T] = Total(s)[T]
<1> DEFINE n == Len(t)
           f == Total(t)
           g == Total(s)
           G == {k \in Nat : \A T \in SUBSET (1..n) : Cardinality(T) =< k => f[T] = g[T]}
<1>1. n \in Nat /\ \A T \in SUBSET (1..n) : T \in SUBSET (1..Len(s))
  BY LenProperties
<1>2. \A T \in SUBSET (1..n) :
        /\ f[T] = IF T = {} THEN 0
                  ELSE t[CHOOSE x \in T : TRUE] + f[T \ {CHOOSE x \in T : TRUE}]
        /\ g[T] = IF T = {} THEN 0
                  ELSE s[CHOOSE x \in T : TRUE] + g[T \ {CHOOSE x \in T : TRUE}]
  BY <1>1, TotalStep
<1>3. \A i \in 1..n : t[i] = s[i]
  OBVIOUS
<1> HIDE DEF n, f, g
<1>4. 0 \in G
  <2> SUFFICES ASSUME NEW T \in SUBSET (1..n), Cardinality(T) =< 0 PROVE f[T] = g[T]
    OBVIOUS
  <2>1. T = {}
    <3>1. Cardinality(T) \in 0..n /\ (Cardinality(T) = 0 <=> T = {})
      BY <1>1, Indices
    <3> QED
      BY <1>1, <3>1
  <2> QED
    BY <1>2, <2>1
<1>5. ASSUME NEW k \in Nat, k \in G PROVE (k + 1) \in G
  <2> SUFFICES ASSUME NEW T \in SUBSET (1..n), Cardinality(T) =< k + 1 PROVE f[T] = g[T]
    OBVIOUS
  <2>1. CASE T = {}
    BY <1>2, <2>1
  <2>2. CASE T # {}
    <3> DEFINE c == CHOOSE x \in T : TRUE
    <3>1. c \in T /\ f[T] = t[c] + f[T \ {c}] /\ g[T] = s[c] + g[T \ {c}]
      BY <1>2, <2>2
    <3> HIDE DEF c
    <3>2. (T \ {c}) \in SUBSET (1..n)
      OBVIOUS
    <3>3. Cardinality(T \ {c}) = Cardinality(T) - 1 /\ Cardinality(T) \in 0..n
      BY <1>1, <3>1, Indices
    <3>4. Cardinality(T \ {c}) =< k
      BY <1>1, <3>3
    <3> QED
      BY <1>3, <1>5, <3>1, <3>2, <3>4
  <2> QED
    BY <2>1, <2>2
<1>6. n \in G
  <2> HIDE DEF G
  <2> QED
    BY <1>1, <1>4, <1>5, Successors
<1>7. ASSUME NEW T \in SUBSET (1..n) PROVE f[T] = g[T]
  <2>1. Cardinality(T) =< n
    BY <1>1, Indices
  <2> QED
    BY <1>6, <2>1
<1> QED
  BY <1>7 DEF n, f, g

LEMMA SumAppend ==
  ASSUME NEW s \in Seq(Int), NEW v \in Int
  PROVE  Sum(s) \in Int /\ Sum(Append(s, v)) = Sum(s) + v
<1> DEFINE n == Len(s)
           t == Append(s, v)
<1>1. /\ n \in Nat /\ DOMAIN s = 1..n /\ t \in Seq(Int) /\ Len(t) = n + 1
      /\ t[n + 1] = v /\ \A i \in 1..n : t[i] = s[i]
  BY LenProperties, AppendProperties
<1>2. DOMAIN t = 1..(n + 1)
  BY <1>1, LenProperties
<1> HIDE DEF t
<1>3. \A T \in SUBSET (1..n) : Total(s)[T] = Total(t)[T]
  BY <1>1, TotalAgrees
<1>4. Total(s)[1..n] \in Int
  BY TotalAny
<1> HIDE DEF n
<1>5. n + 1 \in 1..(n + 1) /\ (1..(n + 1)) \ {n + 1} = 1..n
  BY <1>1
<1>6. Total(t)[1..(n + 1)] = t[n + 1] + Total(t)[(1..(n + 1)) \ {n + 1}]
  <2>1. (1..(n + 1)) \in SUBSET (1..Len(t))
    BY <1>1
  <2> QED
    BY <1>1, <1>5, <2>1, TotalAny
<1>7. Total(t)[1..(n + 1)] = v + Total(s)[1..n]
  BY <1>1, <1>3, <1>5, <1>6
<1>8. Sum(s) = Total(s)[1..n] /\ Sum(t) = Total(t)[1..(n + 1)]
  BY <1>1, <1>2, SumIsTotal
<1> QED
  BY <1>4, <1>7, <1>8 DEF t

LEMMA SumEmpty == Sum(<<>>) = 0
<1>1. <<>> \in Seq(Int) /\ DOMAIN <<>> = {} /\ {} \in SUBSET (1..Len(<<>>))
  BY EmptySeq
<1>2. Total(<<>>)[{}] = 0
  BY <1>1, TotalStep
<1> QED
  BY <1>1, <1>2, SumIsTotal

LEMMA SumTail ==
  ASSUME NEW s \in Seq(Int), s # <<>>
  PROVE  Sum(s) = Head(s) + Sum(Tail(s))
<1> DEFINE Split(q) == Sum(q) = Head(q) + Sum(Tail(q))
           G == {k \in Nat : \A q \in Seq(Int) : Len(q) = k + 1 => Split(q)}
<1>1. ASSUME NEW f \in Seq(Int), NEW e \in Int, f # <<>> => Split(f)
      PROVE  Split(Append(f, e))
  <2>1. Sum(f) \in Int /\ Sum(Append(f, e)) = Sum(f) + e
    BY SumAppend
  <2>2. CASE f = <<>>
    <3>1. Head(Append(f, e)) = e /\ Tail(Append(f, e)) = <<>>
      BY <2>2, HeadTailAppend
    <3> QED
      BY <2>1, <2>2, <3>1, SumEmpty
  <2>3. CASE f # <<>>
    <3>1. Head(Append(f, e)) = Head(f) /\ Tail(Append(f, e)) = Append(Tail(f), e)
      BY <2>3, HeadTailAppend
    <3>2. Head(f) \in Int /\ Tail(f) \in Seq(Int)
      BY <2>3, HeadTailProperties
    <3>3. Sum(Tail(f)) \in Int /\ Sum(Append(Tail(f), e)) = Sum(Tail(f)) + e
      BY <3>2, SumAppend
    <3>4. Sum(f) = Head(f) + Sum(Tail(f))
      BY <1>1, <2>3
    <3> QED
      <4>1. PICK a \in Int, b \in Int : a = Head(f) /\ b = Sum(Tail(f))
        BY <3>2, <3>3
      <4>2. Sum(f) = a + b /\ Head(Append(f, e)) = a /\ Sum(Tail(Append(f, e))) = b + e
        BY <3>1, <3>3, <3>4, <4>1
      <4>3. Sum(Append(f, e)) = a + (b + e)
        BY <2>1, <4>2
      <4> QED
        BY <4>2, <4>3
  <2> QED
    BY <2>2, <2>3
<1> HIDE DEF Split
<1>2. ASSUME NEW q \in Seq(Int), q # <<>>
      PROVE  \E f \in Seq(Int), e \in Int : q = Append(f, e) /\ Len(q) = Len(f) + 1
  <2>1. PICK f \in Seq(Int), e \in Int : q = Append(f, e)
    BY <1>2, SequenceEmptyOrAppend
  <2>2. Len(Append(f, e)) = Len(f) + 1
    BY AppendProperties
  <2> QED
    BY <2>1, <2>2
<1>3. 0 \in G
  <2> SUFFICES ASSUME NEW q \in Seq(Int), Len(q) = 1 PROVE Split(q)
    OBVIOUS
  <2>1. PICK f \in Seq(Int), e \in Int : q = Append(f, e) /\ Len(q) = Len(f) + 1
    <3>1. Len(q) # 0
      OBVIOUS
    <3>2. q # <<>>
      BY <3>1, EmptySeq
    <3> QED
      BY <1>2, <3>2
  <2>2. f = <<>>
    BY <2>1, EmptySeq, LenProperties
  <2> QED
    BY <1>1, <2>1, <2>2
<1>4. ASSUME NEW k \in Nat, k \in G PROVE (k + 1) \in G
  <2> SUFFICES ASSUME NEW q \in Seq(Int), Len(q) = (k + 1) + 1 PROVE Split(q)
    OBVIOUS
  <2>1. PICK f \in Seq(Int), e \in Int : q = Append(f, e) /\ Len(q) = Len(f) + 1
    <3>1. Len(q) # 0
      OBVIOUS
    <3>2. q # <<>>
      BY <3>1, EmptySeq
    <3> QED
      BY <1>2, <3>2
  <2>2. Len(f) = k + 1
    BY <2>1, LenProperties
  <2>3. Split(f)
    BY <1>4, <2>2
  <2> QED
    BY <1>1, <2>1, <2>3
<1>5. Len(s) \in Nat \ {0}
  BY EmptySeq
<1>6. Len(s) - 1 \in G
  <2> HIDE DEF G
  <2> QED
    BY <1>3, <1>4, <1>5, Successors
<1>7. Split(s)
  BY <1>5, <1>6
<1> QED
  BY <1>7 DEF Split

-----------------------------------------------------------------------------
(* The ring: remainders of a count of readings by the ring's size. *)
LEMMA Division ==
  ASSUME NEW B \in Nat \ {0}, NEW a \in Nat
  PROVE  a % B \in 0..(B - 1) /\ \E q \in Nat : a = (B * q) + (a % B)
<1>1. a % B \in 0..(B - 1) /\ a = (B * (a \div B)) + (a % B) /\ (a \div B) \in Int
  OBVIOUS
<1>2. PICK q \in Int : q = a \div B
  BY <1>1
<1>3. a = (B * q) + (a % B)
  BY <1>1, <1>2
<1>4. ~(q < 0)
  <2> SUFFICES ASSUME q < 0 PROVE FALSE
    OBVIOUS
  <2>1. B * q =< B * (0 - 1)
    OBVIOUS
  <2>2. B * (0 - 1) = 0 - B
    OBVIOUS
  <2>3. PICK c \in Int : c = B * q
    OBVIOUS
  <2> QED
    BY <1>1, <1>3, <2>1, <2>2, <2>3
<1>5. a % B \in 0..(B - 1) /\ q \in Nat
  BY <1>1, <1>4
<1> QED
  BY <1>3, <1>5, Zenon

LEMMA Remainder ==
  ASSUME NEW B \in Nat \ {0}, NEW q \in Nat, NEW r \in 0..(B - 1)
  PROVE  ((B * q) + r) % B = r
<1>1. PICK a \in Nat : a = (B * q) + r
  <2>1. B * q \in Nat
    OBVIOUS
  <2> QED
    BY <2>1
<1>2. PICK p \in Nat : a = (B * p) + (a % B)
  BY <1>1, Division
<1>3. a % B \in 0..(B - 1)
  BY Division
<1>4. p = q
  <2>1. ASSUME NEW x \in Nat, NEW y \in Nat, x < y PROVE (B * x) + B =< B * y
    <3>1. B * (x + 1) =< B * y
      BY <2>1
    <3>2. B * (x + 1) = (B * x) + B
      OBVIOUS
    <3> QED
      BY <3>1, <3>2
  <2>2. PICK c \in Nat, d \in Nat : c = B * p /\ d = B * q
    OBVIOUS
  <2>3. ~(p < q)
    <3>1. ASSUME p < q PROVE c + B =< d
      BY <2>1, <2>2, <3>1
    <3> QED
      BY <1>1, <1>2, <1>3, <2>2, <3>1
  <2>4. ~(q < p)
    <3>1. ASSUME q < p PROVE d + B =< c
      BY <2>1, <2>2, <3>1
    <3> QED
      BY <1>1, <1>2, <1>3, <2>2, <3>1
  <2> QED
    BY <2>3, <2>4
<1> QED
  BY <1>1, <1>2, <1>3, <1>4

LEMMA RingNext ==
  ASSUME NEW B \in Nat \ {0}, NEW n \in Nat
  PROVE  ((n % B) + 1) % B = (n + 1) % B
<1>1. PICK q \in Nat : n = (B * q) + (n % B)
  BY Division
<1>2. PICK r \in 0..(B - 1) : r = n % B
  BY Division
<1>3. n + 1 = (B * q) + (r + 1) /\ B * q \in Nat
  BY <1>1, <1>2
<1>4. CASE r + 1 < B
  <2>1. r + 1 \in 0..(B - 1)
    BY <1>4
  <2>2. ((B * q) + (r + 1)) % B = r + 1 /\ ((B * 0) + (r + 1)) % B = r + 1
    BY <2>1, Remainder
  <2>3. (B * 0) + (r + 1) = r + 1
    OBVIOUS
  <2> QED
    BY <1>2, <1>3, <2>2, <2>3
<1>5. CASE r + 1 = B
  <2>1. ((B * (q + 1)) + 0) % B = 0 /\ ((B * 1) + 0) % B = 0
    BY Remainder
  <2>2. (B * (q + 1)) + 0 = (B * q) + B /\ (B * 1) + 0 = B
    OBVIOUS
  <2> QED
    BY <1>2, <1>3, <1>5, <2>1, <2>2
<1> QED
  BY <1>4, <1>5

LEMMA RingBack ==
  ASSUME NEW B \in Nat \ {0}, NEW n \in Nat, n >= B
  PROVE  (n - B) % B = n % B
<1>1. PICK q \in Nat : n = (B * q) + (n % B)
  BY Division
<1>2. PICK r \in 0..(B - 1) : r = n % B
  BY Division
<1>3. q # 0
  <2> SUFFICES ASSUME q = 0 PROVE FALSE
    OBVIOUS
  <2>1. B * q = 0
    OBVIOUS
  <2> QED
    BY <1>1, <1>2, <2>1
<1>4. (B * q) = (B * (q - 1)) + B
  OBVIOUS
<1>5. n - B = (B * (q - 1)) + r
  <2>1. PICK c \in Int, d \in Int : c = B * q /\ d = B * (q - 1)
    OBVIOUS
  <2> QED
    BY <1>1, <1>2, <1>4, <2>1
<1>6. q - 1 \in Nat
  BY <1>3
<1> QED
  BY <1>2, <1>5, <1>6, Remainder

LEMMA RingApart ==
  ASSUME NEW B \in Nat \ {0}, NEW n \in Nat, NEW p \in Nat, p < n, n - p < B
  PROVE  p % B # n % B
<1> SUFFICES ASSUME p % B = n % B PROVE FALSE
  OBVIOUS
<1>1. PICK q \in Nat : n = (B * q) + (n % B)
  BY Division
<1>2. PICK t \in Nat : p = (B * t) + (p % B)
  BY Division
<1>3. PICK r \in 0..(B - 1) : r = n % B
  BY Division
<1>4. PICK c \in Nat, d \in Nat : c = B * q /\ d = B * t
  OBVIOUS
<1>5. n = c + r /\ p = d + r
  BY <1>1, <1>2, <1>3, <1>4
<1>6. t < q
  <2> SUFFICES ASSUME q =< t PROVE FALSE
    OBVIOUS
  <2>1. B * q =< B * t
    OBVIOUS
  <2> QED
    BY <1>4, <1>5, <2>1
<1>7. (B * t) + B =< B * q
  <2>1. B * (t + 1) =< B * q
    BY <1>6
  <2>2. B * (t + 1) = (B * t) + B
    OBVIOUS
  <2> QED
    BY <2>1, <2>2
<1> QED
  BY <1>4, <1>5, <1>7

-----------------------------------------------------------------------------
(* The readings the moving average is over: the newest, as many as the     *)
(* ring holds.                                                             *)
Window(r) ==
  LET last == Min({Len(r), BUFFER_SIZE})
  IN SubSeq(r, Len(r) - last + 1, Len(r))

LEMMA MinOfTwo ==
  ASSUME NEW a \in Int, NEW b \in Int
  PROVE  Min({a, b}) = IF a =< b THEN a ELSE b
<1> DEFINE m == IF a =< b THEN a ELSE b
<1>1. m \in {a, b} /\ \A y \in {a, b} : m =< y
  OBVIOUS
<1>2. \A x \in {a, b} : (\A y \in {a, b} : x =< y) => x = m
  OBVIOUS
<1> HIDE DEF m
<1>3. Min({a, b}) = m
  BY <1>1, <1>2 DEF Min
<1> QED
  BY <1>3 DEF m

(* One more reading: the window grows, or its oldest reading leaves it. *)
LEMMA WindowSum ==
  ASSUME BUFFER_SIZE \in Nat \ {0}, NEW r \in Seq(Int), NEW v \in Int
  PROVE  /\ Sum(Window(r)) \in Int
         /\ Len(r) < BUFFER_SIZE =>
              Sum(Window(Append(r, v))) = Sum(Window(r)) + v
         /\ Len(r) >= BUFFER_SIZE =>
              /\ r[Len(r) - BUFFER_SIZE + 1] \in Int
              /\ Sum(Window(Append(r, v))) =
                   (Sum(Window(r)) - r[Len(r) - BUFFER_SIZE + 1]) + v
<1> DEFINE n == Len(r)
           B == BUFFER_SIZE
           q == Append(r, v)
<1>1. n \in Nat /\ q \in Seq(Int) /\ Len(q) = n + 1 /\ B \in Nat /\ B > 0
  BY LenProperties, AppendProperties
<1>2. (\A i \in 1..n : q[i] = r[i]) /\ q[n + 1] = v
  BY AppendProperties
<1>3. (\A i \in 1..n : r[i] \in Int) /\ (\A i \in 1..(n + 1) : q[i] \in Int)
  BY <1>1, ElementOfSeq
<1>4. CASE n < B
  <2>1. Min({n, B}) = n /\ Min({n + 1, B}) = n + 1
    BY <1>1, <1>4, MinOfTwo
  <2>2. Window(r) = SubSeq(r, 1, n)
    <3>1. (n - n) + 1 = 1
      BY <1>1
    <3> QED
      BY <2>1, <3>1, Zenon DEF Window
  <2>3. Window(q) = SubSeq(q, 1, n + 1)
    <3>1. ((n + 1) - (n + 1)) + 1 = 1
      BY <1>1
    <3> HIDE DEF q
    <3> QED
      BY <1>1, <2>1, <3>1, Zenon DEF Window
  <2>4. Window(r) = r /\ Window(q) = q
    <3> HIDE DEF q
    <3> QED
      BY <1>1, <2>2, <2>3, SubSeqFull
  <2> QED
    BY <1>1, <1>4, <2>4, SumAppend
<1>5. CASE n >= B
  <2> DEFINE m == n - B + 1
             w == SubSeq(r, m, n)
  <2>1. Min({n, B}) = B /\ Min({n + 1, B}) = B
    BY <1>1, <1>5, MinOfTwo
  <2>2. m \in 1..n /\ n \in m..n /\ m \in Int
    BY <1>1, <1>5
  <2>3. Window(r) = w
    BY <2>1 DEF Window
  <2>4. Window(q) = SubSeq(q, m + 1, n + 1)
    <3>1. ((n + 1) - B) + 1 = m + 1
      BY <1>1
    <3> HIDE DEF q, m
    <3> QED
      BY <1>1, <2>1, <3>1, Zenon DEF Window
  <2>5. Head(w) = r[m] /\ Tail(w) = SubSeq(r, m + 1, n)
    <3> HIDE DEF m
    <3> QED
      BY <2>2, HeadTailOfSubSeq
  <2>6. w \in Seq(Int) /\ w # <<>>
    <3>1. \A i \in m..n : r[i] \in Int
      BY <1>3, <2>2
    <3> HIDE DEF m
    <3>2. w \in Seq(Int) /\ Len(w) = n - m + 1
      BY <1>1, <2>2, <3>1, SubSeqProperties
    <3>3. Len(w) # 0
      BY <1>1, <2>2, <3>2
    <3> HIDE DEF w
    <3> QED
      BY <3>2, <3>3, EmptySeq
  <2>7. Window(q) = Append(Tail(w), v)
    <3> HIDE DEF m, q, w, n
    <3>1. \A i \in (m + 1)..(n + 1) : q[i] \in Int
      BY <1>1, <1>3, <2>2
    <3>2. /\ Window(q) \in Seq(Int) /\ Len(Window(q)) = (n - m) + 1
          /\ \A i \in 1..((n - m) + 1) : Window(q)[i] = q[m + i]
      <4>1. n + 1 \in Int /\ m + 1 \in Int
        BY <1>1, <2>2
      <4>2. /\ SubSeq(q, m + 1, n + 1) \in Seq(Int)
            /\ Len(SubSeq(q, m + 1, n + 1)) = IF m + 1 =< n + 1 THEN ((n + 1) - (m + 1)) + 1 ELSE 0
            /\ \A i \in 1..(((n + 1) - (m + 1)) + 1) : SubSeq(q, m + 1, n + 1)[i] = q[((m + 1) + i) - 1]
        BY <3>1, <4>1, SubSeqProperties
      <4>3. \A i \in Int : ((m + 1) + i) - 1 = m + i
        BY <2>2
      <4>4. ((n + 1) - (m + 1)) + 1 = (n - m) + 1 /\ m + 1 =< n + 1
        BY <1>1, <2>2
      <4>5. ASSUME NEW i \in 1..((n - m) + 1) PROVE Window(q)[i] = q[m + i]
        <5>1. i \in 1..(((n + 1) - (m + 1)) + 1) /\ i \in Int
          BY <4>4, <4>5, <1>1, <2>2
        <5>2. SubSeq(q, m + 1, n + 1)[i] = q[((m + 1) + i) - 1]
          BY <4>2, <5>1, Zenon
        <5>3. ((m + 1) + i) - 1 = m + i
          BY <4>3, <5>1
        <5> QED
          BY <2>4, <5>2, <5>3, Zenon
      <4>6. Len(SubSeq(q, m + 1, n + 1)) = (n - m) + 1
        BY <4>2, <4>4, Zenon
      <4> QED
        BY <2>4, <4>2, <4>5, <4>6, Zenon
    <3>3. \A i \in (m + 1)..n : r[i] \in Int
      BY <1>1, <1>3, <2>2
    <3>4. /\ Tail(w) \in Seq(Int) /\ Len(Tail(w)) = n - m
          /\ \A i \in 1..(n - m) : Tail(w)[i] = r[m + i]
      <4>1. n \in Int /\ m + 1 \in Int
        BY <1>1, <2>2
      <4>2. /\ SubSeq(r, m + 1, n) \in Seq(Int)
            /\ Len(SubSeq(r, m + 1, n)) = IF m + 1 =< n THEN (n - (m + 1)) + 1 ELSE 0
            /\ \A i \in 1..((n - (m + 1)) + 1) : SubSeq(r, m + 1, n)[i] = r[((m + 1) + i) - 1]
        BY <3>3, <4>1, SubSeqProperties
      <4>3. \A i \in Int : ((m + 1) + i) - 1 = m + i
        BY <2>2
      <4>4. (n - (m + 1)) + 1 = n - m /\ (m + 1 =< n \/ n - m = 0)
        BY <1>1, <2>2
      <4>5. ASSUME NEW i \in 1..(n - m) PROVE Tail(w)[i] = r[m + i]
        <5>1. i \in 1..((n - (m + 1)) + 1) /\ i \in Int
          BY <4>4, <4>5, <1>1, <2>2
        <5>2. SubSeq(r, m + 1, n)[i] = r[((m + 1) + i) - 1]
          BY <4>2, <5>1, Zenon
        <5>3. ((m + 1) + i) - 1 = m + i
          BY <4>3, <5>1
        <5> QED
          BY <2>5, <5>2, <5>3, Zenon
      <4>6. Len(SubSeq(r, m + 1, n)) = n - m
        <5>1. n - m \in Int
          BY <1>1, <2>2
        <5>2. CASE m + 1 =< n
          BY <4>2, <4>4, <5>2, Zenon
        <5>3. CASE ~(m + 1 =< n)
          BY <4>2, <4>4, <5>3, Zenon
        <5> QED
          BY <5>2, <5>3, Zenon
      <4> QED
        BY <2>5, <4>2, <4>5, <4>6, Zenon
    <3>5. /\ Append(Tail(w), v) \in Seq(Int) /\ Len(Append(Tail(w), v)) = (n - m) + 1
          /\ \A i \in 1..(n - m) : Append(Tail(w), v)[i] = Tail(w)[i]
          /\ Append(Tail(w), v)[(n - m) + 1] = v
      BY <3>4, AppendProperties
    <3>6. ASSUME NEW i \in 1..((n - m) + 1) PROVE Window(q)[i] = Append(Tail(w), v)[i]
      <4>1. CASE i =< n - m
        <5>1. i \in 1..(n - m) /\ (m + i) \in 1..n
          BY <1>1, <2>2, <4>1
        <5> QED
          BY <1>2, <3>2, <3>4, <3>5, <5>1
      <4>2. CASE i = (n - m) + 1
        <5>1. m + i = n + 1
          BY <1>1, <2>2, <4>2
        <5> QED
          BY <1>2, <3>2, <3>5, <4>2, <5>1
      <4>3. n \in Int /\ m \in Int /\ i \in Int /\ i =< (n - m) + 1
        BY <1>1, <2>2, <3>6
      <4>4. i =< n - m \/ i = (n - m) + 1
        BY <4>3
      <4> QED
        BY <4>1, <4>2, <4>4, Zenon
    <3> QED
      BY <3>2, <3>5, <3>6, SeqEqual
  <2>8. r[m] \in Int /\ Tail(w) \in Seq(Int) /\ Sum(w) = r[m] + Sum(Tail(w))
    <3> HIDE DEF w, m
    <3> QED
      BY <1>3, <2>2, <2>5, <2>6, HeadTailProperties, SumTail
  <2>9. /\ Sum(Tail(w)) \in Int
        /\ Sum(Append(Tail(w), v)) = Sum(Tail(w)) + v
    <3> HIDE DEF w
    <3> QED
      BY <2>8, SumAppend
  <2>10. PICK a \in Int, b \in Int : a = r[m] /\ b = Sum(Tail(w))
    BY <2>8, <2>9
  <2>11. Sum(Window(r)) = a + b /\ Sum(Window(q)) = b + v
    BY <2>3, <2>7, <2>8, <2>9, <2>10, Zenon
  <2>12. Sum(Window(q)) = (Sum(Window(r)) - a) + v
    BY <2>11
  <2> QED
    BY <1>1, <1>5, <2>8, <2>10, <2>11, <2>12
<1> QED
  BY <1>1, <1>4, <1>5

(* The ring holds the newest readings, each where its number says, zeros   *)
(* where none has come yet, and its index is where the oldest leaves.      *)
Placed(r, ring) ==
  /\ ring \in [0..(BUFFER_SIZE - 1) -> Int]
  /\ \A p \in 1..Len(r) : p > Len(r) - BUFFER_SIZE => ring[(p - 1) % BUFFER_SIZE] = r[p]
  /\ \A k \in 0..(BUFFER_SIZE - 1) : k >= Len(r) => ring[k] = 0

Ring ==
  LET r == got["moving"]
  IN /\ r \in Seq(Int)
     /\ index = Len(r) % BUFFER_SIZE
     /\ count = Min({Len(r), BUFFER_SIZE})
     /\ sum = Sum(Window(r))
     /\ Placed(r, buffer)

(* What falls out of the ring is what leaves the window, and nothing       *)
(* before the ring is full.                                                *)
LEMMA OldestLeaves ==
  ASSUME BUFFER_SIZE \in Nat \ {0}, NEW r \in Seq(Int), NEW ring, Placed(r, ring)
  PROVE  ring[Len(r) % BUFFER_SIZE] =
           IF Len(r) < BUFFER_SIZE THEN 0 ELSE r[Len(r) - BUFFER_SIZE + 1]
<1>1. PICK n \in Nat : n = Len(r)
  BY LenProperties
<1>2. CASE n < BUFFER_SIZE
  <2>1. n % BUFFER_SIZE = n
    <3>1. n \in 0..(BUFFER_SIZE - 1) /\ (BUFFER_SIZE * 0) + n = n
      BY <1>2
    <3> QED
      BY <3>1, Remainder
  <2>2. n \in 0..(BUFFER_SIZE - 1) /\ n >= n
    BY <1>2
  <2> QED
    BY <1>1, <1>2, <2>1, <2>2 DEF Placed
<1>3. CASE n >= BUFFER_SIZE
  <2>1. (n - BUFFER_SIZE) % BUFFER_SIZE = n % BUFFER_SIZE
    BY <1>3, RingBack
  <2>2. PICK p \in 1..n : p = n - BUFFER_SIZE + 1
    BY <1>3
  <2>3. p > n - BUFFER_SIZE /\ p - 1 = n - BUFFER_SIZE
    BY <2>2
  <2>4. ring[(p - 1) % BUFFER_SIZE] = r[p]
    BY <1>1, <2>3 DEF Placed
  <2> QED
    BY <1>1, <1>3, <2>1, <2>2, <2>3, <2>4
<1> QED
  BY <1>2, <1>3

LEMMA PlacedNext ==
  ASSUME BUFFER_SIZE \in Nat \ {0}, NEW r \in Seq(Int), NEW v \in Int, NEW ring, Placed(r, ring)
  PROVE  Placed(Append(r, v), [ring EXCEPT ![Len(r) % BUFFER_SIZE] = v])
<1> DEFINE q == Append(r, v)
           next == [ring EXCEPT ![Len(r) % BUFFER_SIZE] = v]
<1>1. PICK n \in Nat : n = Len(r)
  BY LenProperties
<1>2. Len(q) = n + 1 /\ (\A p \in 1..n : q[p] = r[p]) /\ q[n + 1] = v
  BY <1>1, AppendProperties
<1>3. PICK i \in 0..(BUFFER_SIZE - 1) : i = n % BUFFER_SIZE
  BY Division
<1>4. next = [ring EXCEPT ![i] = v] /\ ring \in [0..(BUFFER_SIZE - 1) -> Int]
  BY <1>1, <1>3 DEF Placed
<1> HIDE DEF q, next
<1>5. next[i] = v /\ \A k \in 0..(BUFFER_SIZE - 1) : k # i => next[k] = ring[k]
  BY <1>4
<1>6. ASSUME NEW p \in 1..(n + 1), p > (n + 1) - BUFFER_SIZE
      PROVE  next[(p - 1) % BUFFER_SIZE] = q[p]
  <2>1. CASE p = n + 1
    <3>1. p - 1 = n
      BY <2>1
    <3> QED
      BY <1>2, <1>3, <1>5, <2>1, <3>1
  <2>2. CASE p # n + 1
    <3>1. /\ p \in 1..n /\ p > n - BUFFER_SIZE
          /\ p - 1 \in Nat /\ p - 1 < n /\ n - (p - 1) < BUFFER_SIZE
      BY <1>6, <2>2
    <3>2. (p - 1) % BUFFER_SIZE # i
      BY <1>3, <3>1, RingApart
    <3>3. (p - 1) % BUFFER_SIZE \in 0..(BUFFER_SIZE - 1)
      BY <3>1, Division
    <3>4. ring[(p - 1) % BUFFER_SIZE] = r[p]
      BY <1>1, <3>1 DEF Placed
    <3> QED
      BY <1>2, <1>5, <3>1, <3>2, <3>3, <3>4
  <2> QED
    BY <2>1, <2>2
<1>7. ASSUME NEW k \in 0..(BUFFER_SIZE - 1), k >= n + 1 PROVE next[k] = 0
  <2>1. n \in 0..(BUFFER_SIZE - 1) /\ (BUFFER_SIZE * 0) + n = n
    BY <1>7
  <2>2. i = n
    BY <1>3, <2>1, Remainder
  <2>3. k # i /\ k >= n
    BY <1>7, <2>2
  <2> QED
    BY <1>1, <1>5, <2>3 DEF Placed
<1>8. next \in [0..(BUFFER_SIZE - 1) -> Int]
  BY <1>4
<1> QED
  BY <1>2, <1>6, <1>7, <1>8 DEF Placed, q, next

LEMMA AverageKeepsRing ==
  ASSUME SizeAssumption, Conserving, Ring, moving_avg_task
  PROVE  Ring'
<1> DEFINE r == got["moving"]
           v == Head(tempQueue).value
           q == Append(r, v)
           B == BUFFER_SIZE
<1>1. B \in Nat \ {0} /\ Values \subseteq Int
  BY DEF SizeAssumption, Values
<1>2. v \in Int
  <2>1. tempQueue # <<>>
    BY RunningReceives DEF moving_avg_task, Averagers
  <2>2. Head(tempQueue) \in [n : Nat, value : Values]
    BY <2>1, HeadTailProperties DEF Conserving
  <2> QED
    BY <1>1, <2>2
<1>3. r \in Seq(Int) /\ index = Len(r) % B /\ count = Min({Len(r), B})
      /\ sum = Sum(Window(r)) /\ Placed(r, buffer)
  BY DEF Ring
<1>4. got'["moving"] = q
  BY DEF moving_avg_task, Conserving, Averagers
<1>5. q \in Seq(Int) /\ Len(q) = Len(r) + 1 /\ Len(r) \in Nat
  BY <1>2, <1>3, AppendProperties, LenProperties
<1>6. /\ count' = Min({count + 1, B})
      /\ sum' = (sum - buffer[index]) + v
      /\ buffer' = [buffer EXCEPT ![index] = v]
      /\ index' = (index + 1) % B
  BY DEF moving_avg_task
<1>7. index' = Len(q) % B
  BY <1>1, <1>3, <1>5, <1>6, RingNext
<1>8. count' = Min({Len(q), B})
  <2> HIDE DEF r, q, v
  <2>1. count = IF Len(r) =< B THEN Len(r) ELSE B
    BY <1>1, <1>3, <1>5, MinOfTwo
  <2>2. count \in Int
    BY <1>1, <1>5, <2>1
  <2>3. count' = IF count + 1 =< B THEN count + 1 ELSE B
    BY <1>1, <1>6, <2>2, MinOfTwo
  <2>4. Min({Len(q), B}) = IF Len(q) =< B THEN Len(q) ELSE B
    BY <1>1, <1>5, MinOfTwo
  <2> QED
    BY <1>1, <1>5, <2>1, <2>3, <2>4
<1>9. sum' = Sum(Window(q))
  <2> HIDE DEF r, v
  <2>1. buffer[index] = IF Len(r) < B THEN 0 ELSE r[Len(r) - B + 1]
    BY <1>1, <1>3, OldestLeaves
  <2>2. Sum(Window(r)) \in Int
    BY <1>1, <1>2, <1>3, WindowSum
  <2>3. CASE Len(r) < B
    <3>1. Sum(Window(q)) = Sum(Window(r)) + v
      BY <1>1, <1>2, <1>3, <2>3, WindowSum
    <3>2. buffer[index] = 0
      BY <2>1, <2>3
    <3> HIDE DEF q
    <3> QED
      BY <1>2, <1>3, <1>6, <2>2, <3>1, <3>2
  <2>4. CASE Len(r) >= B
    <3>1. Sum(Window(q)) = (Sum(Window(r)) - r[Len(r) - B + 1]) + v
      BY <1>1, <1>2, <1>3, <2>4, WindowSum
    <3>2. ~(Len(r) < B)
      BY <1>1, <1>5, <2>4
    <3>3. buffer[index] = r[Len(r) - B + 1]
      BY <2>1, <3>2
    <3> HIDE DEF q
    <3> QED
      BY <1>3, <1>6, <3>1, <3>3
  <2> QED
    BY <1>1, <1>5, <2>3, <2>4
<1>10. Placed(q, buffer')
  <2>1. buffer' = [buffer EXCEPT ![Len(r) % B] = v]
    BY <1>3, <1>6
  <2>2. Placed(q, [buffer EXCEPT ![Len(r) % B] = v])
    <3> HIDE DEF r, v
    <3> QED
      BY <1>1, <1>2, <1>3, PlacedNext
  <2> HIDE DEF r, q, v
  <2> QED
    BY <2>1, <2>2
<1>11. Placed(r, buffer)'
  <2>1. r' = q
    BY <1>4
  <2> HIDE DEF r, q
  <2> QED
    BY <1>10, <2>1 DEF Placed
<1>12. r' \in Seq(Int) /\ index' = Len(r') % B /\ count' = Min({Len(r'), B})
       /\ sum' = Sum(Window(r'))
  <2>1. r' = q
    BY <1>4
  <2> HIDE DEF r, q
  <2> QED
    BY <1>5, <1>7, <1>8, <1>9, <2>1
<1> QED
  BY <1>11, <1>12 DEF Ring

(* The moving average is the mean of the readings in the window, through   *)
(* every wrap of the ring (picow_freertos_ping.c 98-116).                  *)
THEOREM MeanOfLast ==
  ASSUME SizeAssumption
  PROVE  Spec => []MovingIsMeanOfLast
<1>1. Init => Ring
  <2> SUFFICES ASSUME Init PROVE Ring
    OBVIOUS
  <2>1. BUFFER_SIZE \in Nat \ {0} /\ got["moving"] = <<>>
    BY DEF SizeAssumption, Init, Averagers
  <2>2. /\ Len(<<>>) = 0 /\ <<>> \in Seq(Int)
        /\ Min({0, BUFFER_SIZE}) = 0 /\ 0 % BUFFER_SIZE = 0
    <3>1. (BUFFER_SIZE * 0) + 0 = 0 /\ 0 \in 0..(BUFFER_SIZE - 1) /\ 0 =< BUFFER_SIZE
      BY <2>1
    <3>2. 0 % BUFFER_SIZE = 0
      BY <2>1, <3>1, Remainder
    <3>3. Min({0, BUFFER_SIZE}) = 0
      BY <2>1, <3>1, MinOfTwo
    <3> QED
      BY <3>2, <3>3, EmptySeq
  <2>3. Window(<<>>) = <<>>
    <3>1. (0 - 0) + 1 = 1 /\ SubSeq(<<>>, 1, 0) = <<>>
      BY SubSeqEmpty
    <3> QED
      BY <2>2, <3>1 DEF Window
  <2>4. Placed(<<>>, buffer)
    BY <2>1, <2>2 DEF Placed, Init
  <2> QED
    BY <2>1, <2>2, <2>3, <2>4, SumEmpty DEF Ring, Init
<1>2. Conserving /\ Ring /\ [Next]_vars => Ring'
  <2> SUFFICES ASSUME Conserving, Ring, [Next]_vars PROVE Ring'
    OBVIOUS
  <2>1. CASE moving_avg_task
    BY <2>1, AverageKeepsRing
  <2>2. CASE UNCHANGED <<buffer, index, count, sum>> /\ got'["moving"] = got["moving"]
    BY <2>2 DEF Ring, Placed, Window
  <2>3. CASE simple_avg_task
    <3>1. UNCHANGED <<buffer, index, count, sum>> /\ got'["moving"] = got["moving"]
      BY <2>3 DEF simple_avg_task, moving, Conserving, Averagers
    <3> QED
      BY <2>2, <3>1
  <2>4. CASE ~moving_avg_task /\ ~simple_avg_task
    <3>1. UNCHANGED <<buffer, index, count, sum, got>>
      BY <2>4 DEF Next, temp_task, print_task, Read, SendReading,
         SendMessage, Wake, ReceiveLine, PrintLine, moving, vars
    <3> QED
      BY <2>2, <3>1
  <2> QED
    BY <2>1, <2>3, <2>4
<1>3. Ring => MovingIsMeanOfLast
  BY DEF Ring, Window, MovingIsMeanOfLast
<1> QED
  BY <1>1, <1>2, <1>3, ConservingHolds, PTL DEF Spec
=============================================================================
