----------------------------- MODULE JobThreadProofs -----------------------------
(***************************************************************************)
(* Proofs about JobThread: the ring of each thread is a queue, for every    *)
(* capacity and counter size; the indices of Run stay in its local table;   *)
(* and no thread refers to a list that was deleted, as long as the counters *)
(* of its ring have not wrapped around.                                     *)
(***************************************************************************)
EXTENDS JobThread, WellFoundedInduction, SequenceTheorems, TLAPS

\* A ring: the counters delimit what was added, the slots hold it, and a thread that is
\* copying an entry finds one.
Ring(t) ==
    /\ Len(added[t]) <= Capacity
    /\ lastJobList[t] = (firstJobList[t] + Len(added[t])) % CounterSize
    /\ \A i \in 1 .. Len(added[t]) :
           slots[t][(firstJobList[t] + i - 1) % Capacity] = added[t][i]
    /\ tpc[t] \in {"copy", "advance"} => added[t] # <<>>

\* Owners inside AddJobList: one at a time in each ring, with the slot written but
\* not yet counted.
Adding(l) ==
    /\ opc[l] \in {"lock", "room", "publish", "signal"} => todo[l] # <<>>
    /\ opc[l] = "publish" =>
           LET t == Head(todo[l]) IN
           /\ Len(added[t]) < Capacity
           /\ slots[t][lastJobList[t] % Capacity] = [list |-> l, version |-> version[l]]
    /\ \A m \in Lists, t \in Threads : HoldsMutex(l, t) /\ HoldsMutex(m, t) => l = m

\* The local table of Run and the indices into it.
TableKept(t) ==
    /\ Len(table[t]) <= Capacity
    /\ stalled[t] <= Len(table[t])
    /\ tpc[t] \in {"asleep", "returned"} => table[t] = <<>>
    /\ tpc[t] = "copy" => Len(table[t]) < Capacity
    /\ tpc[t] \in {"advance", "choose", "enter", "inside", "job"} => table[t] # <<>>
    /\ tpc[t] \in {"enter", "inside", "job"} => current[t] \in 1 .. Len(table[t])

\* Holds whether the counters wrap around or not.
IInv ==
    /\ TypeOK
    /\ \A t \in Threads : Ring(t) /\ TableKept(t)
    /\ \A l \in Lists : Adding(l)

\* What a thread without work may still refer to is about to be signalled, so
\* that a thread an owner has waited for refers to nothing of the owner's.
Referenced(t) ==
    /\ workerDone[t] => tpc[t] = "asleep" /\ ~moreWorkToDo[t]
    /\ tpc[t] \in {"asleep", "returned"} /\ ~moreWorkToDo[t] =>
           \A l \in Known(t) : opc[l] = "signal" /\ Head(todo[l]) = t
    /\ \A l \in Known(t) :
           /\ opc[l] # "freed"
           /\ opc[l] = "freeing" => \E i \in DOMAIN todo[l] : todo[l][i] = t
UseInv == \A t \in Threads : Referenced(t)

\* No ring counter has wrapped around: less than 2^32 submissions to a thread.
NoWrapAround == \A t \in Threads : firstJobList[t] <= lastJobList[t]

-----------------------------------------------------------------------------
(* Arithmetic of the counters.                                             *)

\* Division with remainder, and that it is unique.
LEMMA Division ==
    ASSUME NEW a \in Int, NEW n \in Nat \ {0}
    PROVE  a \div n \in Int /\ a % n \in 0 .. n - 1 /\ a = n * (a \div n) + (a % n)
OBVIOUS

LEMMA Remainder ==
    ASSUME NEW q \in Int, NEW n \in Nat \ {0}, NEW r \in 0 .. n - 1
    PROVE  (n * q + r) % n = r
OBVIOUS

LEMMA SmallRemainder ==
    ASSUME NEW n \in Nat \ {0}, NEW r \in 0 .. n - 1
    PROVE  r % n = r
BY Remainder, n * 0 + r = r

\* What is added to equal remainders leaves equal remainders.
LEMMA Shift ==
    ASSUME NEW a \in Int, NEW b \in Int, NEW k \in Int, NEW n \in Nat \ {0}, a % n = b % n
    PROVE  (a + k) % n = (b + k) % n
<1> DEFINE p == a \div n
           q == b \div n
           d == ((a % n) + k) \div n
           r == ((a % n) + k) % n
<1>1. p \in Int /\ q \in Int /\ a = n * p + (a % n) /\ b = n * q + (a % n) /\ a % n \in Int
  BY Division
<1>2. d \in Int /\ r \in 0 .. n - 1 /\ (a % n) + k = n * d + r
  <2>1. (a % n) + k \in Int
    BY <1>1
  <2> QED BY <2>1, Division
<1> HIDE DEF p, q, d, r
<1>3. a + k = n * (p + d) + r /\ b + k = n * (q + d) + r
  BY <1>1, <1>2
<1>4. p + d \in Int /\ q + d \in Int
  BY <1>1, <1>2
<1> QED
  BY <1>2, <1>3, <1>4, Remainder

\* The remainder may be taken on the way: a counter that wraps around at a multiple of
\* the capacity names the slot it would name if it did not.
LEMMA Nested ==
    ASSUME NEW a \in Int, NEW n \in Nat \ {0}, NEW m \in Nat \ {0}, m % n = 0
    PROVE  (a % m) % n = a % n
<1> DEFINE p == m \div n
           q == a \div m
           b == a % m
           d == b \div n
           r == b % n
<1>1. p \in Int /\ m = n * p
  <2>1. m \in Int /\ m = n * p + (m % n) /\ p \in Int
    BY Division
  <2> QED BY <2>1
<1>2. q \in Int /\ b \in Int /\ a = m * q + b
  BY Division
<1>3. d \in Int /\ r \in 0 .. n - 1 /\ b = n * d + r
  BY <1>2, Division
<1> HIDE DEF p, q, d, r, b
<1>4. m * q = n * (p * q) /\ p * q \in Int
  BY <1>1, <1>2
<1>5. a = n * (p * q + d) + r /\ p * q + d \in Int
  BY <1>2, <1>3, <1>4
<1>6. a % n = r
  BY <1>3, <1>5, Remainder
<1> QED
  BY <1>6 DEF r, b

\* A window of n counters names n slots.
LEMMA Distinct ==
    ASSUME NEW a \in Int, NEW n \in Nat \ {0}, NEW i \in 0 .. n - 1, NEW j \in 0 .. n - 1,
           (a + i) % n = (a + j) % n
    PROVE  i = j
<1>1. ((a + i) + (0 - a)) % n = ((a + j) + (0 - a)) % n
  BY Shift, a + i \in Int, a + j \in Int, 0 - a \in Int, ZenonT(30)
<1>2. (a + i) + (0 - a) = i /\ (a + j) + (0 - a) = j
  OBVIOUS
<1>3. i % n = j % n
  BY <1>1, <1>2
<1> QED
  BY <1>3, SmallRemainder

LEMMA Sizes ==
    /\ Capacity \in Nat \ {0} /\ CounterSize \in Nat \ {0}
    /\ CounterSize % Capacity = 0 /\ Capacity < CounterSize
BY JobThreadAssumption

\* A step from a wrapped counter.
LEMMA ShiftWrapped ==
    ASSUME NEW a \in Int, NEW k \in Int, NEW n \in Nat \ {0}
    PROVE  ((a % n) + k) % n = (a + k) % n
<1>1. a % n \in 0 .. n - 1 /\ a % n \in Int
  BY Division
<1>2. (a % n) % n = a % n
  BY <1>1, SmallRemainder
<1> DEFINE b == a % n
<1>3. b \in Int /\ b % n = a % n
  BY <1>1, <1>2
<1> HIDE DEF b
<1>4. (b + k) % n = (a + k) % n
  BY <1>3, Shift
<1> QED
  BY <1>4 DEF b

LEMMA NestedShift ==
    ASSUME NEW a \in Int, NEW k \in Int, NEW n \in Nat \ {0}, NEW m \in Nat \ {0}, m % n = 0
    PROVE  ((a % m) + k) % n = (a + k) % n
<1> DEFINE b == a % m
<1>1. b \in Int
  BY Division
<1>2. b % n = a % n
  BY Nested
<1> HIDE DEF b
<1>3. (b + k) % n = (a + k) % n
  BY <1>1, <1>2, Shift, ZenonT(30)
<1> QED
  BY <1>3 DEF b

LEMMA SlotShift ==
    ASSUME NEW a \in Int, NEW k \in Int
    PROVE  ((a % CounterSize) + k) % Capacity = (a + k) % Capacity
<1>1. Capacity \in Nat \ {0}
  BY Sizes
<1>2. CounterSize \in Nat \ {0}
  BY Sizes
<1>3. CounterSize % Capacity = 0
  BY Sizes
<1> QED
  BY <1>1, <1>2, <1>3, NestedShift, ZenonT(30)

\* A counter moved on k places from f by wrapping steps.
LEMMA Wrapped ==
    ASSUME NEW f \in Int, NEW k \in Int
    PROVE  /\ (f + k) % CounterSize \in 0 .. CounterSize - 1
           /\ (((f + k) % CounterSize) + 1) % CounterSize = (f + (k + 1)) % CounterSize
           /\ (((f + 1) % CounterSize) + (k - 1)) % CounterSize = (f + k) % CounterSize
           /\ ((f + k) % CounterSize) % Capacity = (f + k) % Capacity
<1>1. f + k \in Int /\ f + 1 \in Int /\ k - 1 \in Int
  OBVIOUS
<1>2. (f + k) + 1 = f + (k + 1) /\ (f + 1) + (k - 1) = f + k
  OBVIOUS
<1>3. (f + k) % CounterSize \in 0 .. CounterSize - 1
  BY <1>1, Sizes, Division
<1>4. (((f + k) % CounterSize) + 1) % CounterSize = ((f + k) + 1) % CounterSize
  BY <1>1, Sizes, ShiftWrapped, 1 \in Int, ZenonT(30)
<1>5. (((f + 1) % CounterSize) + (k - 1)) % CounterSize = ((f + 1) + (k - 1)) % CounterSize
  BY <1>1, Sizes, ShiftWrapped, ZenonT(30)
<1>6. ((f + k) % CounterSize) % Capacity = (f + k) % Capacity
  BY <1>1, Sizes, Nested
<1> QED
  BY <1>2, <1>3, <1>4, <1>5, <1>6

\* The difference of the counters is what is in the ring.
LEMMA MinusIsLength ==
    ASSUME NEW f \in 0 .. CounterSize - 1, NEW k \in 0 .. Capacity
    PROVE  Minus((f + k) % CounterSize, f) = k
<1> DEFINE u == (f + k) % CounterSize
<1>1. f \in Int /\ f + k \in Int /\ 0 - f \in Int /\ k \in 0 .. CounterSize - 1
  BY Sizes
<1>2. u \in Int
  BY <1>1, Wrapped, Sizes
<1>3. (u + (0 - f)) % CounterSize = ((f + k) + (0 - f)) % CounterSize
  BY <1>1, Sizes, ShiftWrapped
<1> HIDE DEF u
<1>4. (f + k) + (0 - f) = k /\ u + (0 - f) = u - f
  BY <1>1, <1>2
<1>5. (u - f) % CounterSize = k
  BY <1>1, <1>3, <1>4, Sizes, SmallRemainder
<1> QED
  BY <1>5 DEF Minus, u

\* The slot of the i-th entry behind a counter that has just been moved on.
LEMMA SlotMoved ==
    ASSUME NEW f \in Int, NEW i \in Int
    PROVE  (((f + 1) % CounterSize) + i - 1) % Capacity = (f + (i + 1) - 1) % Capacity
<1> DEFINE j == i - 1
<1>1. f + 1 \in Int /\ j \in Int
  OBVIOUS
<1>2. (((f + 1) % CounterSize) + j) % Capacity = ((f + 1) + j) % Capacity
  <2> DEFINE w == f + 1
  <2>1. w \in Int
    OBVIOUS
  <2> HIDE DEF j, w
  <2>2. ((w % CounterSize) + j) % Capacity = (w + j) % Capacity
    BY <1>1, <2>1, SlotShift
  <2> QED BY <2>2 DEF w
<1>3. (f + 1) % CounterSize \in Int
  BY <1>1, Sizes, Division
<1> DEFINE v == (f + 1) % CounterSize
<1> HIDE DEF v
<1>4. v + i - 1 = v + j /\ f + (i + 1) - 1 = (f + 1) + j
  BY <1>3 DEF v
<1> QED
  BY <1>2, <1>4 DEF v

-----------------------------------------------------------------------------
(* The operators of the local table.                                       *)

\* A set of numbers has a least and, if it is bounded, a greatest element.
LEMMA LeastElement ==
    ASSUME NEW T \in SUBSET Nat, T # {}
    PROVE  \E n \in T : \A m \in T : n <= m
<1>1. PICK n \in T : \A m \in T : <<m, n>> \notin OpToRel(<, Nat)
  BY NatLessThanWellFounded, WFMin
<1>2. \A m \in T : ~(m < n)
  BY <1>1 DEF OpToRel
<1> QED
  BY <1>2

LEMMA GreatestElement ==
    ASSUME NEW B \in Nat, NEW T \in SUBSET (1 .. B), T # {}
    PROVE  \E n \in T : \A m \in T : m <= n
<1> DEFINE D == {B - m : m \in T}
<1>1. D \in SUBSET Nat /\ D # {}
  <2>1. \A m \in T : B - m \in Nat
    OBVIOUS
  <2>2. \A d \in D : d \in Nat
    BY <2>1
  <2> QED BY <2>2
<1>2. PICK d \in D : \A e \in D : d <= e
  <2> HIDE DEF D
  <2> QED BY <1>1, LeastElement
<1>3. PICK n \in T : d = B - n
  OBVIOUS
<1>4. \A m \in T : B - n <= B - m
  BY <1>2, <1>3
<1> QED
  BY <1>3, <1>4

\* RUN_DONE shifts the entries behind the removed one down.
LEMMA RemoveAtKeeps ==
    ASSUME NEW S, NEW s \in Seq(S), NEW i \in 1 .. Len(s)
    PROVE  /\ RemoveAt(s, i) \in Seq(S) /\ Len(RemoveAt(s, i)) = Len(s) - 1
           /\ \A k \in 1 .. Len(s) - 1 : \E j \in 1 .. Len(s) : RemoveAt(s, i)[k] = s[j]
<1> DEFINE n == Len(s)
           front == SubSeq(s, 1, i - 1)
           back == SubSeq(s, i + 1, n)
<1>1. n \in Nat /\ i \in Int /\ \A k \in 1 .. n : s[k] \in S
  OBVIOUS
<1>2. front \in Seq(S) /\ Len(front) = i - 1 /\ \A k \in 1 .. i - 1 : front[k] = s[k]
  BY <1>1, SubSeqProperties
<1>3. back \in Seq(S) /\ Len(back) = n - i /\ \A k \in 1 .. n - i : back[k] = s[i + k]
  <2>1. \A k \in i + 1 .. n : s[k] \in S
    BY <1>1
  <2> HIDE DEF n
  <2>2. /\ back \in Seq(S) /\ Len(back) = IF i + 1 <= n THEN n - (i + 1) + 1 ELSE 0
        /\ \A k \in 1 .. n - (i + 1) + 1 : back[k] = s[(i + 1) + k - 1]
    BY <2>1, <1>1, SubSeqProperties, i + 1 \in Int
  <2> HIDE DEF back
  <2>3. n - (i + 1) + 1 = n - i /\ i \in 1 .. n /\ \A k \in 1 .. n - i : (i + 1) + k - 1 = i + k
    BY <1>1 DEF n
  <2> QED BY <1>1, <2>2, <2>3
<1> DEFINE rest == front \o back
<1> HIDE DEF front, back
<1>4. /\ rest \in Seq(S) /\ Len(rest) = (i - 1) + (n - i)
      /\ \A k \in 1 .. (i - 1) + (n - i) : rest[k] = IF k <= i - 1 THEN front[k] ELSE back[k - (i - 1)]
  <2>1. /\ rest \in Seq(S) /\ Len(rest) = Len(front) + Len(back)
        /\ \A k \in 1 .. Len(front) + Len(back) : rest[k] =
               IF k <= Len(front) THEN front[k] ELSE back[k - Len(front)]
    BY <1>2, <1>3, ConcatProperties
  <2> HIDE DEF rest, n
  <2> QED BY <1>2, <1>3, <2>1
<1>5. RemoveAt(s, i) = rest
  BY DEF RemoveAt, front, back
<1> HIDE DEF rest
<1>6. \A k \in 1 .. n - 1 : \E j \in 1 .. n : rest[k] = s[j]
  <2> TAKE k \in 1 .. n - 1
  <2>1. CASE k <= i - 1
    <3>1. k \in 1 .. i - 1 /\ k \in 1 .. (i - 1) + (n - i) /\ k \in 1 .. n
      BY <2>1, <1>1
    <3> QED BY <2>1, <3>1, <1>2, <1>4
  <2>2. CASE ~(k <= i - 1)
    <3>1. /\ k - (i - 1) \in 1 .. n - i /\ k \in 1 .. (i - 1) + (n - i)
          /\ i + (k - (i - 1)) = k + 1 /\ k + 1 \in 1 .. n
      BY <2>2, <1>1
    <3> QED BY <2>2, <3>1, <1>3, <1>4
  <2> QED BY <2>1, <2>2
<1>7. (i - 1) + (n - i) = n - 1
  BY <1>1
<1> QED
  BY <1>4, <1>5, <1>6, <1>7

\* The list Run chooses when nothing is stalled is in the table.
LEMMA FirstBestInTable ==
    ASSUME NEW t \in Threads, table[t] \in Seq(Entry), table[t] # <<>>
    PROVE  FirstBest(t) \in 1 .. Len(table[t])
<1>1. Len(table[t]) \in Nat /\ 1 \in 1 .. Len(table[t])
  OBVIOUS
<1>2. Ready(t) \subseteq 1 .. Len(table[t])
  BY DEF Ready
<1>3. CASE Ready(t) = {}
  BY <1>1, <1>3 DEF FirstBest
<1>4. CASE Ready(t) # {}
  <2> DEFINE Best(i) == \A j \in Ready(t) \ {i} :
                 \/ PriorityOf(t, i) > PriorityOf(t, j)
                 \/ PriorityOf(t, i) = PriorityOf(t, j) /\ i < j
             OfPriority(p) == {i \in Ready(t) : PriorityOf(t, i) = p}
  <2>1. \A i \in Ready(t) : PriorityOf(t, i) \in 1 .. 3
    <3>0. \A i \in 1 .. Len(table[t]) : table[t][i] \in Entry
      BY ElementOfSeq
    <3>1. \A i \in Ready(t) : table[t][i].list \in Lists
      BY <3>0, <1>2 DEF Entry
    <3> QED BY <3>1, JobThreadAssumption DEF PriorityOf
  <2>2. PICK p \in 1 .. 3 : OfPriority(p) # {} /\ \A i \in Ready(t) : PriorityOf(t, i) <= p
    <3>1. CASE OfPriority(3) # {}
      BY <2>1, <3>1
    <3>2. CASE OfPriority(3) = {} /\ OfPriority(2) # {}
      BY <2>1, <3>2
    <3>3. CASE OfPriority(3) = {} /\ OfPriority(2) = {}
      BY <1>4, <2>1, <3>3
    <3> QED BY <3>1, <3>2, <3>3
  <2>3. PICK i \in OfPriority(p) : \A j \in OfPriority(p) : i <= j
    <3>1. OfPriority(p) \in SUBSET Nat
      BY <1>2
    <3> HIDE DEF OfPriority
    <3> QED BY <2>2, <3>1, LeastElement
  <2>4. Best(i)
    <3> SUFFICES ASSUME NEW j \in Ready(t) \ {i}
                 PROVE  \/ PriorityOf(t, i) > PriorityOf(t, j)
                        \/ PriorityOf(t, i) = PriorityOf(t, j) /\ i < j
      OBVIOUS
    <3>1. PriorityOf(t, i) = p /\ PriorityOf(t, j) <= p /\ PriorityOf(t, j) \in 1 .. 3
      BY <2>1, <2>2, <2>3
    <3>2. PriorityOf(t, j) = p => i <= j /\ i # j
      BY <2>3
    <3>3. i \in Nat /\ j \in Nat
      BY <1>2, <2>3
    <3> QED BY <3>1, <3>2, <3>3
  <2>5. i \in Ready(t)
    BY <2>3
  <2>6. FirstBest(t) = CHOOSE k \in Ready(t) : Best(k)
    BY <1>4 DEF FirstBest
  <2> HIDE DEF Best
  <2>7. FirstBest(t) \in Ready(t)
    BY <2>4, <2>5, <2>6
  <2> QED BY <2>7, <1>2
<1> QED
  BY <1>3, <1>4

\* So is the list Run chooses after a stall.
LEMMA LastReliefInTable ==
    ASSUME NEW t \in Threads, table[t] \in Seq(Entry), stalled[t] \in 1 .. Len(table[t])
    PROVE  LastRelief(t) \in 1 .. Len(table[t])
<1>1. Relief(t) \subseteq 1 .. Len(table[t]) /\ Len(table[t]) \in Nat
  BY DEF Relief, Ready
<1>2. CASE Relief(t) = {}
  BY <1>2 DEF LastRelief
<1>3. CASE Relief(t) # {}
  <2> DEFINE Best(i) == \A j \in Relief(t) \ {i} :
                 \/ PriorityOf(t, i) > PriorityOf(t, j)
                 \/ PriorityOf(t, i) = PriorityOf(t, j) /\ i > j
             OfPriority(p) == {i \in Relief(t) : PriorityOf(t, i) = p}
  <2>1. \A i \in Relief(t) : PriorityOf(t, i) \in 1 .. 3
    <3>0. \A i \in 1 .. Len(table[t]) : table[t][i] \in Entry
      BY ElementOfSeq
    <3>1. \A i \in Relief(t) : table[t][i].list \in Lists
      BY <3>0, <1>1 DEF Entry
    <3> QED BY <3>1, JobThreadAssumption DEF PriorityOf
  <2>2. PICK p \in 1 .. 3 : OfPriority(p) # {} /\ \A i \in Relief(t) : PriorityOf(t, i) <= p
    <3>1. CASE OfPriority(3) # {}
      BY <2>1, <3>1
    <3>2. CASE OfPriority(3) = {} /\ OfPriority(2) # {}
      BY <2>1, <3>2
    <3>3. CASE OfPriority(3) = {} /\ OfPriority(2) = {}
      BY <1>3, <2>1, <3>3
    <3> QED BY <3>1, <3>2, <3>3
  <2>3. PICK i \in OfPriority(p) : \A j \in OfPriority(p) : j <= i
    <3>1. OfPriority(p) \in SUBSET (1 .. Len(table[t]))
      BY <1>1
    <3> HIDE DEF OfPriority
    <3> QED BY <1>1, <2>2, <3>1, GreatestElement
  <2>4. Best(i)
    <3> SUFFICES ASSUME NEW j \in Relief(t) \ {i}
                 PROVE  \/ PriorityOf(t, i) > PriorityOf(t, j)
                        \/ PriorityOf(t, i) = PriorityOf(t, j) /\ i > j
      OBVIOUS
    <3>1. PriorityOf(t, i) = p /\ PriorityOf(t, j) <= p /\ PriorityOf(t, j) \in 1 .. 3
      BY <2>1, <2>2, <2>3
    <3>2. PriorityOf(t, j) = p => j <= i /\ i # j
      BY <2>3
    <3>3. i \in Nat /\ j \in Nat
      BY <1>1, <2>3
    <3> QED BY <3>1, <3>2, <3>3
  <2>5. i \in Relief(t)
    BY <2>3
  <2>6. LastRelief(t) = CHOOSE k \in Relief(t) : Best(k)
    BY <1>3 DEF LastRelief
  <2> HIDE DEF Best
  <2>7. LastRelief(t) \in Relief(t)
    BY <2>4, <2>5, <2>6
  <2> QED BY <2>7, <1>1
<1> QED
  BY <1>2, <1>3

-----------------------------------------------------------------------------
(* What steps leave alone.                                                 *)

LEMMA InitIInv == Init => IInv
<1> SUFFICES ASSUME Init PROVE IInv
  OBVIOUS
<1>1. ListTypeOK
  BY JobThreadAssumption DEF Init, ListTypeOK, OwnerLabels
<1>2. RingTypeOK
  BY Sizes DEF Init, RingTypeOK
<1>3. ThreadTypeOK
  BY DEF Init, ThreadTypeOK, ThreadLabels
<1>4. \A t \in Threads : added[t] = <<>> /\ table[t] = <<>> /\ Len(<<>>) = 0
  BY DEF Init
<1>5. \A t \in Threads : Ring(t)
  <2> TAKE t \in Threads
  <2>1. firstJobList[t] = 0 /\ lastJobList[t] = 0 /\ tpc[t] = "asleep"
    BY DEF Init
  <2>2. 0 + 0 = 0 /\ 0 \in 0 .. CounterSize - 1 /\ 0 % CounterSize = 0
    BY Sizes, SmallRemainder
  <2>3. 1 .. 0 = {} /\ 0 <= Capacity
    BY Sizes
  <2>4. lastJobList[t] = (firstJobList[t] + Len(added[t])) % CounterSize
    BY <1>4, <2>1, <2>2
  <2> QED BY <1>4, <2>1, <2>3, <2>4 DEF Ring
<1>6. \A t \in Threads : TableKept(t)
  <2> TAKE t \in Threads
  <2>1. stalled[t] = 0 /\ tpc[t] = "asleep"
    BY DEF Init
  <2> QED BY <1>4, <2>1, Sizes DEF TableKept
<1>7. \A l \in Lists : Adding(l)
  BY DEF Init, Adding, HoldsMutex
<1> QED
  BY <1>1, <1>2, <1>3, <1>5, <1>6, <1>7 DEF IInv, TypeOK

\* A step that touches neither rings nor threads.
LEMMA ThreadsUntouched ==
    ASSUME IInv, UNCHANGED <<ringVars, threadVars>>
    PROVE  /\ RingTypeOK' /\ \A t \in Threads : Ring(t)' /\ TableKept(t)'
           /\ moreWorkToDo' \in [Threads -> BOOLEAN] /\ workerDone' \in [Threads -> BOOLEAN]
                 => ThreadTypeOK'
BY DEF IInv, TypeOK, RingTypeOK, ThreadTypeOK, Ring, TableKept, ringVars, threadVars

\* A step of a thread that moves none of its counters: owners see nothing of it.
LEMMA OwnersUntouched ==
    ASSUME IInv, UNCHANGED <<ownerVars, version, slots, lastJobList, added>>
    PROVE  \A l \in Lists : Adding(l)'
BY DEF IInv, Adding, HoldsMutex, ownerVars

\* The thread of the next AddJobList.
LEMMA NextThread ==
    ASSUME TypeOK, NEW l \in Lists, todo[l] # <<>>
    PROVE  Head(todo[l]) \in Threads /\ Tail(todo[l]) \in Seq(Threads) /\ Len(todo[l]) \in Nat
           /\ (Len(todo[l]) # 1 => Tail(todo[l]) # <<>>)
<1> DEFINE q == todo[l]
<1>1. q \in Seq(Threads) /\ q # <<>>
  BY DEF TypeOK, ListTypeOK
<1> HIDE DEF q
<1>2. Head(q) \in Threads /\ Tail(q) \in Seq(Threads) /\ Len(Tail(q)) = Len(q) - 1 /\ Len(q) \in Nat
  BY <1>1, HeadTailProperties
<1>3. Tail(q) = <<>> => Len(q) = 1
  <2>1. Len(<<>>) = 0
    OBVIOUS
  <2>2. Tail(q) = <<>> => Len(q) - 1 = 0
    BY <1>2, <2>1
  <2> QED BY <1>2, <2>2
<1> QED
  BY <1>2, <1>3 DEF q

\* A ring delimits what was added.
LEMMA RingCounts ==
    ASSUME IInv, NEW t \in Threads
    PROVE  /\ added[t] \in Seq(Entry) /\ Len(added[t]) \in 0 .. Capacity
           /\ firstJobList[t] \in 0 .. CounterSize - 1 /\ firstJobList[t] \in Int
           /\ Minus(lastJobList[t], firstJobList[t]) = Len(added[t])
<1>1. /\ added[t] \in Seq(Entry) /\ Len(added[t]) \in 0 .. Capacity
      /\ firstJobList[t] \in 0 .. CounterSize - 1 /\ firstJobList[t] \in Int
      /\ lastJobList[t] = (firstJobList[t] + Len(added[t])) % CounterSize
  BY Sizes DEF IInv, TypeOK, RingTypeOK, Ring
<1> QED
  BY <1>1, MinusIsLength

-----------------------------------------------------------------------------
(* The steps of an owner.                                                  *)

LEMMA SubmitStep ==
    ASSUME IInv, NEW l \in Lists, NEW n \in 1 .. MaxJobs, NEW k \in 0 .. NumThreads, Submit(l, n, k)
    PROVE  IInv'
<1> DEFINE first == [i \in 1 .. k |-> i]
<1>1. first \in Seq(Threads) /\ Len(first) = k /\ (k # 0 => first # <<>>)
  BY JobThreadAssumption DEF Threads
<1>2. /\ todo' = [todo EXCEPT ![l] = first]
      /\ opc' = [opc EXCEPT ![l] = IF k = 0 THEN "submitted" ELSE "lock"]
      /\ left' = [left EXCEPT ![l] = IF k = 0 THEN 0 ELSE n]
      /\ waitForGuard' = [waitForGuard EXCEPT ![l] =
             IF WaitsFor[l] = None THEN <<>>
             ELSE <<WaitsFor[l], currentDoneGuard[WaitsFor[l]]>>]
      /\ currentDoneGuard' = [currentDoneGuard EXCEPT ![l] = (@ + 1) % NumDoneGuards]
      /\ doneGuards' = [doneGuards EXCEPT ![l][currentDoneGuard'[l]] = 1]
      /\ UNCHANGED <<version, busy, ringVars, workVars, threadVars>>
  BY DEF Submit, OwnerGoto
<1> HIDE DEF first
<1>3. TypeOK /\ NumDoneGuards \in Nat \ {0} /\ MaxJobs \in Nat
  BY JobThreadAssumption DEF IInv
<1>4. ListTypeOK'
  <2>1. todo' \in [Lists -> Seq(Threads)] /\ opc' \in [Lists -> OwnerLabels] /\ left' \in [Lists -> Int]
    BY <1>1, <1>2, <1>3, SMTT(30) DEF TypeOK, ListTypeOK, OwnerLabels
  <2>2. currentDoneGuard[l] \in 0 .. NumDoneGuards - 1 /\ currentDoneGuard[l] + 1 \in Int
    BY <1>3 DEF TypeOK, ListTypeOK
  <2>3. (currentDoneGuard[l] + 1) % NumDoneGuards \in 0 .. NumDoneGuards - 1
    BY <1>3, <2>2, Division
  <2>4. currentDoneGuard' \in [Lists -> 0 .. NumDoneGuards - 1]
    BY <1>2, <1>3, <2>3 DEF TypeOK, ListTypeOK
  <2>5. doneGuards' \in [Lists -> [0 .. NumDoneGuards - 1 -> Int]]
    BY <1>2, <1>3, <2>4, SMTT(30) DEF TypeOK, ListTypeOK
  <2>6. waitForGuard' \in [Lists -> {<<>>} \cup (Lists \X (0 .. NumDoneGuards - 1))]
    <3>1. WaitsFor[l] = None \/ WaitsFor[l] \in Lists
      BY JobThreadAssumption
    <3> QED BY <1>2, <1>3, <3>1 DEF TypeOK, ListTypeOK
  <2> QED BY <1>2, <1>3, <2>1, <2>4, <2>5, <2>6 DEF TypeOK, ListTypeOK
<1>5. UNCHANGED <<ringVars, workVars, threadVars, version>>
  BY <1>2
<1>6. RingTypeOK' /\ ThreadTypeOK' /\ \A t \in Threads : Ring(t)' /\ TableKept(t)'
  BY <1>3, <1>5, ThreadsUntouched DEF TypeOK, ThreadTypeOK, workVars
<1>7. \A m \in Lists : Adding(m)'
  BY <1>1, <1>2, <1>3 DEF IInv, Adding, HoldsMutex, TypeOK, ListTypeOK, ringVars
<1> QED
  BY <1>4, <1>6, <1>7 DEF IInv, TypeOK

LEMMA AddLockStep ==
    ASSUME IInv, NEW l \in Lists, AddLock(l)
    PROVE  IInv'
<1>1. /\ opc[l] = "lock" /\ \A m \in Lists : ~HoldsMutex(m, Head(todo[l]))
      /\ opc' = [opc EXCEPT ![l] = "room"]
      /\ UNCHANGED <<listVars, todo, ringVars, workVars, threadVars>>
  BY DEF AddLock, OwnerGoto
<1>2. TypeOK /\ \A m \in Lists : Adding(m)
  BY DEF IInv
<1>3. ListTypeOK'
  BY <1>1, <1>2 DEF TypeOK, ListTypeOK, OwnerLabels, listVars
<1>4. UNCHANGED <<ringVars, workVars, threadVars>>
  BY <1>1
<1>5. RingTypeOK' /\ ThreadTypeOK' /\ \A t \in Threads : Ring(t)' /\ TableKept(t)'
  BY <1>2, <1>4, ThreadsUntouched DEF TypeOK, ThreadTypeOK, workVars
<1>6. opc \in [Lists -> OwnerLabels] /\ UNCHANGED <<todo, version, added, slots, lastJobList>>
  BY <1>1, <1>2 DEF TypeOK, ListTypeOK, listVars, ringVars
<1>7. \A m \in Lists : Adding(m)'
  BY <1>1, <1>2, <1>6 DEF Adding, HoldsMutex
<1> QED
  BY <1>3, <1>5, <1>7 DEF IInv, TypeOK

LEMMA AddWriteStep ==
    ASSUME IInv, NEW l \in Lists, AddWrite(l)
    PROVE  IInv'
<1> DEFINE t == Head(todo[l])
           f == firstJobList[t]
           n == Len(added[t])
           e == [list |-> l, version |-> version[l]]
           at == lastJobList[t] % Capacity
<1>1. /\ opc[l] = "room" /\ RoomFor(t)
      /\ slots' = [slots EXCEPT ![t][at] = e]
      /\ opc' = [opc EXCEPT ![l] = "publish"]
      /\ UNCHANGED <<listVars, todo, firstJobList, lastJobList, added, workVars, threadVars>>
  BY DEF AddWrite, OwnerGoto
<1>2. TypeOK /\ \A m \in Lists : Adding(m)
  BY DEF IInv
<1>3. t \in Threads
  BY <1>1, <1>2, NextThread DEF Adding
<1> HIDE DEF t
<1>4. n \in 0 .. Capacity /\ n < Capacity /\ f \in Int /\ n \in Int
  BY <1>1, <1>3, RingCounts, Sizes DEF RoomFor
<1>5. lastJobList[t] = (f + n) % CounterSize /\ at = (f + n) % Capacity /\ at \in 0 .. Capacity - 1
  <2>1. lastJobList[t] = (f + n) % CounterSize
    BY <1>3 DEF IInv, Ring
  <2>2. at = (f + n) % Capacity
    BY <1>4, <2>1, Wrapped
  <2>3. f + n \in Int
    BY <1>4
  <2> QED BY <2>1, <2>2, <2>3, Sizes, Division
<1>6. e \in Entry
  BY <1>2 DEF TypeOK, ListTypeOK, Entry
<1>7. slots' \in [Threads -> [0 .. Capacity - 1 -> Entry \cup {NoEntry}]]
  <2> HIDE DEF e, at
  <2> QED BY <1>1, <1>2, <1>3, <1>5, <1>6 DEF TypeOK, RingTypeOK
<1>8. TypeOK'
  BY <1>1, <1>2, <1>7 DEF TypeOK, ListTypeOK, RingTypeOK, ThreadTypeOK, OwnerLabels, listVars,
                          workVars, threadVars
<1>9. slots'[t][at] = e /\ \A i \in 0 .. Capacity - 1 : i # at => slots'[t][i] = slots[t][i]
  <2>1. slots[t] \in [0 .. Capacity - 1 -> Entry \cup {NoEntry}]
    BY <1>2, <1>3 DEF TypeOK, RingTypeOK
  <2> HIDE DEF e, at
  <2> QED BY <1>1, <1>2, <1>3, <1>5, <2>1 DEF TypeOK, RingTypeOK
<1>10. \A u \in Threads \ {t} : slots'[u] = slots[u]
  BY <1>1, <1>2 DEF TypeOK, RingTypeOK
<1>11. \A i \in 1 .. n : (f + i - 1) % Capacity \in 0 .. Capacity - 1 /\ (f + i - 1) % Capacity # at
  <2> SUFFICES ASSUME NEW i \in 1 .. n
               PROVE  (f + i - 1) % Capacity \in 0 .. Capacity - 1 /\ (f + i - 1) % Capacity # at
    OBVIOUS
  <2> HIDE DEF f, n, at
  <2>1. f + i - 1 \in Int /\ i - 1 \in 0 .. Capacity - 1 /\ n \in 0 .. Capacity - 1 /\ i - 1 # n
    BY <1>4, Sizes
  <2>2. f + (i - 1) = f + i - 1
    BY <1>4
  <2>3. Capacity \in Nat \ {0}
    BY Sizes
  <2>4. (f + i - 1) % Capacity \in 0 .. Capacity - 1
    BY <2>1, <2>3, Division
  <2>5. (f + (i - 1)) % Capacity # (f + n) % Capacity
    BY <1>4, <2>1, <2>3, Distinct
  <2> QED BY <1>5, <2>2, <2>4, <2>5
<1>12. \A u \in Threads : Ring(u)'
  <2> SUFFICES ASSUME NEW u \in Threads PROVE Ring(u)'
    OBVIOUS
  <2>1. Ring(u) /\ UNCHANGED <<firstJobList, lastJobList, added, tpc>>
    BY <1>1 DEF IInv, threadVars
  <2>2. CASE u # t
    BY <1>10, <2>1, <2>2 DEF Ring
  <2>3. CASE u = t
    <3>1. \A i \in 1 .. n : slots'[t][(f + i - 1) % Capacity] = slots[t][(f + i - 1) % Capacity]
      BY <1>9, <1>11
    <3> QED BY <2>1, <2>3, <3>1 DEF Ring
  <2> QED BY <2>2, <2>3
<1>13. \A u \in Threads : TableKept(u)'
  BY <1>1 DEF IInv, TableKept, threadVars
<1>14. \A m \in Lists : opc'[m] = "publish" /\ m # l => Head(todo[m]) # t
  BY <1>1, <1>2, <1>3 DEF Adding, HoldsMutex, t, TypeOK, ListTypeOK
<1>15. \A m \in Lists : Adding(m)'
  <2> SUFFICES ASSUME NEW m \in Lists PROVE Adding(m)'
    OBVIOUS
  <2>1. UNCHANGED <<todo, version, added, lastJobList>> /\ opc \in [Lists -> OwnerLabels]
    BY <1>1, <1>2 DEF listVars, TypeOK, ListTypeOK
  <2>2. \A k \in Lists, u \in Threads : HoldsMutex(k, u)' = HoldsMutex(k, u)
    BY <1>1, <2>1 DEF HoldsMutex
  <2>3. opc'[m] \in {"lock", "room", "publish", "signal"} => todo'[m] # <<>>
    BY <1>1, <1>2, <2>1 DEF Adding
  <2>4. \A k \in Lists, u \in Threads : HoldsMutex(m, u)' /\ HoldsMutex(k, u)' => m = k
    BY <1>2, <2>2 DEF Adding
  <2>5. CASE m = l
    <3>1. Head(todo'[l]) = t
      BY <2>1 DEF t
    <3>2. Len(added'[t]) < Capacity /\ slots'[t][lastJobList'[t] % Capacity] = [list |-> l, version |-> version'[l]]
      BY <1>4, <1>9, <2>1
    <3> QED BY <2>3, <2>4, <2>5, <3>1, <3>2 DEF Adding
  <2>6. CASE m # l
    <3> DEFINE u == Head(todo[m])
    <3>1. opc'[m] = opc[m] /\ u = Head(todo'[m])
      BY <1>1, <2>1, <2>6
    <3>2. opc[m] = "publish" => u \in Threads \ {t}
      BY <1>2, <1>14, <2>6, <3>1, NextThread DEF Adding
    <3>3. opc[m] = "publish" => /\ Len(added[u]) < Capacity
                                /\ slots[u][lastJobList[u] % Capacity] = [list |-> m, version |-> version[m]]
      BY <1>2 DEF Adding
    <3> QED BY <1>10, <2>1, <2>3, <2>4, <3>1, <3>2, <3>3 DEF Adding
  <2> QED BY <2>5, <2>6
<1> QED
  BY <1>8, <1>12, <1>13, <1>15 DEF IInv

LEMMA AddPublishStep ==
    ASSUME IInv, NEW l \in Lists, AddPublish(l)
    PROVE  IInv'
<1> DEFINE t == Head(todo[l])
           f == firstJobList[t]
           n == Len(added[t])
           e == [list |-> l, version |-> version[l]]
<1>1. /\ opc[l] = "publish"
      /\ lastJobList' = [lastJobList EXCEPT ![t] = (@ + 1) % CounterSize]
      /\ added' = [added EXCEPT ![t] = Append(@, e)]
      /\ opc' = [opc EXCEPT ![l] = "signal"]
      /\ UNCHANGED <<listVars, todo, slots, firstJobList, workVars, threadVars>>
  BY DEF AddPublish, OwnerGoto
<1>2. TypeOK /\ \A m \in Lists : Adding(m)
  BY DEF IInv
<1>3. t \in Threads
  BY <1>1, <1>2, NextThread DEF Adding
<1>4. n < Capacity /\ slots[t][lastJobList[t] % Capacity] = e
  BY <1>1, <1>2 DEF Adding
<1> HIDE DEF t
<1>5. n \in 0 .. Capacity /\ f \in Int /\ n \in Nat /\ added[t] \in Seq(Entry)
  BY <1>3, RingCounts, Sizes
<1>6. lastJobList[t] = (f + n) % CounterSize
  BY <1>3 DEF IInv, Ring
<1>7. /\ (lastJobList[t] + 1) % CounterSize = (f + (n + 1)) % CounterSize
      /\ (lastJobList[t] + 1) % CounterSize \in 0 .. CounterSize - 1
      /\ lastJobList[t] % Capacity = (f + n) % Capacity
  <2>1. n + 1 \in Int /\ n \in Int
    BY <1>5
  <2> HIDE DEF f, n
  <2>2. (f + (n + 1)) % CounterSize \in 0 .. CounterSize - 1
    BY <1>5, <2>1, Wrapped
  <2>3. /\ (((f + n) % CounterSize) + 1) % CounterSize = (f + (n + 1)) % CounterSize
        /\ ((f + n) % CounterSize) % Capacity = (f + n) % Capacity
    BY <1>5, <2>1, Wrapped
  <2> QED BY <1>6, <2>2, <2>3
<1>8. e \in Entry
  BY <1>2 DEF TypeOK, ListTypeOK, Entry
<1> HIDE DEF e
<1>9. /\ added'[t] = Append(added[t], e) /\ added'[t] \in Seq(Entry) /\ Len(added'[t]) = n + 1
      /\ \A i \in 1 .. n : added'[t][i] = added[t][i]
      /\ added'[t][n + 1] = e
  <2>1. added'[t] = Append(added[t], e)
    BY <1>1, <1>2, <1>3 DEF TypeOK, RingTypeOK
  <2> QED BY <1>5, <1>8, <2>1
<1>10. \A u \in Threads \ {t} : added'[u] = added[u] /\ lastJobList'[u] = lastJobList[u]
  BY <1>1, <1>2 DEF TypeOK, RingTypeOK
<1>11. lastJobList'[t] = (lastJobList[t] + 1) % CounterSize
  BY <1>1, <1>2, <1>3 DEF TypeOK, RingTypeOK
<1>12. RingTypeOK'
  <2>1. added' \in [Threads -> Seq(Entry)]
    BY <1>1, <1>2, <1>9 DEF TypeOK, RingTypeOK
  <2>2. lastJobList' \in [Threads -> 0 .. CounterSize - 1]
    BY <1>1, <1>2, <1>7 DEF TypeOK, RingTypeOK
  <2> QED BY <1>1, <1>2, <2>1, <2>2 DEF TypeOK, RingTypeOK
<1>13. TypeOK'
  BY <1>1, <1>2, <1>12 DEF TypeOK, ListTypeOK, ThreadTypeOK, OwnerLabels, listVars, workVars, threadVars
<1>14. \A u \in Threads : Ring(u)'
  <2> SUFFICES ASSUME NEW u \in Threads PROVE Ring(u)'
    OBVIOUS
  <2>1. Ring(u) /\ UNCHANGED <<firstJobList, slots, tpc>>
    BY <1>1 DEF IInv, threadVars
  <2>2. CASE u # t
    BY <1>10, <2>1, <2>2 DEF Ring
  <2>3. CASE u = t
    <3>1. \A i \in 1 .. n + 1 : slots[t][(f + i - 1) % Capacity] = added'[t][i]
      <4> TAKE i \in 1 .. n + 1
      <4>1. CASE i \in 1 .. n
        BY <1>9, <2>1, <2>3, <4>1 DEF Ring
      <4>2. CASE i = n + 1
        <5>1. f + i - 1 = f + n
          BY <1>5, <4>2
        <5> QED BY <1>4, <1>7, <1>9, <4>2, <5>1
      <4> QED BY <1>5, <4>1, <4>2
    <3>2. Len(added'[t]) <= Capacity /\ added'[t] # <<>>
      BY <1>4, <1>5, <1>9, Sizes
    <3>3. lastJobList'[t] = (firstJobList'[t] + Len(added'[t])) % CounterSize
      BY <1>7, <1>9, <1>11, <2>1
    <3> QED BY <1>9, <2>1, <2>3, <3>1, <3>2, <3>3 DEF Ring
  <2> QED BY <2>2, <2>3
<1>15. \A u \in Threads : TableKept(u)'
  BY <1>1 DEF IInv, TableKept, threadVars
<1>16. \A m \in Lists : Adding(m)'
  <2> SUFFICES ASSUME NEW m \in Lists PROVE Adding(m)'
    OBVIOUS
  <2>1. UNCHANGED <<todo, version, slots>> /\ opc \in [Lists -> OwnerLabels]
    BY <1>1, <1>2 DEF listVars, TypeOK, ListTypeOK
  <2>2. \A k \in Lists, u \in Threads : HoldsMutex(k, u)' => HoldsMutex(k, u)
    BY <1>1, <2>1 DEF HoldsMutex
  <2>3. opc'[m] \in {"lock", "room", "publish", "signal"} => todo'[m] # <<>>
    BY <1>1, <1>2, <2>1 DEF Adding
  <2>4. \A k \in Lists, u \in Threads : HoldsMutex(m, u)' /\ HoldsMutex(k, u)' => m = k
    BY <1>2, <2>2 DEF Adding
  <2> DEFINE u == Head(todo[m])
  <2>5. opc'[m] = "publish" => m # l /\ opc[m] = "publish" /\ u = Head(todo'[m])
    BY <1>1, <2>1
  <2>6. opc'[m] = "publish" => u \in Threads \ {t}
    <3>1. opc[m] = "publish" => u \in Threads
      BY <1>2, NextThread DEF Adding
    <3>2. opc[m] = "publish" /\ u = t => m = l
      BY <1>1, <1>2, <1>3 DEF Adding, HoldsMutex, t
    <3> QED BY <2>5, <3>1, <3>2
  <2>7. opc[m] = "publish" => /\ Len(added[u]) < Capacity
                              /\ slots[u][lastJobList[u] % Capacity] = [list |-> m, version |-> version[m]]
    BY <1>2 DEF Adding
  <2> QED BY <1>10, <2>1, <2>3, <2>4, <2>5, <2>6, <2>7 DEF Adding
<1> QED
  BY <1>13, <1>14, <1>15, <1>16 DEF IInv

\* The other steps of an owner leave the rings and the threads alone.
LEMMA OwnerStep ==
    ASSUME IInv, NEW l \in Lists,
           SignalWork(l) \/ WaitVersion(l) \/ WaitClear(l) \/ Free(l) \/ WaitForThread(l) \/ Delete(l)
    PROVE  IInv'
<1> USE DEF OwnerGoto
<1>1. TypeOK /\ \A m \in Lists : Adding(m)
  BY DEF IInv
<1>2. UNCHANGED <<ringVars, threadVars>>
  BY DEF SignalWork, WaitVersion, WaitClear, Free, WaitForThread, Delete
<1>3. AllThreads \in Seq(Threads)
  BY JobThreadAssumption DEF AllThreads, Threads
<1>4. moreWorkToDo' \in [Threads -> BOOLEAN] /\ workerDone' \in [Threads -> BOOLEAN]
  BY <1>1 DEF SignalWork, WaitVersion, WaitClear, Free, WaitForThread, Delete, TypeOK, ThreadTypeOK, workVars
<1>5. ListTypeOK'
  <2>1. CASE SignalWork(l)
    <3>1. todo[l] # <<>>
      BY <1>1, <2>1 DEF SignalWork, Adding
    <3> QED BY <1>1, <2>1, <3>1, NextThread DEF SignalWork, TypeOK, ListTypeOK, OwnerLabels, listVars
  <2>2. CASE WaitVersion(l)
    BY <1>1, <2>2, SMTT(30) DEF WaitVersion, TypeOK, ListTypeOK, OwnerLabels
  <2>3. CASE WaitClear(l)
    BY <1>1, <2>3 DEF WaitClear, TypeOK, ListTypeOK, OwnerLabels
  <2>4. CASE Delete(l)
    BY <1>1, <2>4 DEF Delete, TypeOK, ListTypeOK, OwnerLabels, listVars
  <2>5. CASE Free(l)
    BY <1>1, <1>3, <2>5 DEF Free, TypeOK, ListTypeOK, OwnerLabels, listVars
  <2>6. CASE WaitForThread(l)
    BY <1>1, <2>6, NextThread DEF WaitForThread, TypeOK, ListTypeOK, OwnerLabels, listVars
  <2> QED BY <2>1, <2>2, <2>3, <2>4, <2>5, <2>6
<1>6. RingTypeOK' /\ ThreadTypeOK' /\ \A t \in Threads : Ring(t)' /\ TableKept(t)'
  BY <1>2, <1>4, ThreadsUntouched
<1>7. UNCHANGED <<added, slots, lastJobList>> /\ opc \in [Lists -> OwnerLabels] /\ todo \in [Lists -> Seq(Threads)]
      /\ version \in [Lists -> Nat]
  BY <1>1, <1>2 DEF ringVars, TypeOK, ListTypeOK
<1>8. \A m \in Lists : Adding(m)'
  <2>1. CASE SignalWork(l)
    <3>1. todo[l] # <<>> /\ UNCHANGED version
      BY <1>1, <2>1 DEF SignalWork, Adding, listVars
    <3>2. Len(todo[l]) # 1 => Tail(todo[l]) # <<>>
      BY <1>1, <3>1, NextThread
    <3>3. /\ opc' = [opc EXCEPT ![l] = IF Len(todo[l]) = 1 THEN "submitted" ELSE "lock"]
          /\ todo' = [todo EXCEPT ![l] = Tail(@)]
      BY <2>1 DEF SignalWork
    <3> QED BY <1>1, <1>7, <3>1, <3>2, <3>3 DEF Adding, HoldsMutex
  <2>2. CASE WaitVersion(l) \/ WaitClear(l) \/ Delete(l)
    BY <1>1, <1>7, <2>2, ZenonT(30) DEF WaitVersion, WaitClear, Delete, Adding, HoldsMutex, listVars
  <2>3. CASE Free(l) \/ WaitForThread(l)
    BY <1>1, <1>7, <2>3, ZenonT(30) DEF Free, WaitForThread, Adding, HoldsMutex, listVars
  <2> QED BY <2>1, <2>2, <2>3
<1> QED
  BY <1>5, <1>6, <1>8 DEF IInv, TypeOK

-----------------------------------------------------------------------------
(* The steps of a thread.                                                  *)

\* Steps of a thread that leave lists, rings and table entries as they are, but for what
\* the entries are worth.
LEMMA WorkStep ==
    ASSUME IInv, NEW t \in Threads,
           TakeWork(t) \/ ReportIdle(t) \/ Fetch(t) \/ Enter(t) \/ Stall(t) \/ Choose(t)
    PROVE  IInv'
<1> USE DEF Goto
<1>1. TypeOK /\ \A u \in Threads : Ring(u) /\ TableKept(u)
  BY DEF IInv
<1>2. /\ UNCHANGED <<listVars, ownerVars, ringVars, table>>
      /\ \E label \in ThreadLabels : tpc' = [tpc EXCEPT ![t] = label]
  BY DEF TakeWork, ReportIdle, Fetch, Enter, Stall, Choose, ThreadLabels
<1>3. /\ table[t] \in Seq(Entry) /\ Len(table[t]) \in Nat /\ Len(table[t]) <= Capacity
      /\ stalled[t] \in Nat /\ stalled[t] <= Len(table[t])
  BY <1>1 DEF TypeOK, ThreadTypeOK, TableKept
<1>4. ListTypeOK' /\ RingTypeOK'
  BY <1>1, <1>2 DEF TypeOK, ListTypeOK, RingTypeOK, listVars, ownerVars, ringVars
<1>5. \A l \in Lists : Adding(l)'
  BY <1>2, OwnersUntouched DEF listVars, ringVars
<1>6. \A u \in Threads : tpc'[u] \in {"copy", "advance"} => added[u] # <<>>
  <2>1. CASE Fetch(t)
    <3>1. NotEmpty(t) => added[t] # <<>>
      <4>1. firstJobList[t] \in 0 .. CounterSize - 1 /\ lastJobList[t] = (firstJobList[t] + Len(added[t])) % CounterSize
        BY <1>1 DEF TypeOK, RingTypeOK, Ring
      <4>2. firstJobList[t] + 0 = firstJobList[t] /\ firstJobList[t] % CounterSize = firstJobList[t]
        BY <4>1, Sizes, SmallRemainder
      <4>3. added[t] = <<>> => lastJobList[t] = firstJobList[t]
        BY <4>1, <4>2
      <4> QED BY <4>1, <4>3 DEF NotEmpty
    <3> QED BY <1>1, <2>1, <3>1 DEF Fetch, Ring, TypeOK, ThreadTypeOK
  <2>2. CASE ~Fetch(t)
    BY <1>1, <2>2 DEF TakeWork, ReportIdle, Enter, Stall, Choose, Ring, TypeOK, ThreadTypeOK
  <2> QED BY <2>1, <2>2
<1>7. \A u \in Threads : Ring(u)'
  BY <1>1, <1>2, <1>6 DEF Ring, ringVars
<1>8. CASE Choose(t)
  <2>1. /\ tpc[t] = "choose" /\ tpc' = [tpc EXCEPT ![t] = "enter"]
        /\ current' = [current EXCEPT ![t] = IF stalled[t] = 0 THEN FirstBest(t) ELSE LastRelief(t)]
        /\ UNCHANGED <<table, stalled, moreWorkToDo, workerDone>>
        /\ single' = [single EXCEPT ![t] =
                          \/ stalled[t] = 0 /\ Ready(t) = {}
                          \/ PriorityOf(t, current'[t]) < 3]
    BY <1>8 DEF Choose, workVars
  <2>2. table[t] # <<>>
    BY <1>1, <2>1 DEF TableKept
  <2>3. (IF stalled[t] = 0 THEN FirstBest(t) ELSE LastRelief(t)) \in 1 .. Len(table[t])
    <3>1. CASE stalled[t] = 0
      BY <1>3, <2>2, <3>1, FirstBestInTable
    <3>2. CASE stalled[t] # 0
      <4>1. stalled[t] \in 1 .. Len(table[t])
        BY <1>3, <3>2
      <4> QED BY <1>3, <3>2, <4>1, LastReliefInTable
    <3> QED BY <3>1, <3>2
  <2>4. single' \in [Threads -> BOOLEAN]
    <3> DEFINE b == \/ stalled[t] = 0 /\ Ready(t) = {}
                    \/ PriorityOf(t, current'[t]) < 3
    <3>1. b \in BOOLEAN
      OBVIOUS
    <3> HIDE DEF b
    <3>2. single' = [single EXCEPT ![t] = b]
      BY <2>1 DEF b
    <3> QED BY <1>1, <3>1, <3>2 DEF TypeOK, ThreadTypeOK
  <2>5. ThreadTypeOK'
    BY <1>1, <2>1, <2>3, <2>4 DEF TypeOK, ThreadTypeOK, ThreadLabels
  <2>6. \A u \in Threads : TableKept(u)'
    BY <1>1, <2>1, <2>2, <2>3 DEF TableKept, TypeOK, ThreadTypeOK
  <2> QED BY <1>4, <1>5, <1>7, <2>5, <2>6 DEF IInv, TypeOK
<1>9. CASE ~Choose(t)
  <2>1. UNCHANGED current
    BY <1>9 DEF TakeWork, ReportIdle, Fetch, Enter, Stall
  <2>2. ThreadTypeOK'
    <3>1. CASE TakeWork(t)
      BY <1>1, <3>1 DEF TakeWork, TypeOK, ThreadTypeOK, ThreadLabels
    <3>2. CASE ReportIdle(t)
      BY <1>1, <3>2 DEF ReportIdle, TypeOK, ThreadTypeOK, ThreadLabels
    <3>3. CASE Fetch(t) \/ Enter(t)
      BY <1>1, <3>3 DEF Fetch, Enter, TypeOK, ThreadTypeOK, ThreadLabels, workVars
    <3>4. CASE Stall(t)
      <4>1. current[t] \in Nat
        BY <1>1 DEF TypeOK, ThreadTypeOK
      <4> QED BY <1>1, <3>4, <4>1 DEF Stall, TypeOK, ThreadTypeOK, ThreadLabels, workVars
    <3> QED BY <1>9, <3>1, <3>2, <3>3, <3>4
  <2>3. \A u \in Threads : TableKept(u)'
    <3>1. CASE TakeWork(t)
      BY <1>1, <1>3, <3>1 DEF TakeWork, TypeOK, ThreadTypeOK, TableKept
    <3>2. CASE ReportIdle(t)
      BY <1>1, <3>2 DEF ReportIdle, TypeOK, ThreadTypeOK, TableKept
    <3>3. CASE Fetch(t)
      BY <1>1, <3>3 DEF Fetch, TypeOK, ThreadTypeOK, TableKept
    <3>4. CASE Enter(t)
      BY <1>1, <3>4 DEF Enter, TypeOK, ThreadTypeOK, TableKept
    <3>5. CASE Stall(t)
      <4>1. current[t] \in 1 .. Len(table[t])
        BY <1>1, <3>5 DEF Stall, TableKept
      <4> QED BY <1>1, <1>3, <3>5, <4>1 DEF Stall, TypeOK, ThreadTypeOK, TableKept
    <3> QED BY <1>9, <3>1, <3>2, <3>3, <3>4, <3>5
  <2> QED BY <1>4, <1>5, <1>7, <2>2, <2>3 DEF IInv, TypeOK
<1> QED
  BY <1>8, <1>9

\* Fetching: the entry is copied, then the counter moves on.
LEMMA CopyStep ==
    ASSUME IInv, NEW t \in Threads, Copy(t)
    PROVE  IInv'
<1> DEFINE f == firstJobList[t]
           e == slots[t][f % Capacity]
<1>1. /\ tpc[t] = "copy" /\ tpc' = [tpc EXCEPT ![t] = "advance"]
      /\ table' = [table EXCEPT ![t] = Append(@, e)]
      /\ UNCHANGED <<listVars, ownerVars, ringVars, workVars, stalled, current, single>>
  BY DEF Copy, Goto
<1>2. TypeOK /\ Ring(t) /\ TableKept(t)
  BY DEF IInv
<1>3. added[t] \in Seq(Entry) /\ added[t] # <<>> /\ f \in Int
  BY <1>1, <1>2, RingCounts DEF Ring
<1>4. e = added[t][1] /\ e \in Entry
  <2>1. 1 \in 1 .. Len(added[t])
    BY <1>3
  <2>2. f + 1 - 1 = f
    BY <1>3
  <2> QED BY <1>2, <1>3, <2>1, <2>2 DEF Ring
<1> HIDE DEF e
<1>5. table[t] \in Seq(Entry) /\ Len(table[t]) < Capacity
  BY <1>1, <1>2 DEF TableKept, TypeOK, ThreadTypeOK
<1>6. /\ table'[t] = Append(table[t], e) /\ table'[t] \in Seq(Entry)
      /\ Len(table'[t]) = Len(table[t]) + 1 /\ table'[t] # <<>> /\ Len(table[t]) \in Nat
  <2>1. table'[t] = Append(table[t], e)
    BY <1>1, <1>2 DEF TypeOK, ThreadTypeOK
  <2> QED BY <1>4, <1>5, <2>1
<1>7. TypeOK'
  BY <1>1, <1>2, <1>6 DEF TypeOK, ListTypeOK, RingTypeOK, ThreadTypeOK, ThreadLabels, listVars, ownerVars,
                          ringVars, workVars
<1>8. \A u \in Threads : Ring(u)'
  BY <1>1, <1>2, <1>3 DEF IInv, Ring, ringVars, TypeOK, ThreadTypeOK
<1>9. \A u \in Threads : TableKept(u)'
  <2> SUFFICES ASSUME NEW u \in Threads PROVE TableKept(u)'
    OBVIOUS
  <2>1. CASE u = t
    <3>1. stalled[t] <= Len(table[t]) /\ stalled[t] \in Nat /\ Capacity \in Nat
      BY <1>2, Sizes DEF TableKept, TypeOK, ThreadTypeOK
    <3> QED BY <1>1, <1>2, <1>5, <1>6, <2>1, <3>1 DEF TableKept, TypeOK, ThreadTypeOK
  <2>2. CASE u # t
    BY <1>1, <1>2, <2>2 DEF IInv, TableKept, TypeOK, ThreadTypeOK
  <2> QED BY <2>1, <2>2
<1>10. \A l \in Lists : Adding(l)'
  BY <1>1, OwnersUntouched DEF listVars, ringVars
<1> QED
  BY <1>7, <1>8, <1>9, <1>10 DEF IInv

LEMMA AdvanceStep ==
    ASSUME IInv, NEW t \in Threads, Advance(t)
    PROVE  IInv'
<1> DEFINE f == firstJobList[t]
           n == Len(added[t])
<1>1. /\ tpc[t] = "advance" /\ tpc' = [tpc EXCEPT ![t] = "choose"]
      /\ firstJobList' = [firstJobList EXCEPT ![t] = (@ + 1) % CounterSize]
      /\ added' = [added EXCEPT ![t] = Tail(@)]
      /\ UNCHANGED <<listVars, ownerVars, slots, lastJobList, workVars, table, stalled, current, single>>
  BY DEF Advance, Goto
<1>2. TypeOK /\ Ring(t) /\ \A l \in Lists : Adding(l)
  BY DEF IInv
<1>3. added[t] \in Seq(Entry) /\ added[t] # <<>> /\ f \in Int /\ n \in 0 .. Capacity
  BY <1>1, <1>2, RingCounts DEF Ring
<1>4. /\ added'[t] = Tail(added[t]) /\ added'[t] \in Seq(Entry) /\ Len(added'[t]) = n - 1
      /\ \A i \in 1 .. n - 1 : added'[t][i] = added[t][i + 1]
  <2>1. added'[t] = Tail(added[t])
    BY <1>1, <1>2 DEF TypeOK, RingTypeOK
  <2> QED BY <1>3, <2>1, HeadTailProperties
<1>5. firstJobList'[t] = (f + 1) % CounterSize /\ firstJobList'[t] \in 0 .. CounterSize - 1
  <2>1. f + 1 \in Int
    BY <1>3
  <2>2. (f + 1) % CounterSize \in 0 .. CounterSize - 1
    BY <2>1, Sizes, Division
  <2> QED BY <1>1, <1>2, <2>2 DEF TypeOK, RingTypeOK
<1>6. \A u \in Threads \ {t} : added'[u] = added[u] /\ firstJobList'[u] = firstJobList[u]
  BY <1>1, <1>2 DEF TypeOK, RingTypeOK
<1>7. TypeOK'
  <2>1. firstJobList' \in [Threads -> 0 .. CounterSize - 1]
    BY <1>1, <1>2, <1>5 DEF TypeOK, RingTypeOK
  <2>2. added' \in [Threads -> Seq(Entry)]
    BY <1>1, <1>2, <1>4 DEF TypeOK, RingTypeOK
  <2> QED BY <1>1, <1>2, <2>1, <2>2 DEF TypeOK, ListTypeOK, RingTypeOK, ThreadTypeOK, ThreadLabels, listVars,
                                         ownerVars, workVars
<1>8. \A u \in Threads : Ring(u)'
  <2> SUFFICES ASSUME NEW u \in Threads PROVE Ring(u)'
    OBVIOUS
  <2>1. CASE u # t
    BY <1>1, <1>2, <1>6, <2>1 DEF IInv, Ring, TypeOK, ThreadTypeOK
  <2>2. CASE u = t
    <3>1. Len(added'[t]) <= Capacity
      BY <1>3, <1>4, Sizes
    <3>2. lastJobList'[t] = (firstJobList'[t] + Len(added'[t])) % CounterSize
      <4>1. n \in Int /\ lastJobList[t] = (f + n) % CounterSize
        BY <1>2, <1>3 DEF Ring
      <4> HIDE DEF f, n
      <4>2. (((f + 1) % CounterSize) + (n - 1)) % CounterSize = (f + n) % CounterSize
        BY <1>3, <4>1, Wrapped
      <4> QED BY <1>1, <1>4, <1>5, <4>1, <4>2
    <3>3. \A i \in 1 .. n - 1 : slots'[t][(firstJobList'[t] + i - 1) % Capacity] = added'[t][i]
      <4> TAKE i \in 1 .. n - 1
      <4>1. i \in Int /\ i + 1 \in 1 .. n
        BY <1>3
      <4>2. slots[t][(f + (i + 1) - 1) % Capacity] = added[t][i + 1]
        BY <1>2, <4>1 DEF Ring
      <4> HIDE DEF f, n
      <4>3. (((f + 1) % CounterSize) + i - 1) % Capacity = (f + (i + 1) - 1) % Capacity
        BY <1>3, <4>1, SlotMoved
      <4> QED BY <1>1, <1>4, <1>5, <4>2, <4>3
    <3>4. tpc'[t] = "choose"
      BY <1>1, <1>2 DEF TypeOK, ThreadTypeOK
    <3> QED BY <1>4, <2>2, <3>1, <3>2, <3>3, <3>4 DEF Ring
  <2> QED BY <2>1, <2>2
<1>9. \A u \in Threads : TableKept(u)'
  BY <1>1, <1>2 DEF IInv, TableKept, TypeOK, ThreadTypeOK
<1>10. \A l \in Lists : Adding(l)'
  <2> SUFFICES ASSUME NEW l \in Lists PROVE Adding(l)'
    OBVIOUS
  <2>1. Adding(l) /\ UNCHANGED <<opc, todo, version, slots, lastJobList>>
    BY <1>1, <1>2 DEF listVars, ownerVars
  <2> DEFINE u == Head(todo[l])
  <2>2. opc[l] = "publish" => u \in Threads /\ Len(added[u]) < Capacity
    BY <1>2, <2>1, NextThread DEF Adding
  <2>3. opc[l] = "publish" => Len(added'[u]) < Capacity
    <3>1. Len(added'[t]) < Capacity
      BY <1>3, <1>4, Sizes
    <3> HIDE DEF u, n, f
    <3> QED BY <1>6, <2>2, <3>1
  <2> QED BY <2>1, <2>3 DEF Adding, HoldsMutex
<1> QED
  BY <1>7, <1>8, <1>9, <1>10 DEF IInv

\* The entry that is done leaves the table, and no index points behind its end.
LEMMA DoneKeepsTable ==
    ASSUME IInv, NEW t \in Threads, tpc[t] \in {"enter", "inside", "job"}, Done(t),
           UNCHANGED <<current, single>>
    PROVE  /\ table' \in [Threads -> Seq(Entry)] /\ stalled' \in [Threads -> Nat]
           /\ tpc' \in [Threads -> ThreadLabels] /\ tpc'[t] = "fetch"
           /\ \A u \in Threads : TableKept(u)'
           /\ \A u \in Threads \ {t} : table'[u] = table[u] /\ tpc'[u] = tpc[u]
           /\ \A k \in 1 .. Len(table'[t]) : \E j \in 1 .. Len(table[t]) : table'[t][k] = table[t][j]
<1>1. TypeOK /\ \A u \in Threads : TableKept(u)
  BY DEF IInv
<1>2. /\ table' = [table EXCEPT ![t] = RemoveAt(@, current[t])]
      /\ stalled' = [stalled EXCEPT ![t] = 0]
      /\ tpc' = [tpc EXCEPT ![t] = "fetch"]
  BY DEF Done, RemoveCurrent, Goto
<1>3. table[t] \in Seq(Entry) /\ current[t] \in 1 .. Len(table[t]) /\ Len(table[t]) \in Nat /\ Len(table[t]) <= Capacity
  BY <1>1 DEF TypeOK, ThreadTypeOK, TableKept
<1> DEFINE rest == RemoveAt(table[t], current[t])
<1>4. /\ rest \in Seq(Entry) /\ Len(rest) = Len(table[t]) - 1
      /\ \A k \in 1 .. Len(table[t]) - 1 : \E j \in 1 .. Len(table[t]) : rest[k] = table[t][j]
  <2> DEFINE q == table[t]
             c == current[t]
  <2>1. q \in Seq(Entry)
    BY <1>3
  <2>3. c \in 1 .. Len(q)
    BY <1>3
  <2> HIDE DEF q, c
  <2>2. \A s \in Seq(Entry) : \A i \in 1 .. Len(s) :
            /\ RemoveAt(s, i) \in Seq(Entry) /\ Len(RemoveAt(s, i)) = Len(s) - 1
            /\ \A k \in 1 .. Len(s) - 1 : \E j \in 1 .. Len(s) : RemoveAt(s, i)[k] = s[j]
    <3> TAKE s \in Seq(Entry)
    <3> TAKE i \in 1 .. Len(s)
    <3> QED BY RemoveAtKeeps
  <2> QED BY <2>1, <2>2, <2>3 DEF q, c
<1>5. table'[t] = rest /\ table' \in [Threads -> Seq(Entry)] /\ \A u \in Threads \ {t} : table'[u] = table[u]
  <2> HIDE DEF rest
  <2>1. table' = [table EXCEPT ![t] = rest]
    BY <1>2 DEF rest
  <2> QED BY <1>1, <1>4, <2>1 DEF TypeOK, ThreadTypeOK
<1> HIDE DEF rest
<1>6. Len(table'[t]) \in Nat /\ Len(table'[t]) <= Capacity
  BY <1>3, <1>4, <1>5, Sizes
<1>7. \A u \in Threads : TableKept(u)'
  BY <1>1, <1>2, <1>5, <1>6 DEF TableKept, TypeOK, ThreadTypeOK
<1>8. /\ stalled' \in [Threads -> Nat] /\ tpc' \in [Threads -> ThreadLabels] /\ tpc'[t] = "fetch"
      /\ \A u \in Threads \ {t} : tpc'[u] = tpc[u]
  BY <1>1, <1>2 DEF TypeOK, ThreadTypeOK, ThreadLabels
<1> QED
  BY <1>4, <1>5, <1>7, <1>8

\* RunJobs, and what Run does with its result.
LEMMA RunStep ==
    ASSUME IInv, NEW t \in Threads,
           Outdated(t) \/ TakeJob(t) \/ FinishJob(t) \/ TakeDone(t) \/ PastEnd(t)
    PROVE  IInv'
<1>1. TypeOK /\ \A u \in Threads : Ring(u) /\ TableKept(u)
  BY DEF IInv
<1>2. /\ tpc[t] \in {"enter", "inside", "job"}
      /\ UNCHANGED <<version, currentDoneGuard, waitForGuard, ownerVars, ringVars, workVars, current, single>>
  BY DEF Outdated, TakeJob, FinishJob, TakeDone, PastEnd, listVars
<1>3. \/ Done(t)
      \/ /\ UNCHANGED table
         /\ tpc' = [tpc EXCEPT ![t] = "fetch"] \/ tpc' = [tpc EXCEPT ![t] = "inside"]
               \/ tpc' = [tpc EXCEPT ![t] = "job"]
         /\ UNCHANGED stalled \/ stalled' = [stalled EXCEPT ![t] = 0]
  BY <1>1 DEF Outdated, TakeJob, FinishJob, TakeDone, PastEnd, Goto, TypeOK, ThreadTypeOK
<1>4. ListTypeOK'
  <2>1. left' \in [Lists -> Int] /\ busy' \in [Lists -> Int]
    BY <1>1 DEF Outdated, TakeJob, FinishJob, TakeDone, PastEnd, TypeOK, ListTypeOK, listVars
  <2>2. doneGuards' \in [Lists -> [0 .. NumDoneGuards - 1 -> Int]]
    <3>1. CASE TakeDone(t)
      <4> DEFINE l == CurrentList(t)
      <4>1. doneGuards' = [doneGuards EXCEPT ![l][currentDoneGuard[l]] = @ - 1]
        BY <3>1 DEF TakeDone
      <4>2. l \in Lists
        <5>1. table[t] \in Seq(Entry) /\ current[t] \in 1 .. Len(table[t])
          BY <1>1, <1>2 DEF TypeOK, ThreadTypeOK, TableKept
        <5>2. table[t][current[t]] \in Entry
          BY <5>1, ElementOfSeq
        <5> QED BY <5>2 DEF CurrentList, Entry
      <4>3. currentDoneGuard[l] \in 0 .. NumDoneGuards - 1
        BY <1>1, <4>2 DEF TypeOK, ListTypeOK
      <4> DEFINE g == currentDoneGuard[l]
                 row == [doneGuards[l] EXCEPT ![g] = @ - 1]
      <4> HIDE DEF l
      <4>4. doneGuards \in [Lists -> [0 .. NumDoneGuards - 1 -> Int]]
        BY <1>1 DEF TypeOK, ListTypeOK
      <4>5. doneGuards[l] \in [0 .. NumDoneGuards - 1 -> Int] /\ doneGuards[l][g] - 1 \in Int
        <5>1. doneGuards[l] \in [0 .. NumDoneGuards - 1 -> Int]
          BY <4>2, <4>4
        <5>2. g \in 0 .. NumDoneGuards - 1
          BY <4>3
        <5> HIDE DEF g
        <5>3. doneGuards[l][g] \in Int
          BY <5>1, <5>2
        <5> QED BY <5>1, <5>3
      <4>6. row \in [0 .. NumDoneGuards - 1 -> Int]
        BY <4>5
      <4>7. doneGuards' = [doneGuards EXCEPT ![l] = row]
        BY <4>1
      <4> HIDE DEF row
      <4> QED BY <4>2, <4>4, <4>6, <4>7
    <3>2. CASE ~TakeDone(t)
      BY <1>1, <3>2 DEF Outdated, TakeJob, FinishJob, PastEnd, TypeOK, ListTypeOK, listVars
    <3> QED BY <3>1, <3>2
  <2> QED BY <1>1, <1>2, <2>1, <2>2 DEF TypeOK, ListTypeOK, ownerVars
<1>5. RingTypeOK'
  BY <1>1, <1>2 DEF TypeOK, RingTypeOK, ringVars
<1>6. \A l \in Lists : Adding(l)'
  BY <1>2, OwnersUntouched DEF ringVars
<1>7. ThreadTypeOK' /\ \A u \in Threads : TableKept(u)' /\ (tpc'[u] \in {"copy", "advance"} => tpc[u] \in {"copy", "advance"})
  <2>1. CASE Done(t)
    <3>1. /\ table' \in [Threads -> Seq(Entry)] /\ stalled' \in [Threads -> Nat]
          /\ tpc' \in [Threads -> ThreadLabels] /\ tpc'[t] = "fetch"
          /\ \A u \in Threads : TableKept(u)'
          /\ \A u \in Threads \ {t} : tpc'[u] = tpc[u]
      BY <1>2, <2>1, DoneKeepsTable
    <3> QED BY <1>1, <1>2, <3>1 DEF TypeOK, ThreadTypeOK, workVars
  <2>2. CASE ~Done(t)
    <3>1. /\ UNCHANGED <<table, current, single, workVars>>
          /\ tpc' = [tpc EXCEPT ![t] = "fetch"] \/ tpc' = [tpc EXCEPT ![t] = "inside"]
                \/ tpc' = [tpc EXCEPT ![t] = "job"]
          /\ UNCHANGED stalled \/ stalled' = [stalled EXCEPT ![t] = 0]
      BY <1>2, <1>3, <2>2
    <3>2. ThreadTypeOK'
      <4>1. tpc' \in [Threads -> ThreadLabels]
        BY <1>1, <3>1 DEF TypeOK, ThreadTypeOK, ThreadLabels
      <4>2. stalled' \in [Threads -> Nat]
        BY <1>1, <3>1 DEF TypeOK, ThreadTypeOK
      <4> QED BY <1>1, <3>1, <4>1, <4>2 DEF TypeOK, ThreadTypeOK, workVars
    <3>3. current[t] \in 1 .. Len(table[t]) /\ table[t] # <<>> /\ Len(table[t]) \in Nat
      BY <1>1, <1>2 DEF TableKept, TypeOK, ThreadTypeOK
    <3>4. \A u \in Threads : TableKept(u)'
      BY <1>1, <3>1, <3>3 DEF TypeOK, ThreadTypeOK, TableKept
    <3>5. \A u \in Threads : tpc'[u] \in {"copy", "advance"} => tpc[u] \in {"copy", "advance"}
      BY <1>1, <3>1 DEF TypeOK, ThreadTypeOK
    <3> QED BY <3>2, <3>4, <3>5
  <2> QED BY <2>1, <2>2
<1>8. \A u \in Threads : Ring(u)'
  BY <1>1, <1>2, <1>7 DEF Ring, ringVars
<1> QED
  BY <1>4, <1>5, <1>6, <1>7, <1>8 DEF IInv, TypeOK

-----------------------------------------------------------------------------
(* The ring and the table.                                                 *)

LEMMA StepIInv == IInv /\ [Next]_vars => IInv'
<1> SUFFICES ASSUME IInv, [Next]_vars PROVE IInv'
  OBVIOUS
<1>1. CASE UNCHANGED vars
  <2>1. UNCHANGED <<listVars, ownerVars, ringVars, workVars, threadVars>>
    BY <1>1 DEF vars
  <2>2. TypeOK'
    BY <2>1 DEF IInv, TypeOK, ListTypeOK, RingTypeOK, ThreadTypeOK, listVars, ownerVars, ringVars, workVars, threadVars
  <2>3. \A t \in Threads : Ring(t)' /\ TableKept(t)'
    BY <2>1, ThreadsUntouched
  <2>4. \A l \in Lists : Adding(l)'
    BY <2>1, OwnersUntouched DEF listVars, ringVars
  <2> QED BY <2>2, <2>3, <2>4 DEF IInv
<1>2. ASSUME NEW l \in Lists, Owner(l)
      PROVE  IInv'
  BY <1>2, SubmitStep, AddLockStep, AddWriteStep, AddPublishStep, OwnerStep DEF Owner, Goes
<1>3. ASSUME NEW t \in Threads, JobThread(t)
      PROVE  IInv'
  BY <1>3, WorkStep, CopyStep, AdvanceStep, RunStep DEF JobThread, Granted
<1>4. CASE AllOver
  BY <1>1, <1>4 DEF AllOver
<1> QED
  BY <1>1, <1>2, <1>3, <1>4 DEF Next

LEMMA Invariance == Spec => []IInv
<1> QED
  BY InitIInv, StepIInv, PTL DEF Spec

\* Every variable of the job threads and of the manager keeps its type, in particular
\* the ring counters and the indices of Run.
THEOREM TypeCorrect == Spec => []TypeOK
<1>1. IInv => TypeOK
  BY DEF IInv
<1> QED
  BY <1>1, Invariance, PTL

\* The ring of a thread (jobLists with firstJobList and lastJobList) is a queue of at
\* most MAX_JOBLISTS entries, whatever owners and thread do at the same time, and also
\* when the unsigned counters wrap around.
THEOREM RingsIntact == Spec => []RingIntact
<1>1. IInv => RingIntact
  <2> SUFFICES ASSUME IInv, NEW t \in Threads
               PROVE  /\ Len(added[t]) <= Capacity
                      /\ Minus(lastJobList[t], firstJobList[t]) = Len(added[t])
                      /\ \A i \in 1 .. Len(added[t]) :
                             slots[t][(firstJobList[t] + i - 1) % Capacity] = added[t][i]
    BY DEF RingIntact
  <2> QED BY RingCounts DEF IInv, Ring
<1> QED
  BY <1>1, Invariance, PTL

-----------------------------------------------------------------------------
(* No use after free.                                                      *)

LEMMA KnownUntouched ==
    ASSUME NEW t \in Threads, added'[t] = added[t], table'[t] = table[t]
    PROVE  Known(t)' = Known(t)
BY DEF Known

LEMMA InitUse == Init => UseInv
<1> SUFFICES ASSUME Init, NEW t \in Threads PROVE Referenced(t)
  BY DEF UseInv
<1>1. /\ added[t] = <<>> /\ table[t] = <<>> /\ tpc[t] = "asleep"
      /\ ~moreWorkToDo[t] /\ workerDone[t]
  BY DEF Init
<1>2. Known(t) = {}
  BY <1>1 DEF Known
<1> QED
  BY <1>1, <1>2 DEF Referenced

\* A step of an owner that leaves rings and threads alone: what it does to its own
\* list must suit the threads that know the list.
LEMMA OwnerKeepsUse ==
    ASSUME UseInv, NEW l \in Lists, UNCHANGED <<added, threadVars, workVars>>,
           \A m \in Lists \ {l} : opc'[m] = opc[m] /\ todo'[m] = todo[m],
           opc[l] # "signal",
           \A t \in Threads : l \in Known(t) =>
               /\ opc'[l] # "freed"
               /\ opc'[l] = "freeing" => \E i \in DOMAIN todo'[l] : todo'[l][i] = t,
           \A t \in Threads : Known(t) \subseteq Lists
    PROVE  UseInv'
<1> SUFFICES ASSUME NEW t \in Threads PROVE Referenced(t)'
  BY DEF UseInv
<1>1. Known(t)' = Known(t) /\ Known(t) \subseteq Lists
  BY KnownUntouched DEF threadVars
<1>2. UNCHANGED <<tpc, workerDone, moreWorkToDo>>
  BY DEF threadVars, workVars
<1> QED
  BY <1>1, <1>2 DEF UseInv, Referenced

\* A step of a thread: it learns of no list, and comes to rest only when it has
\* nothing left.
LEMMA ThreadKeepsUse ==
    ASSUME UseInv, NEW t \in Threads, UNCHANGED <<opc, todo>>,
           \A u \in Threads \ {t} :
               /\ Known(u)' = Known(u) /\ tpc'[u] = tpc[u]
               /\ moreWorkToDo'[u] = moreWorkToDo[u] /\ workerDone'[u] = workerDone[u],
           Known(t)' \subseteq Known(t),
           workerDone'[t] => tpc'[t] = "asleep" /\ ~moreWorkToDo'[t],
           tpc'[t] \in {"asleep", "returned"} /\ ~moreWorkToDo'[t] =>
               \/ Known(t)' = {}
               \/ tpc[t] \in {"asleep", "returned"} /\ ~moreWorkToDo[t]
    PROVE  UseInv'
<1> SUFFICES ASSUME NEW u \in Threads PROVE Referenced(u)'
  BY DEF UseInv
<1>1. CASE u = t
  BY <1>1 DEF UseInv, Referenced
<1>2. CASE u # t
  BY <1>2 DEF UseInv, Referenced
<1> QED
  BY <1>1, <1>2

LEMMA KnownIsList ==
    ASSUME TypeOK, NEW t \in Threads
    PROVE  Known(t) \subseteq Lists
<1>1. added[t] \in Seq(Entry) /\ table[t] \in Seq(Entry)
  BY DEF TypeOK, RingTypeOK, ThreadTypeOK
<1>2. /\ \A i \in 1 .. Len(added[t]) : added[t][i] \in Entry
      /\ \A i \in 1 .. Len(table[t]) : table[t][i] \in Entry
  BY <1>1, ElementOfSeq
<1>3. \A e \in Entry : e.list \in Lists
  BY DEF Entry
<1> QED
  BY <1>2, <1>3 DEF Known

LEMMA OwnerStepUse ==
    ASSUME IInv, UseInv, NEW l \in Lists, Owner(l)
    PROVE  UseInv'
<1>1. TypeOK /\ \A t \in Threads : Known(t) \subseteq Lists
  BY KnownIsList DEF IInv
<1>2. /\ opc \in [Lists -> OwnerLabels] /\ todo \in [Lists -> Seq(Threads)]
  BY <1>1 DEF TypeOK, ListTypeOK
<1>3. ASSUME NEW n \in 1 .. MaxJobs, NEW k \in 0 .. NumThreads, Submit(l, n, k)
      PROVE  UseInv'
  <2>1. /\ UNCHANGED <<added, threadVars, workVars>>
        /\ \A m \in Lists \ {l} : opc'[m] = opc[m] /\ todo'[m] = todo[m]
        /\ opc[l] # "signal" /\ opc'[l] \notin {"freed", "freeing"}
    BY <1>2, <1>3 DEF Submit, OwnerGoto, ringVars
  <2> QED BY <1>1, <2>1, OwnerKeepsUse
<1>4. CASE AddLock(l) \/ AddWrite(l) \/ WaitVersion(l) \/ WaitClear(l)
  <2>1. /\ UNCHANGED <<added, threadVars, workVars>>
        /\ \A m \in Lists \ {l} : opc'[m] = opc[m] /\ todo'[m] = todo[m]
        /\ opc[l] # "signal" /\ opc'[l] \notin {"freed", "freeing"}
    BY <1>2, <1>4 DEF AddLock, AddWrite, WaitVersion, WaitClear, OwnerGoto, ringVars
  <2> QED BY <1>1, <2>1, OwnerKeepsUse
<1>5. CASE AddPublish(l)
  <2>0. PICK t \in Threads : t = Head(todo[l])
    <3>1. opc[l] = "publish"
      BY <1>5 DEF AddPublish
    <3> QED BY <1>2, <3>1, NextThread DEF IInv, Adding
  <2> DEFINE e == [list |-> l, version |-> version[l]]
  <2>1. /\ opc[l] = "publish" /\ opc' = [opc EXCEPT ![l] = "signal"]
        /\ added' = [added EXCEPT ![t] = Append(@, e)]
        /\ UNCHANGED <<todo, workVars, threadVars>>
    BY <1>5, <2>0 DEF AddPublish, OwnerGoto
  <2>2. t \in Threads
    BY <2>0
  <2>3. /\ added[t] \in Seq(Entry) /\ added'[t] = Append(added[t], e)
        /\ \A u \in Threads \ {t} : added'[u] = added[u]
    BY <1>1, <2>1, <2>2 DEF TypeOK, RingTypeOK
  <2>4. Known(t)' \subseteq Known(t) \cup {l}
    <3> DEFINE q == added[t]
               n == Len(q)
    <3>1. q \in Seq(Entry) /\ n \in Nat
      BY <2>3
    <3>2. added'[t] = Append(q, e) /\ e.list = l
      BY <2>3
    <3> HIDE DEF q, e
    <3>3. Len(Append(q, e)) = n + 1 /\ Append(q, e)[n + 1] = e /\ \A i \in 1 .. n : Append(q, e)[i] = q[i]
      BY <3>1
    <3>4. \A i \in 1 .. n + 1 : i \in 1 .. n \/ i = n + 1
      BY <3>1
    <3>5. \A i \in 1 .. Len(added'[t]) : added'[t][i].list \in Known(t) \cup {l}
      BY <3>2, <3>3, <3>4 DEF Known, q
    <3>6. \A i \in 1 .. Len(table'[t]) : table'[t][i].list \in Known(t) \cup {l}
      BY <2>1 DEF threadVars, Known
    <3>7. Known(t)' = {added'[t][i].list : i \in 1 .. Len(added'[t])}
                          \cup {table'[t][i].list : i \in 1 .. Len(table'[t])}
      BY DEF Known
    <3> QED BY <3>5, <3>6, <3>7
  <2>5. \A u \in Threads \ {t} : Known(u)' = Known(u)
    BY <2>1, <2>3, KnownUntouched DEF threadVars
  <2>6. /\ opc'[l] = "signal" /\ todo'[l] = todo[l] /\ UNCHANGED <<tpc, moreWorkToDo, workerDone>>
        /\ \A m \in Lists \ {l} : opc'[m] = opc[m] /\ todo'[m] = todo[m]
    BY <1>2, <2>1 DEF threadVars, workVars
  <2> SUFFICES ASSUME NEW u \in Threads PROVE Referenced(u)'
    BY DEF UseInv
  <2>7. Referenced(u) /\ Known(u) \subseteq Lists
    BY <1>1 DEF UseInv
  <2>8. Known(u)' \subseteq Known(u) \cup {l} /\ (l \in Known(u)' /\ l \notin Known(u) => u = t)
    <3>1. CASE u = t
      BY <2>4, <3>1
    <3>2. CASE u # t
      BY <2>5, <3>2
    <3> QED BY <3>1, <3>2
  <2>9. u = t => Head(todo[l]) = u
    BY <2>0
  <2> QED BY <2>1, <2>6, <2>7, <2>8, <2>9 DEF Referenced
<1>6. CASE SignalWork(l)
  <2> DEFINE t == Head(todo[l])
  <2>1. /\ opc[l] = "signal" /\ moreWorkToDo' = [moreWorkToDo EXCEPT ![t] = TRUE]
        /\ workerDone' = [workerDone EXCEPT ![t] = FALSE] /\ UNCHANGED <<ringVars, threadVars>>
        /\ \A m \in Lists \ {l} : opc'[m] = opc[m] /\ todo'[m] = todo[m]
        /\ opc'[l] \in {"submitted", "lock"}
    BY <1>2, <1>6 DEF SignalWork, OwnerGoto
  <2>2. t \in Threads
    BY <1>2, <2>1, NextThread DEF IInv, Adding
  <2>3. /\ moreWorkToDo'[t] /\ ~workerDone'[t]
        /\ \A u \in Threads \ {t} : moreWorkToDo'[u] = moreWorkToDo[u] /\ workerDone'[u] = workerDone[u]
    BY <1>1, <2>1, <2>2 DEF TypeOK, ThreadTypeOK
  <2> SUFFICES ASSUME NEW u \in Threads PROVE Referenced(u)'
    BY DEF UseInv
  <2>4. Known(u)' = Known(u) /\ Known(u) \subseteq Lists /\ Referenced(u) /\ tpc' = tpc
    BY <1>1, <2>1, KnownUntouched DEF UseInv, ringVars, threadVars
  <2>5. CASE u = t
    BY <2>1, <2>3, <2>4, <2>5 DEF Referenced
  <2>6. CASE u # t
    BY <2>1, <2>3, <2>4, <2>6 DEF Referenced
  <2> QED BY <2>5, <2>6
<1>7. CASE Free(l)
  <2>1. /\ UNCHANGED <<added, threadVars, workVars>>
        /\ \A m \in Lists \ {l} : opc'[m] = opc[m] /\ todo'[m] = todo[m]
        /\ opc[l] # "signal" /\ opc'[l] = "freeing" /\ todo'[l] = AllThreads
    BY <1>2, <1>7 DEF Free, OwnerGoto, ringVars
  <2>2. \A t \in Threads : t \in DOMAIN todo'[l] /\ todo'[l][t] = t
    BY <2>1 DEF AllThreads, Threads
  <2> QED BY <1>1, <2>1, <2>2, OwnerKeepsUse
<1>8. CASE WaitForThread(l)
  <2> DEFINE q == todo[l]
             t == Head(q)
  <2>1. /\ UNCHANGED <<added, threadVars, workVars>>
        /\ \A m \in Lists \ {l} : opc'[m] = opc[m] /\ todo'[m] = todo[m]
        /\ opc[l] = "freeing" /\ opc'[l] = "freeing" /\ q # <<>> /\ todo'[l] = Tail(q)
        /\ workerDone[t]
    BY <1>2, <1>8 DEF WaitForThread, WorkDone, ringVars
  <2>2. q \in Seq(Threads) /\ q # <<>> /\ t = q[1]
    BY <1>2, <2>1
  <2>3. t \in Threads /\ l \notin Known(t)
    <3>1. t \in Threads
      BY <2>2, ElementOfSeq
    <3>2. Referenced(t)
      BY <3>1 DEF UseInv
    <3> HIDE DEF t, q
    <3> QED BY <2>1, <3>1, <3>2 DEF Referenced
  <2>4. \A u \in Threads : l \in Known(u) => \E i \in DOMAIN todo'[l] : todo'[l][i] = u
    <3> SUFFICES ASSUME NEW u \in Threads, l \in Known(u)
                 PROVE  \E i \in DOMAIN todo'[l] : todo'[l][i] = u
      OBVIOUS
    <3>1. PICK i \in DOMAIN q : q[i] = u
      BY <2>1 DEF UseInv, Referenced
    <3>2. i \in 1 .. Len(q) /\ i # 1 /\ Len(q) \in Nat
      BY <2>2, <2>3, <3>1
    <3> HIDE DEF q
    <3>3. /\ Tail(q) \in Seq(Threads) /\ Len(Tail(q)) = Len(q) - 1
          /\ \A j \in 1 .. Len(q) - 1 : Tail(q)[j] = q[j + 1]
      BY <2>2, HeadTailProperties
    <3>4. i - 1 \in 1 .. Len(q) - 1 /\ (i - 1) + 1 = i
      BY <3>2
    <3>5. i - 1 \in DOMAIN Tail(q) /\ Tail(q)[i - 1] = u
      BY <3>1, <3>3, <3>4
    <3> QED BY <2>1, <3>5
  <2> HIDE DEF t, q
  <2> QED BY <1>1, <2>1, <2>4, OwnerKeepsUse
<1>9. CASE Delete(l)
  <2>1. /\ UNCHANGED <<added, threadVars, workVars>>
        /\ \A m \in Lists \ {l} : opc'[m] = opc[m] /\ todo'[m] = todo[m]
        /\ opc[l] = "freeing" /\ todo[l] = <<>>
    BY <1>2, <1>9 DEF Delete, OwnerGoto, ringVars
  <2>2. \A t \in Threads : l \notin Known(t)
    <3>1. DOMAIN todo[l] = {}
      BY <2>1
    <3> QED BY <2>1, <3>1 DEF UseInv, Referenced
  <2> QED BY <1>1, <2>1, <2>2, OwnerKeepsUse
<1> QED
  BY <1>3, <1>4, <1>5, <1>6, <1>7, <1>8, <1>9 DEF Owner, Goes

LEMMA ThreadStepUse ==
    ASSUME IInv, UseInv, NoWrapAround, NEW t \in Threads, JobThread(t)
    PROVE  UseInv'
<1>1. TypeOK /\ Ring(t) /\ TableKept(t) /\ Referenced(t)
  BY DEF IInv, UseInv
<1>2. UNCHANGED <<opc, todo>>
  BY DEF JobThread, Granted, TakeWork, ReportIdle, Fetch, Copy, Advance, Choose, Outdated, Enter, Stall,
         FinishJob, TakeJob, TakeDone, PastEnd, ownerVars
<1>3. \A u \in Threads : /\ tpc[u] \in ThreadLabels /\ moreWorkToDo[u] \in BOOLEAN
                         /\ workerDone[u] \in BOOLEAN
  BY <1>1 DEF TypeOK, ThreadTypeOK
<1>4. CASE TakeWork(t) \/ ReportIdle(t)
  <2>1. UNCHANGED <<added, table>>
    BY <1>4 DEF TakeWork, ReportIdle, ringVars
  <2>2. \A u \in Threads : Known(u)' = Known(u)
    BY <2>1, KnownUntouched
  <2>3. \A u \in Threads \ {t} : /\ tpc'[u] = tpc[u] /\ moreWorkToDo'[u] = moreWorkToDo[u]
                                  /\ workerDone'[u] = workerDone[u]
    BY <1>1, <1>4 DEF TakeWork, ReportIdle, Goto, TypeOK, ThreadTypeOK
  <2>4. /\ workerDone'[t] => tpc'[t] = "asleep" /\ ~moreWorkToDo'[t]
        /\ tpc'[t] \in {"asleep", "returned"} /\ ~moreWorkToDo'[t] =>
               tpc[t] \in {"asleep", "returned"} /\ ~moreWorkToDo[t]
    BY <1>1, <1>4 DEF TakeWork, ReportIdle, Goto, TypeOK, ThreadTypeOK, Referenced
  <2> QED BY <1>2, <2>2, <2>3, <2>4, ThreadKeepsUse
<1>5. CASE ~(TakeWork(t) \/ ReportIdle(t))
  <2>1. /\ UNCHANGED workVars
        /\ \A u \in Threads \ {t} :
               added'[u] = added[u] /\ table'[u] = table[u] /\ tpc'[u] = tpc[u]
    BY <1>1, <1>5 DEF JobThread, Granted, Fetch, Copy, Advance, Choose, Outdated, Enter, Stall, FinishJob,
                      TakeJob, TakeDone, PastEnd, Done, RemoveCurrent, Goto, ringVars, TypeOK, ThreadTypeOK, RingTypeOK
  <2>2. \A u \in Threads \ {t} : /\ Known(u)' = Known(u) /\ tpc'[u] = tpc[u]
                                  /\ moreWorkToDo'[u] = moreWorkToDo[u] /\ workerDone'[u] = workerDone[u]
    BY <2>1, KnownUntouched DEF workVars
  <2>3. tpc[t] \notin {"asleep", "returned"}
    BY <1>5 DEF JobThread, Granted, Fetch, Copy, Advance, Choose, Outdated, Enter, Stall, FinishJob,
                TakeJob, TakeDone, PastEnd
  <2>4. ~workerDone'[t]
    BY <1>1, <2>1, <2>3 DEF Referenced, workVars
  <2>5. CASE Fetch(t)
    <3>1. Known(t)' = Known(t)
      BY <2>5, KnownUntouched DEF Fetch, ringVars
    <3>2. tpc'[t] \in {"asleep", "returned"} => Known(t)' = {}
      <4>1. ASSUME tpc'[t] \in {"asleep", "returned"}
            PROVE  table[t] = <<>> /\ ~NotEmpty(t)
        <5>1. table[t] = <<>> /\ ~(Len(table[t]) < Capacity /\ NotEmpty(t))
          BY <1>1, <2>5, <4>1 DEF Fetch, Goto, TypeOK, ThreadTypeOK
        <5>2. table[t] = <<>> => Len(table[t]) < Capacity
          BY Sizes
        <5> QED BY <5>1, <5>2
      <4>2. ~NotEmpty(t) => added[t] = <<>>
        <5>1. /\ firstJobList[t] \in 0 .. CounterSize - 1 /\ lastJobList[t] \in 0 .. CounterSize - 1
              /\ firstJobList[t] <= lastJobList[t]
          BY <1>1 DEF TypeOK, RingTypeOK, NoWrapAround
        <5>2. ~NotEmpty(t) => Minus(lastJobList[t], firstJobList[t]) = 0
          <6>1. lastJobList[t] = firstJobList[t] => lastJobList[t] - firstJobList[t] = 0
            BY <5>1
          <6>2. 0 % CounterSize = 0
            BY Sizes, SmallRemainder
          <6> QED BY <5>1, <6>1, <6>2 DEF NotEmpty, Minus
        <5>3. Minus(lastJobList[t], firstJobList[t]) = Len(added[t]) /\ added[t] \in Seq(Entry)
          BY <1>1, RingCounts
        <5> QED BY <5>2, <5>3
      <4>3. added[t] = <<>> /\ table[t] = <<>> => Known(t) = {}
        BY DEF Known
      <4> QED BY <3>1, <4>1, <4>2, <4>3
    <3> QED BY <1>2, <2>2, <2>4, <3>1, <3>2, ThreadKeepsUse
  <2>6. CASE ~Fetch(t)
    <3>1. tpc'[t] \notin {"asleep", "returned"}
      BY <1>1, <1>5, <2>6 DEF JobThread, Granted, Copy, Advance, Choose, Outdated, Enter, Stall, FinishJob,
                             TakeJob, TakeDone, PastEnd, Done, Goto, TypeOK, ThreadTypeOK
    <3>2. Known(t)' \subseteq Known(t)
      <4> SUFFICES
            /\ \A i \in 1 .. Len(added'[t]) : added'[t][i].list \in Known(t)
            /\ \A i \in 1 .. Len(table'[t]) : table'[t][i].list \in Known(t)
        <5>1. Known(t)' = {added'[t][i].list : i \in 1 .. Len(added'[t])}
                              \cup {table'[t][i].list : i \in 1 .. Len(table'[t])}
          BY DEF Known
        <5> QED BY <5>1
      <4>1. /\ \A i \in 1 .. Len(added[t]) : added[t][i].list \in Known(t)
            /\ \A i \in 1 .. Len(table[t]) : table[t][i].list \in Known(t)
        BY DEF Known
      <4>2. CASE Copy(t)
        <5> DEFINE e == slots[t][firstJobList[t] % Capacity]
        <5>1. added[t] \in Seq(Entry) /\ added[t] # <<>> /\ firstJobList[t] \in Int
          BY <1>1, <4>2, RingCounts DEF Ring, Copy
        <5>2. e = added[t][1] /\ 1 \in 1 .. Len(added[t])
          <6>1. 1 \in 1 .. Len(added[t]) /\ firstJobList[t] + 1 - 1 = firstJobList[t]
            BY <5>1
          <6> QED BY <1>1, <6>1 DEF Ring
        <5>3. table[t] \in Seq(Entry) /\ table'[t] = Append(table[t], e) /\ UNCHANGED added
          BY <1>1, <4>2 DEF Copy, ringVars, TypeOK, ThreadTypeOK
        <5> DEFINE q == table[t]
                   n == Len(q)
        <5>4. q \in Seq(Entry) /\ n \in Nat /\ table'[t] = Append(q, e)
          BY <5>3
        <5>5. e.list \in Known(t)
          BY <4>1, <5>2
        <5>6. \A i \in 1 .. n : q[i].list \in Known(t)
          BY <4>1
        <5> HIDE DEF q, e
        <5>7. Len(Append(q, e)) = n + 1 /\ Append(q, e)[n + 1] = e /\ \A i \in 1 .. n : Append(q, e)[i] = q[i]
          BY <5>4
        <5>8. \A i \in 1 .. n + 1 : i \in 1 .. n \/ i = n + 1
          BY <5>4
        <5> QED BY <4>1, <5>3, <5>4, <5>5, <5>6, <5>7, <5>8
      <4>3. CASE Advance(t)
        <5> DEFINE q == added[t]
        <5>1. q \in Seq(Entry) /\ q # <<>> /\ added'[t] = Tail(q) /\ UNCHANGED table
          BY <1>1, <4>3 DEF Advance, Ring, TypeOK, RingTypeOK
        <5>2. \A i \in 1 .. Len(q) : q[i].list \in Known(t)
          BY <4>1
        <5> HIDE DEF q
        <5>3. Len(q) \in Nat /\ Len(Tail(q)) = Len(q) - 1 /\ \A i \in 1 .. Len(q) - 1 : Tail(q)[i] = q[i + 1]
          BY <5>1, HeadTailProperties
        <5>4. \A i \in 1 .. Len(q) - 1 : i + 1 \in 1 .. Len(q)
          BY <5>3
        <5>5. \A i \in 1 .. Len(Tail(q)) : Tail(q)[i].list \in Known(t)
          BY <5>2, <5>3, <5>4
        <5> QED BY <4>1, <5>1, <5>5
      <4>4. CASE ~Copy(t) /\ ~Advance(t)
        <5>1. /\ UNCHANGED added
              /\ \/ UNCHANGED table
                 \/ Done(t) /\ tpc[t] \in {"enter", "inside", "job"} /\ UNCHANGED <<current, single>>
          BY <1>5, <2>6, <4>4 DEF JobThread, Granted, Choose, Outdated, Enter, Stall, FinishJob, TakeJob, TakeDone,
                                  PastEnd, ringVars
        <5>2. CASE UNCHANGED table
          BY <4>1, <5>1, <5>2
        <5>3. CASE Done(t) /\ tpc[t] \in {"enter", "inside", "job"} /\ UNCHANGED <<current, single>>
          <6>1. \A k \in 1 .. Len(table'[t]) : \E j \in 1 .. Len(table[t]) : table'[t][k] = table[t][j]
            BY <5>3, DoneKeepsTable
          <6> QED BY <4>1, <5>1, <6>1
        <5> QED BY <5>1, <5>2, <5>3
      <4> QED BY <4>2, <4>3, <4>4
    <3> QED BY <1>2, <2>2, <2>4, <3>1, <3>2, ThreadKeepsUse
  <2> QED BY <2>5, <2>6
<1> QED
  BY <1>4, <1>5

LEMMA StepUse == IInv /\ UseInv /\ NoWrapAround /\ [Next]_vars => UseInv'
<1> SUFFICES ASSUME IInv, UseInv, NoWrapAround, [Next]_vars PROVE UseInv'
  OBVIOUS
<1>1. CASE UNCHANGED vars
  <2> SUFFICES ASSUME NEW t \in Threads PROVE Referenced(t)'
    BY DEF UseInv
  <2>1. UNCHANGED <<opc, todo, added, table, tpc, moreWorkToDo, workerDone>>
    BY <1>1 DEF vars, ownerVars, ringVars, workVars, threadVars
  <2>2. Known(t)' = Known(t)
    BY <2>1, KnownUntouched
  <2> QED BY <2>1, <2>2 DEF UseInv, Referenced
<1>2. CASE \E l \in Lists : Owner(l)
  BY <1>2, OwnerStepUse
<1>3. CASE \E t \in Threads : JobThread(t)
  BY <1>3, ThreadStepUse
<1>4. CASE AllOver
  BY <1>1, <1>4 DEF AllOver
<1> QED
  BY <1>1, <1>2, <1>3, <1>4 DEF Next

\* Until the counters of a ring wrap around, which takes 2^32 lists handed to one
\* thread, FreeJobList deletes a list only when no thread can look at it again, and
\* the indices Run keeps across its iterations name entries of its table.  Once they
\* do wrap, Run takes a ring for empty that is not, and reports itself idle.
THEOREM FreedIsForgotten == Spec /\ []NoWrapAround => []NoUseAfterFree
<1>1. IInv /\ UseInv => NoUseAfterFree
  BY DEF IInv, TableKept, UseInv, Referenced, NoUseAfterFree, IndicesInTable
<1> QED
  BY <1>1, Invariance, InitUse, StepUse, PTL DEF Spec
=============================================================================
