---------------------------- MODULE EventQueueProofs ----------------------------
(***************************************************************************)
(* Proofs about EventQueue: its type invariant, that no deleted object has  *)
(* an event in the queue, and that the queue keeps the promise EventPromise *)
(* makes, for every number of objects, event definitions and events.        *)
(***************************************************************************)
EXTENDS EventQueue, WellFoundedInduction, SequenceTheorems, FiniteSetTheorems, TLAPS

\* The order of service: by time, and by the order of posting at one time.
Ordered(events) ==
    \A i, j \in DOMAIN events : i < j => Promise!Before(events[i], events[j])

\* A queue that ServiceEvents may be given when these objects exist.
Servable(events, objects) ==
    /\ Ordered(events)
    /\ \A e \in Range(events) : e.object \in objects /\ e.posted <= MaxOrder

NotOverdue(events, t) == \A e \in Range(events) : e.time >= t

\* What NoDeadReceiver and KeepsPromise need of a state to hold after the next step:
\* the queue is in order, nothing in it is overdue after service, an event
\* that is being served is not counted as free, and the same of the saved game.
IInv ==
    /\ TypeOK
    /\ FreeEventsNum + Len(queue) + (IF serving = None THEN 0 ELSE 1) <= MAX_EVENTS
    /\ Servable(queue, alive)
    /\ serving # None => phase = "service"
    /\ phase \in {"converse", "between"} => NotOverdue(queue, time)
    /\ saved # None => Servable(saved.queue, saved.alive) /\ NotOverdue(saved.queue, saved.time)

-----------------------------------------------------------------------------
(* The operators.                                                          *)

\* A set of numbers has a least element, from the library's theorem on well-founded
\* relations; induction over numbers is drawn from it.
LEMMA LeastElement ==
    ASSUME NEW T \in SUBSET Nat, T # {}
    PROVE  \E n \in T : \A m \in T : n <= m
<1>1. PICK n \in T : \A m \in T : <<m, n>> \notin OpToRel(<, Nat)
  BY NatLessThanWellFounded, WFMin
<1>2. \A m \in T : ~(m < n)
  BY <1>1 DEF OpToRel
<1> QED
  BY <1>2

\* Induction over the numbers up to N, for a set instead of a predicate.
LEMMA InductionUpTo ==
    ASSUME NEW N \in Nat, NEW T, 0 \in T, \A n \in 0 .. N - 1 : n \in T => n + 1 \in T
    PROVE  0 .. N \subseteq T
<1> DEFINE Bad == {n \in 0 .. N : n \notin T}
<1> SUFFICES ASSUME Bad # {} PROVE FALSE
  OBVIOUS
<1>1. PICK n \in Bad : \A m \in Bad : n <= m
  <2>1. Bad \in SUBSET Nat
    OBVIOUS
  <2> HIDE DEF Bad
  <2> QED BY <2>1, LeastElement
<1>2. n # 0
  OBVIOUS
<1>3. n - 1 \in 0 .. N - 1 /\ n - 1 \notin Bad
  BY <1>1, <1>2
<1> QED
  BY <1>3

\* The greatest of a bounded set of numbers, which numbers the posted events.
LEMMA MaxIsGreatest ==
    ASSUME NEW B \in Nat, NEW T \in SUBSET (0 .. B), T # {}
    PROVE  Max(T) \in T /\ \A m \in T : m <= Max(T)
<1> DEFINE Ups == {n \in Nat : \A m \in T : m <= n}
<1>1. B \in Ups
  OBVIOUS
<1>2. PICK n \in Ups : \A m \in Ups : n <= m
  <2> HIDE DEF Ups
  <2> QED BY <1>1, LeastElement DEF Ups
<1>3. n \in T
  <2>1. SUFFICES ASSUME n \notin T PROVE FALSE
    OBVIOUS
  <2>2. PICK m \in T : TRUE
    OBVIOUS
  <2>4. n # 0 
    BY <2>1, <2>2, m \in 0 .. B, m <= n
  <2>3. n - 1 \in Ups
    BY <2>1, <2>4
  <2> QED BY <2>3, <1>2, <2>4
<1>4. \E x \in T : \A m \in T : x >= m
  BY <1>3
<1> QED BY <1>4 DEF Max

\* The recursive function of Without satisfies its recursion equation.
LEMMA KeptIsDefined ==
    ASSUME NEW S, NEW events \in Seq(S), NEW gone
    PROVE  \E kept : /\ kept = [i \in 0 .. Len(events) |->
                          IF i = 0 THEN <<>>
                          ELSE IF events[i] \in gone THEN kept[i - 1] ELSE Append(kept[i - 1], events[i])]
                     /\ Without(events, gone) = kept[Len(events)]
<1> DEFINE N == Len(events)
           Body(f, i) == IF i = 0 THEN <<>>
                         ELSE IF events[i] \in gone THEN f[i - 1] ELSE Append(f[i - 1], events[i])
           Good == {n \in 0 .. N : \E f : f = [i \in 0 .. n |-> Body(f, i)]}
<1>1. N \in Nat
  OBVIOUS
<1>2. 0 \in Good
  <2> DEFINE f == [i \in 0 .. 0 |-> <<>>]
  <2>1. f = [i \in 0 .. 0 |-> Body(f, i)]
    OBVIOUS
  <2> HIDE DEF f, Body
  <2> QED BY <1>1, <2>1
<1>3. \A n \in 0 .. N - 1 : n \in Good => n + 1 \in Good
  <2> TAKE n \in 0 .. N - 1
  <2> HAVE n \in Good
  <2>1. PICK f : f = [i \in 0 .. n |-> Body(f, i)]
    OBVIOUS
  <2> DEFINE g == [i \in 0 .. n + 1 |-> IF i = n + 1 THEN Body(f, n + 1) ELSE f[i]]
  <2>2. \A i \in 0 .. n + 1 : i # 0 => i - 1 \in 0 .. n /\ i - 1 # n + 1
    BY <1>1
  <2>3. \A i \in 0 .. n + 1 : g[i] = Body(g, i)
    <3> TAKE i \in 0 .. n + 1
    <3>1. i # 0 => g[i - 1] = f[i - 1]
      BY <2>2
    <3>2. Body(g, i) = Body(f, i)
      BY <3>1
    <3>3. i # n + 1 => f[i] = Body(f, i)
      <4>1. i # n + 1 => i \in 0 .. n
        OBVIOUS
      <4> HIDE DEF Body
      <4> QED BY <2>1, <4>1
    <3> HIDE DEF Body
    <3> QED BY <3>2, <3>3
  <2>4. g = [i \in 0 .. n + 1 |-> Body(g, i)]
    <3> HIDE DEF Body
    <3> QED BY <2>3
  <2> QED
    <3> HIDE DEF g, Body
    <3> QED BY <2>4, <1>1
<1>4. N \in Good
  <2> HIDE DEF Good, N, Body
  <2>1. 0 .. N \subseteq Good
    BY <1>1, <1>2, <1>3, InductionUpTo
  <2> QED BY <2>1, <1>1
<1>5. \E f : f = [i \in 0 .. N |-> Body(f, i)]
  BY <1>4
<1> DEFINE kept == CHOOSE f : f = [i \in 0 .. Len(events) |->
                          IF i = 0 THEN <<>>
                          ELSE IF events[i] \in gone THEN f[i - 1] ELSE Append(f[i - 1], events[i])]
<1>6. kept = [i \in 0 .. Len(events) |->
                          IF i = 0 THEN <<>>
                          ELSE IF events[i] \in gone THEN kept[i - 1] ELSE Append(kept[i - 1], events[i])]
  BY <1>5
<1>7. Without(events, gone) = kept[Len(events)]
  BY DEF Without
<1> QED
  BY <1>6, <1>7

\* What CancelEvents leaves of a list: nothing it frees, everything else, in the same
\* order.
LEMMA WithoutKeepsOrder ==
    ASSUME NEW S, NEW events \in Seq(S), NEW gone
    PROVE  LET left == Without(events, gone) IN
           /\ left \in Seq(S) /\ Len(left) <= Len(events)
           /\ Range(left) = Range(events) \ gone
           /\ \A i, j \in DOMAIN left : i < j =>
                \E k, l \in DOMAIN events : k < l /\ left[i] = events[k] /\ left[j] = events[l]
<1> DEFINE N == Len(events)
<1>1. PICK kept : /\ kept = [i \in 0 .. N |->
                          IF i = 0 THEN <<>>
                          ELSE IF events[i] \in gone THEN kept[i - 1] ELSE Append(kept[i - 1], events[i])]
                  /\ Without(events, gone) = kept[N]
  BY KeptIsDefined
<1> DEFINE Typed(n) == kept[n] \in Seq(S) /\ Len(kept[n]) <= n
           Drawn(n) == \A i \in 1 .. Len(kept[n]) :
                          kept[n][i] \notin gone /\ \E k \in 1 .. n : kept[n][i] = events[k]
           Full(n) == \A k \in 1 .. n : events[k] \notin gone =>
                          \E i \in 1 .. Len(kept[n]) : kept[n][i] = events[k]
           InOrder(n) == \A i, j \in 1 .. Len(kept[n]) : i < j =>
                          \E k, l \in 1 .. n : k < l /\ kept[n][i] = events[k] /\ kept[n][j] = events[l]
           Good == {n \in 0 .. N : Typed(n) /\ Drawn(n) /\ Full(n) /\ InOrder(n)}
<1>2. N \in Nat /\ DOMAIN events = 1 .. N /\ \A i \in 1 .. N : events[i] \in S
  OBVIOUS
<1>3. 0 \in Good
  <2>1. kept[0] = <<>> /\ kept[0] \in Seq(S) /\ Len(kept[0]) = 0
    BY <1>1, <1>2
  <2>2. 1 .. 0 = {} /\ 0 \in 0 .. N
    BY <1>2
  <2>3. Typed(0) /\ Drawn(0) /\ Full(0) /\ InOrder(0)
    BY <2>1, <2>2
  <2> HIDE DEF Typed, Drawn, Full, InOrder
  <2> QED BY <2>2, <2>3
<1>4. \A n \in 0 .. N - 1 : n \in Good => n + 1 \in Good
  <2> TAKE n \in 0 .. N - 1
  <2> HAVE n \in Good
  <2> DEFINE e == events[n + 1]
  <2>1. n \in Nat /\ n + 1 \in 0 .. N /\ n + 1 \in 1 .. N /\ n + 1 # 0 /\ (n + 1) - 1 = n /\ e \in S
    BY <1>2
  <2>2. kept[n + 1] = IF e \in gone THEN kept[n] ELSE Append(kept[n], e)
    <3>1. \A i \in 0 .. N : kept[i] =
             IF i = 0 THEN <<>>
             ELSE IF events[i] \in gone THEN kept[i - 1] ELSE Append(kept[i - 1], events[i])
      BY <1>1
    <3> HIDE DEF N
    <3> QED BY <3>1, <2>1
  <2>3. Typed(n) /\ Drawn(n) /\ Full(n) /\ InOrder(n)
    OBVIOUS
  <2>4. \A k \in 1 .. n + 1 : k \in 1 .. n \/ k = n + 1
    BY <2>1
  <2>5. 1 .. n \subseteq 1 .. n + 1
    BY <2>1
  <2>6. CASE e \in gone
    <3>1. kept[n + 1] = kept[n]
      BY <2>2, <2>6
    <3>2. Typed(n + 1)
      BY <2>1, <2>3, <3>1
    <3>3. Drawn(n + 1)
      BY <2>3, <2>5, <3>1
    <3>4. Full(n + 1)
      BY <2>3, <2>4, <2>6, <3>1
    <3>5. InOrder(n + 1)
      BY <2>3, <2>5, <3>1
    <3> QED BY <2>1, <3>2, <3>3, <3>4, <3>5
  <2>7. CASE e \notin gone
    <3> DEFINE m == Len(kept[n])
    <3>1. kept[n + 1] = Append(kept[n], e)
      BY <2>2, <2>7
    <3>2. /\ kept[n + 1] \in Seq(S) /\ m \in Nat /\ Len(kept[n + 1]) = m + 1
          /\ kept[n + 1][m + 1] = e
          /\ \A i \in 1 .. m : kept[n + 1][i] = kept[n][i]
      BY <2>1, <2>3, <3>1
    <3>3. \A i \in 1 .. m + 1 : i \in 1 .. m \/ i = m + 1
      BY <3>2
    <3>4. Typed(n + 1)
      BY <2>1, <2>3, <3>2
    <3>5. Drawn(n + 1)
      <4> SUFFICES ASSUME NEW i \in 1 .. m + 1
                   PROVE  kept[n + 1][i] \notin gone /\ \E k \in 1 .. n + 1 : kept[n + 1][i] = events[k]
        BY <3>2
      <4>1. CASE i = m + 1
        BY <4>1, <2>7, <3>2, n + 1 \in 1 .. n + 1, <2>1
      <4>2. CASE i \in 1 .. m
        <5>1. kept[n][i] \notin gone /\ \E k \in 1 .. n : kept[n][i] = events[k]
          BY <4>2, <2>3
        <5> QED BY <4>2, <5>1, <2>5, <3>2
      <4> QED BY <4>1, <4>2, <3>3
    <3>6. Full(n + 1)
      <4> SUFFICES ASSUME NEW k \in 1 .. n + 1, events[k] \notin gone
                   PROVE  \E i \in 1 .. m + 1 : kept[n + 1][i] = events[k]
        BY <3>2
      <4>1. CASE k = n + 1
        <5>1. m + 1 \in 1 .. m + 1
          BY <3>2
        <5> QED BY <4>1, <5>1, <3>2
      <4>2. CASE k \in 1 .. n
        <5>1. PICK i \in 1 .. m : kept[n][i] = events[k]
          BY <4>2, <2>3
        <5> QED BY <5>1, <3>2
      <4> QED BY <4>1, <4>2, <2>4
    <3>7. InOrder(n + 1)
      <4> SUFFICES ASSUME NEW i \in 1 .. m + 1, NEW j \in 1 .. m + 1, i < j
                   PROVE  \E k, l \in 1 .. n + 1 :
                             k < l /\ kept[n + 1][i] = events[k] /\ kept[n + 1][j] = events[l]
        BY <3>2
      <4>1. i \in 1 .. m
        BY <3>2
      <4>2. CASE j = m + 1
        <5>1. PICK k \in 1 .. n : kept[n][i] = events[k]
          BY <4>1, <2>3
        <5>2. k < n + 1 /\ k \in 1 .. n + 1 /\ n + 1 \in 1 .. n + 1
          BY <2>1
        <5> QED BY <5>1, <5>2, <4>1, <4>2, <3>2
      <4>3. CASE j \in 1 .. m
        <5>1. PICK k \in 1 .. n, l \in 1 .. n : k < l /\ kept[n][i] = events[k] /\ kept[n][j] = events[l]
          BY <4>1, <4>3, <2>3
        <5> QED BY <5>1, <4>1, <4>3, <3>2, <2>5
      <4> QED BY <4>2, <4>3, <3>3
    <3> QED BY <2>1, <3>4, <3>5, <3>6, <3>7
  <2> QED BY <2>6, <2>7
<1>5. Typed(N) /\ Drawn(N) /\ Full(N) /\ InOrder(N)
  <2>1. 0 .. N \subseteq Good
    <3> HIDE DEF Good, N
    <3> QED BY <1>2, <1>3, <1>4, InductionUpTo
  <2>2. N \in Good
    <3>1. N \in 0 .. N
      BY <1>2
    <3> HIDE DEF N, Good
    <3> QED BY <2>1, <3>1
  <2> HIDE DEF N, Typed, Drawn, Full, InOrder
  <2> QED BY <2>2
<1> DEFINE left == kept[N]
<1>6. DOMAIN left = 1 .. Len(left)
  BY <1>5
<1>7. Range(left) = Range(events) \ gone
  <2>1. \A x : x \in Range(left) <=> \E i \in 1 .. Len(left) : x = left[i]
    BY <1>6 DEF Range
  <2>2. \A x : x \in Range(events) <=> \E k \in 1 .. N : x = events[k]
    BY <1>2 DEF Range
  <2>3. \A i \in 1 .. Len(left) : left[i] \notin gone /\ \E k \in 1 .. N : left[i] = events[k]
    BY <1>5
  <2>4. \A k \in 1 .. N : events[k] \notin gone => \E i \in 1 .. Len(left) : left[i] = events[k]
    BY <1>5
  <2> HIDE DEF left, N
  <2> QED BY <2>1, <2>2, <2>3, <2>4, SMTT(30)
<1>8. \A i, j \in DOMAIN left : i < j =>
        \E k, l \in DOMAIN events : k < l /\ left[i] = events[k] /\ left[j] = events[l]
  <2>1. InOrder(N)
    BY <1>5
  <2>2. \A i, j \in 1 .. Len(left) : i < j =>
          \E k, l \in 1 .. N : k < l /\ left[i] = events[k] /\ left[j] = events[l]
    BY <2>1
  <2> HIDE DEF left, N
  <2> SUFFICES ASSUME NEW i \in DOMAIN left, NEW j \in DOMAIN left, i < j
               PROVE  \E k, l \in DOMAIN events : k < l /\ left[i] = events[k] /\ left[j] = events[l]
    OBVIOUS
  <2>3. PICK k \in 1 .. N, l \in 1 .. N : k < l /\ left[i] = events[k] /\ left[j] = events[l]
    BY <2>2, <1>6
  <2> QED BY <2>3, <1>2
<1>9. Without(events, gone) = left /\ left \in Seq(S) /\ Len(left) <= Len(events)
  BY <1>1, <1>5
<1> HIDE DEF left
<1> QED
  BY <1>7, <1>8, <1>9

\* Where Schedule inserts: behind a first part of the queue.
LEMMA AheadIsPrefix ==
    ASSUME NEW S, NEW s \in Seq(S), NEW P \in SUBSET (1 .. Len(s)),
           \A i \in P : \A j \in 1 .. i : j \in P
    PROVE  \E k \in 0 .. Len(s) : P = 1 .. k /\ Cardinality(P) = k
<1> DEFINE N == Len(s)
           Out == {k \in 0 .. N : k + 1 \notin P}
<1>1. N \in Nat
  OBVIOUS
<1>2. N \in Out
  BY <1>1
<1>3. PICK k \in Out : \A m \in Out : k <= m
  <2> Out \in SUBSET Nat
    OBVIOUS
  <2> HIDE DEF Out
  <2> QED BY <1>2, LeastElement
<1>4. k \in Nat /\ k <= N /\ k + 1 \notin P
  BY <1>1, <1>3
<1>5. \A i \in P : i <= k
  <2> SUFFICES ASSUME NEW i \in P, i > k PROVE FALSE
    BY <1>1, <1>4
  <2>1. k + 1 \in 1 .. i
    BY <1>1, <1>4
  <2> QED BY <2>1, <1>4
<1>6. \A i \in 1 .. k : i \in P
  <2> SUFFICES ASSUME NEW i \in 1 .. k, i \notin P PROVE FALSE
    OBVIOUS
  <2>1. i - 1 \in 0 .. N /\ (i - 1) + 1 = i /\ i - 1 < k
    BY <1>1, <1>4
  <2>2. i - 1 \in Out
    BY <2>1
  <2> QED BY <2>1, <2>2, <1>3
<1>7. P = 1 .. k
  <2>1. \A i \in P : i \in 1 .. k
    BY <1>1, <1>4, <1>5
  <2> QED BY <2>1, <1>6
<1>8. Cardinality(1 .. k) = k
  BY <1>4, FS_Interval
<1> QED
  BY <1>1, <1>4, <1>7, <1>8

\* Schedule adds its event and keeps the order of service, provided the event is
\* numbered behind those due at the same time.
LEMMA ScheduledKeepsOrder ==
    ASSUME queue \in Seq(Event), Ordered(queue), NEW event \in Event,
           \A e \in Range(queue) : e.time = event.time => e.posted < event.posted
    PROVE  /\ Scheduled(event) \in Seq(Event)
           /\ Len(Scheduled(event)) = Len(queue) + 1
           /\ Range(Scheduled(event)) = Range(queue) \cup {event}
           /\ Ordered(Scheduled(event))
<1> DEFINE N == Len(queue)
           ahead == {i \in DOMAIN queue : \A j \in 1 .. i : event.time >= queue[j].time}
<1>1. N \in Nat /\ DOMAIN queue = 1 .. N /\ \A i \in 1 .. N : queue[i] \in Event
  OBVIOUS
<1>2. PICK k \in 0 .. N : ahead = 1 .. k /\ Cardinality(ahead) = k
  <2>1. ahead \in SUBSET (1 .. N)
    BY <1>1
  <2>2. \A i \in ahead : \A j \in 1 .. i : j \in ahead
    BY <1>1
  <2> HIDE DEF ahead
  <2> QED BY <2>1, <2>2, AheadIsPrefix
<1> DEFINE front == SubSeq(queue, 1, k)
           back == SubSeq(queue, k + 1, N)
           new == front \o <<event>> \o back
<1>3. Scheduled(event) = new
  <2>1. (k + 1) - 1 = k
    BY <1>1, <1>2
  <2>2. Scheduled(event) = InsertAt(queue, k + 1, event)
    BY <1>2 DEF Scheduled
  <2> QED BY <2>1, <2>2 DEF InsertAt
<1>4. front \in Seq(Event) /\ Len(front) = k /\ \A i \in 1 .. k : front[i] = queue[i]
  BY <1>1, <1>2, SubSeqProperties
<1>5. back \in Seq(Event) /\ Len(back) = N - k /\ \A i \in 1 .. N - k : back[i] = queue[k + i]
  <2>1. \A i \in k + 1 .. N : queue[i] \in Event
    BY <1>1, <1>2
  <2>2. k + 1 \in Int /\ N \in Int
    BY <1>1, <1>2
  <2> HIDE DEF N
  <2>3. /\ back \in Seq(Event) /\ Len(back) = IF k + 1 <= N THEN N - (k + 1) + 1 ELSE 0
        /\ \A i \in 1 .. N - (k + 1) + 1 : back[i] = queue[(k + 1) + i - 1]
    BY <2>1, <2>2, SubSeqProperties
  <2> HIDE DEF back
  <2>4. N - (k + 1) + 1 = N - k /\ \A i \in 1 .. N - k : (k + 1) + i - 1 = k + i
    BY <1>1, <1>2
  <2> QED BY <1>1, <1>2, <2>3, <2>4
<1>6. /\ new \in Seq(Event) /\ Len(new) = N + 1
      /\ \A i \in 1 .. k : new[i] = queue[i]
      /\ new[k + 1] = event
      /\ \A i \in k + 2 .. N + 1 : new[i] = queue[i - 1]
  <2> HIDE DEF front, back
  <2> DEFINE most == front \o <<event>>
  <2>1. /\ most \in Seq(Event) /\ Len(most) = k + 1
        /\ most[k + 1] = event /\ \A i \in 1 .. k : most[i] = queue[i]
    BY <1>1, <1>2, <1>4
  <2> HIDE DEF most
  <2>2. /\ most \o back \in Seq(Event) /\ Len(most \o back) = (k + 1) + (N - k)
        /\ \A i \in 1 .. (k + 1) + (N - k) : (most \o back)[i] =
               IF i <= k + 1 THEN most[i] ELSE back[i - (k + 1)]
    <3> HIDE DEF back, N
    <3>1. Len(back) = N - k /\ back \in Seq(Event)
      BY <1>5
    <3>2. /\ most \o back \in Seq(Event) /\ Len(most \o back) = Len(most) + Len(back)
          /\ \A i \in 1 .. Len(most) + Len(back) : (most \o back)[i] =
                 IF i <= Len(most) THEN most[i] ELSE back[i - Len(most)]
      BY <2>1, <3>1, ConcatProperties
    <3> QED BY <2>1, <3>1, <3>2
  <2>3. new = most \o back
    BY DEF most
  <2> HIDE DEF new
  <2>4. (k + 1) + (N - k) = N + 1
    BY <1>1, <1>2
  <2>5. \A i \in 1 .. k : new[i] = queue[i]
    <3>1. \A i \in 1 .. k : i \in 1 .. N + 1 /\ i <= k + 1
      BY <1>1, <1>2
    <3> QED BY <2>1, <2>2, <2>3, <2>4, <3>1
  <2>6. new[k + 1] = event
    <3>1. k + 1 \in 1 .. N + 1 /\ k + 1 <= k + 1
      BY <1>1, <1>2
    <3> QED BY <2>1, <2>2, <2>3, <2>4, <3>1
  <2>7. \A i \in k + 2 .. N + 1 : new[i] = queue[i - 1]
    <3> TAKE i \in k + 2 .. N + 1
    <3>1. i \in 1 .. N + 1 /\ ~(i <= k + 1) /\ i - (k + 1) \in 1 .. N - k /\ k + (i - (k + 1)) = i - 1
      BY <1>1, <1>2
    <3> QED BY <1>5, <2>2, <2>3, <2>4, <3>1
  <2> QED BY <2>2, <2>3, <2>4, <2>5, <2>6, <2>7
<1> HIDE DEF new, front, back
<1>7. DOMAIN new = 1 .. N + 1
  BY <1>6
<1>8. \A i \in 1 .. N + 1 : i \in 1 .. k \/ i = k + 1 \/ i \in k + 2 .. N + 1
  BY <1>1, <1>2
<1>9. Range(new) = Range(queue) \cup {event}
  <2>1. \A x : x \in Range(queue) <=> \E i \in 1 .. N : x = queue[i]
    BY <1>1 DEF Range
  <2>2. \A x : x \in Range(new) <=> \E i \in 1 .. N + 1 : x = new[i]
    BY <1>7 DEF Range
  <2>3. \A i \in 1 .. N + 1 : new[i] = event \/ \E j \in 1 .. N : new[i] = queue[j]
    <3> TAKE i \in 1 .. N + 1
    <3>1. i \in 1 .. k => i \in 1 .. N
      BY <1>1, <1>2
    <3>2. i \in k + 2 .. N + 1 => i - 1 \in 1 .. N
      BY <1>1, <1>2
    <3> QED BY <1>6, <1>8, <3>1, <3>2
  <2>4. \A i \in 1 .. N : \E j \in 1 .. N + 1 : new[j] = queue[i]
    <3> TAKE i \in 1 .. N
    <3>1. CASE i <= k
      BY <3>1, <1>1, <1>2, <1>6
    <3>2. CASE i > k
      <4>1. i + 1 \in k + 2 .. N + 1 /\ (i + 1) - 1 = i /\ i + 1 \in 1 .. N + 1
        BY <3>2, <1>1, <1>2
      <4> QED BY <4>1, <1>6
    <3> QED BY <3>1, <3>2, <1>1, <1>2
  <2>5. k + 1 \in 1 .. N + 1
    BY <1>1, <1>2
  <2> HIDE DEF N
  <2> QED BY <1>6, <2>3, <2>4, <2>5, <2>1, <2>2
<1>10. \A i \in 1 .. k : Promise!Before(queue[i], event)
  <2> TAKE i \in 1 .. k
  <2>1. i \in ahead /\ i \in 1 .. i
    BY <1>1, <1>2
  <2>2. event.time >= queue[i].time
    BY <2>1
  <2>3. queue[i] \in Range(queue) /\ queue[i].time \in Nat /\ event.time \in Nat
    BY <2>1, <1>1 DEF Range, Event
  <2> QED BY <2>2, <2>3 DEF Promise!Before
<1>11. \A i \in k + 1 .. N : Promise!Before(event, queue[i])
  <2>1. CASE k < N
    <3>1. k + 1 \in 1 .. N /\ k + 1 \notin ahead
      BY <2>1, <1>1, <1>2
    <3>2. PICK j \in 1 .. k + 1 : ~(event.time >= queue[j].time)
      BY <3>1, <1>1
    <3>3. j = k + 1
      <4>1. \A i \in 1 .. k : i \in ahead /\ i \in 1 .. i
        BY <1>2
      <4>2. \A i \in 1 .. k : event.time >= queue[i].time
        BY <4>1
      <4> HIDE DEF ahead
      <4> QED BY <4>2, <3>2, <1>2
    <3> TAKE i \in k + 1 .. N
    <3>4. i \in 1 .. N /\ (i = k + 1 \/ k + 1 < i)
      BY <1>1, <1>2
    <3>5. i = k + 1 \/ Promise!Before(queue[k + 1], queue[i])
      BY <3>1, <3>4, <1>1 DEF Ordered
    <3>6. event.time \in Nat /\ queue[i].time \in Nat /\ queue[k + 1].time \in Nat
      BY <3>1, <3>4, <1>1 DEF Event
    <3> QED BY <3>2, <3>3, <3>5, <3>6 DEF Promise!Before
  <2> QED BY <2>1, <1>1, <1>2
<1>12. Ordered(new)
  <2> SUFFICES ASSUME NEW i \in 1 .. N + 1, NEW j \in 1 .. N + 1, i < j
               PROVE  Promise!Before(new[i], new[j])
    BY <1>7 DEF Ordered
  <2>1. CASE j \in 1 .. k
    <3>1. i \in 1 .. k /\ i \in DOMAIN queue /\ j \in DOMAIN queue
      BY <2>1, <1>1, <1>2
    <3> QED BY <2>1, <3>1, <1>6 DEF Ordered
  <2>2. CASE j = k + 1
    <3>1. i \in 1 .. k
      BY <2>2, <1>1, <1>2
    <3> QED BY <2>2, <3>1, <1>6, <1>10
  <2>3. CASE j \in k + 2 .. N + 1
    <3>1. j - 1 \in k + 1 .. N /\ j - 1 \in 1 .. N
      BY <2>3, <1>1, <1>2
    <3>2. CASE i \in 1 .. k
      <4>1. i \in 1 .. N /\ i < j - 1
        BY <2>3, <3>2, <1>1, <1>2
      <4> QED BY <2>3, <3>1, <3>2, <4>1, <1>1, <1>6 DEF Ordered
    <3>3. CASE i = k + 1
      BY <2>3, <3>1, <3>3, <1>6, <1>11
    <3>4. CASE i \in k + 2 .. N + 1
      <4>1. i - 1 \in 1 .. N /\ i - 1 < j - 1
        BY <2>3, <3>4, <1>1, <1>2
      <4> QED BY <2>3, <3>1, <3>4, <4>1, <1>1, <1>6 DEF Ordered
    <3> QED BY <3>2, <3>3, <3>4, <1>8
  <2> QED BY <2>1, <2>2, <2>3, <1>8
<1> QED
  BY <1>3, <1>6, <1>9, <1>12

\* What leaves with the head of the queue is served before whatever stays.
LEMMA TailKeepsOrder ==
    ASSUME queue \in Seq(Event), queue # <<>>, Ordered(queue)
    PROVE  /\ Head(queue) \in Event /\ Head(queue) \in Range(queue)
           /\ Tail(queue) \in Seq(Event) /\ Len(Tail(queue)) = Len(queue) - 1
           /\ Range(Tail(queue)) = Range(queue) \ {Head(queue)}
           /\ \A f \in Range(queue) \ {Head(queue)} : Promise!Before(Head(queue), f)
           /\ Ordered(Tail(queue))
<1> DEFINE N == Len(queue)
           rest == Tail(queue)
<1>1. N \in Nat /\ N >= 1 /\ DOMAIN queue = 1 .. N /\ \A i \in 1 .. N : queue[i] \in Event
  OBVIOUS
<1>2. /\ Head(queue) = queue[1]
      /\ rest \in Seq(Event) /\ Len(rest) = N - 1 /\ DOMAIN rest = 1 .. N - 1
      /\ \A i \in 1 .. N - 1 : rest[i] = queue[i + 1]
  BY HeadTailProperties
<1> HIDE DEF rest, N
<1>3. \A i \in 2 .. N : Promise!Before(queue[1], queue[i])
  BY <1>1 DEF Ordered
<1>4. \A i \in 2 .. N : queue[1] # queue[i]
  <2>1. \A e \in Event : ~Promise!Before(e, e)
    BY DEF Promise!Before, Event
  <2> QED BY <1>1, <1>3, <2>1
<1>5. \A x : x \in Range(queue) <=> \E i \in 1 .. N : x = queue[i]
  BY <1>1 DEF Range
<1>6. \A x : x \in Range(rest) <=> \E i \in 1 .. N - 1 : x = rest[i]
  BY <1>2 DEF Range
<1>7. \A x : x \in Range(rest) <=> \E i \in 2 .. N : x = queue[i]
  <2>1. \A i \in 1 .. N - 1 : i + 1 \in 2 .. N
    BY <1>1
  <2>2. \A i \in 2 .. N : i - 1 \in 1 .. N - 1 /\ (i - 1) + 1 = i
    BY <1>1
  <2> QED BY <1>2, <1>6, <2>1, <2>2
<1>8. \A i \in 1 .. N : i = 1 \/ i \in 2 .. N
  BY <1>1
<1>9. 1 \in 1 .. N /\ \A i \in 2 .. N : i \in 1 .. N
  BY <1>1
<1>10. Range(rest) = Range(queue) \ {queue[1]}
  BY <1>4, <1>5, <1>7, <1>8, <1>9
<1>11. \A f \in Range(rest) : Promise!Before(queue[1], f)
  BY <1>3, <1>7
<1>12. Ordered(rest)
  <2> SUFFICES ASSUME NEW i \in 1 .. N - 1, NEW j \in 1 .. N - 1, i < j
               PROVE  Promise!Before(rest[i], rest[j])
    BY <1>2 DEF Ordered
  <2>1. i + 1 \in 1 .. N /\ j + 1 \in 1 .. N /\ i + 1 < j + 1
    BY <1>1
  <2> QED BY <1>1, <1>2, <2>1 DEF Ordered
<1>13. queue[1] \in Event /\ queue[1] \in Range(queue)
  BY <1>1, <1>5, <1>9
<1> QED
  BY <1>2, <1>10, <1>11, <1>12, <1>13 DEF rest, N

-----------------------------------------------------------------------------
(* The steps.                                                              *)

\* Freeing takes the events of the set out of the queue and returns as many to the
\* pool.
LEMMA FreeingKeepsQueue ==
    ASSUME queue \in Seq(Event), Ordered(queue), FreeEventsNum \in Nat,
           NEW gone, Freeing(gone)
    PROVE  /\ queue' \in Seq(Event) /\ Ordered(queue')
           /\ Range(queue') = Range(queue) \ gone
           /\ FreeEventsNum' \in Nat
           /\ FreeEventsNum' + Len(queue') = FreeEventsNum + Len(queue)
<1>1. /\ queue' \in Seq(Event) /\ Len(queue') <= Len(queue)
      /\ Range(queue') = Range(queue) \ gone
      /\ \A i, j \in DOMAIN queue' : i < j =>
            \E k, l \in DOMAIN queue : k < l /\ queue'[i] = queue[k] /\ queue'[j] = queue[l]
  BY WithoutKeepsOrder DEF Freeing
<1>2. Ordered(queue')
  <2> SUFFICES ASSUME NEW i \in DOMAIN queue', NEW j \in DOMAIN queue', i < j
               PROVE  Promise!Before(queue'[i], queue'[j])
    BY DEF Ordered
  <2>1. PICK k \in DOMAIN queue, l \in DOMAIN queue :
               k < l /\ queue'[i] = queue[k] /\ queue'[j] = queue[l]
    BY <1>1
  <2> QED BY <2>1 DEF Ordered
<1>3. Len(queue) \in Nat /\ Len(queue') \in Nat /\ FreeEventsNum' = FreeEventsNum + Len(queue) - Len(queue')
  BY <1>1 DEF Freeing
<1> QED
  BY <1>1, <1>2, <1>3

\* Post numbers its event behind those that are due at the same time.
LEMMA PostKeepsOrder ==
    ASSUME TypeOK, Servable(queue, alive),
           NEW o \in Objects, NEW d \in EventDefs, NEW delay \in Nat, Post(o, d, delay)
    PROVE  \E event \in Event :
              /\ event.object = o /\ event.time >= time /\ event.posted <= MaxOrder
              /\ \A e \in Range(queue) : e.time = event.time => e.posted < event.posted
              /\ event \notin Range(queue)
              /\ queue' \in Seq(Event) /\ Len(queue') = Len(queue) + 1
              /\ Range(queue') = Range(queue) \cup {event}
              /\ Ordered(queue')
<1> DEFINE numbers == {0} \cup {e.posted : e \in At(time + delay)}
           event == [object |-> o, eventdef |-> d, time |-> time + delay, posted |-> 1 + Max(numbers)]
<1>1. Range(queue) \subseteq Event
  BY DEF TypeOK, Range
<1>2. numbers \in SUBSET (0 .. MaxOrder)
  BY <1>1, EventAssumption DEF At, Servable, Event
<1>3. Max(numbers) \in numbers /\ \A n \in numbers : n <= Max(numbers)
  <2> HIDE DEF numbers
  <2>1. numbers # {}
    BY DEF numbers
  <2> QED BY <1>2, <2>1, EventAssumption, MaxIsGreatest
<1>4. Max(numbers) \in Nat
  BY <1>2, <1>3
<1> HIDE DEF numbers
<1>5. event \in Event /\ event.time >= time
  BY <1>4 DEF TypeOK, Event
<1>6. \A e \in Range(queue) : e.time = event.time => e.posted < event.posted
  <2> SUFFICES ASSUME NEW e \in Range(queue), e.time = time + delay
               PROVE  e.posted < 1 + Max(numbers)
    OBVIOUS
  <2>1. e.posted \in numbers
    BY DEF At, numbers
  <2>2. e.posted \in Nat /\ e.posted <= Max(numbers)
    <3>1. e.posted \in 0 .. MaxOrder
      BY <2>1, <1>2
    <3> QED BY <2>1, <3>1, <1>3, EventAssumption
  <2> QED BY <2>2, <1>4
<1>7. event \notin Range(queue)
  BY <1>5, <1>6 DEF Event
<1>8. queue' = Scheduled(event) /\ event.posted <= MaxOrder
  BY DEF Post, numbers
<1> HIDE DEF event
<1>9. /\ queue' \in Seq(Event) /\ Len(queue') = Len(queue) + 1
      /\ Range(queue') = Range(queue) \cup {event} /\ Ordered(queue')
  BY <1>5, <1>6, <1>8, ScheduledKeepsOrder DEF TypeOK, Servable
<1>10. event.object = o
  BY DEF event
<1> QED
  BY <1>5, <1>6, <1>7, <1>8, <1>9, <1>10

\* The initial state.
LEMMA InitIInv == Init => IInv
<1> SUFFICES ASSUME Init PROVE IInv
  OBVIOUS
<1>1. TypeOK
  BY EventAssumption DEF Init, TypeOK
<1>2. Range(queue) = {} /\ DOMAIN queue = {} /\ Len(queue) = 0
  BY DEF Init, Range
<1> QED
  BY <1>1, <1>2, EventAssumption DEF Init, IInv, Servable, Ordered, NotOverdue

\* A map spawned anew satisfies the invariant whatever was there before.
LEMMA RestartIInv ==
    ASSUME IInv, NEW lost \in {0, 1}, Restart(lost)
    PROVE  IInv'
<1>1. Range(queue') = {} /\ DOMAIN queue' = {} /\ Len(queue') = 0 /\ Len(queue) \in Nat
  BY DEF Restart, Range, IInv, TypeOK
<1>2. TypeOK'
  BY <1>1, EventAssumption DEF Restart, IInv, TypeOK
<1>3. FreeEventsNum' <= MAX_EVENTS
  BY <1>1, EventAssumption DEF Restart, IInv, TypeOK
<1> QED
  BY <1>1, <1>2, <1>3 DEF Restart, IInv, TypeOK, Servable, Ordered, NotOverdue

\* Every step preserves the invariant.
LEMMA StepIInv == IInv /\ [Next]_vars => IInv'
<1> SUFFICES ASSUME IInv, [Next]_vars PROVE IInv'
  OBVIOUS
<1> USE EventAssumption DEF IInv
<1>1. CASE UNCHANGED vars
  BY <1>1 DEF vars, TypeOK, Servable, NotOverdue, Ordered
<1>2. ASSUME NEW o \in Objects, NEW d \in EventDefs, CancelEvents(o, d)
      PROVE  IInv'
  <2> DEFINE gone == {e \in Range(queue) : e.object = o /\ e.eventdef = d}
  <2>1. Freeing(gone)
    BY <1>2 DEF CancelEvents
  <2> HIDE DEF gone
  <2>2. /\ queue' \in Seq(Event) /\ Ordered(queue')
        /\ Range(queue') = Range(queue) \ gone
        /\ FreeEventsNum' \in Nat /\ Len(queue') \in Nat /\ Len(queue) \in Nat
        /\ FreeEventsNum' + Len(queue') = FreeEventsNum + Len(queue)
    BY <2>1, FreeingKeepsQueue DEF TypeOK, Servable
  <2>3. UNCHANGED <<time, serving, num, phase, alive, saved>>
    BY <1>2 DEF CancelEvents
  <2>4. TypeOK'
    BY <2>2, <2>3 DEF TypeOK
  <2>5. Servable(queue', alive') /\ (NotOverdue(queue, time) => NotOverdue(queue', time'))
    BY <2>2, <2>3 DEF Servable, NotOverdue
  <2> QED BY <2>2, <2>3, <2>4, <2>5 DEF TypeOK, Servable, NotOverdue, Ordered
<1>3. ASSUME NEW o \in Objects, NEW d \in EventDefs, NEW delay \in 0 .. MaxDelay, Post(o, d, delay)
      PROVE  IInv'
  <2>1. delay \in Nat
    OBVIOUS
  <2>2. PICK event \in Event :
              /\ event.object = o /\ event.time >= time /\ event.posted <= MaxOrder
              /\ queue' \in Seq(Event) /\ Len(queue') = Len(queue) + 1
              /\ Range(queue') = Range(queue) \cup {event} /\ Ordered(queue')
    BY <1>3, <2>1, PostKeepsOrder
  <2>3. /\ UNCHANGED <<time, serving, num, phase, alive, saved>>
        /\ FreeEventsNum' = FreeEventsNum - 1 /\ FreeEventsNum > 0 /\ o \in alive
    BY <1>3 DEF Post
  <2>4. FreeEventsNum' \in Nat /\ FreeEventsNum' + Len(queue') = FreeEventsNum + Len(queue)
    BY <2>2, <2>3 DEF TypeOK
  <2>5. TypeOK'
    BY <2>2, <2>3, <2>4 DEF TypeOK
  <2>6. Servable(queue', alive')
    BY <2>2, <2>3 DEF Servable
  <2>7. NotOverdue(queue, time) => NotOverdue(queue', time')
    BY <2>2, <2>3 DEF NotOverdue
  <2> QED BY <2>3, <2>4, <2>5, <2>6, <2>7 DEF Servable, NotOverdue, Ordered
<1>4. ASSUME NEW o \in Objects, Delete(o)
      PROVE  IInv'
  <2> DEFINE gone == {e \in Range(queue) : e.object = o}
  <2>1. Freeing(gone) /\ alive' = alive \ {o} /\ UNCHANGED <<time, serving, num, phase, saved>>
    BY <1>4 DEF Delete
  <2>2. /\ queue' \in Seq(Event) /\ Ordered(queue')
        /\ Range(queue') = Range(queue) \ gone
        /\ FreeEventsNum' \in Nat
        /\ FreeEventsNum' + Len(queue') = FreeEventsNum + Len(queue)
    <3> HIDE DEF gone
    <3> QED BY <2>1, FreeingKeepsQueue DEF TypeOK, Servable
  <2>3. TypeOK'
    <3> HIDE DEF gone
    <3>1. Len(queue') \in Nat /\ Len(queue) \in Nat
      BY <2>2 DEF TypeOK
    <3> QED BY <2>1, <2>2, <3>1 DEF TypeOK
  <2>4. Servable(queue', alive') /\ (NotOverdue(queue, time) => NotOverdue(queue', time'))
    BY <2>1, <2>2 DEF Servable, NotOverdue
  <2> QED BY <2>1, <2>2, <2>3, <2>4 DEF TypeOK, Servable, NotOverdue, Ordered
<1>5. CASE BeginService
  BY <1>5 DEF BeginService, TypeOK, Servable, NotOverdue, Ordered
<1>6. CASE Serve
  <2>1. /\ queue # <<>> /\ serving = None /\ phase = "service" /\ num <= MAX_EVENTSPERFRAME
        /\ num' = num + 1 /\ serving' = Head(queue) /\ queue' = Tail(queue)
        /\ UNCHANGED <<time, FreeEventsNum, phase, alive, saved>>
    BY <1>6 DEF Serve, HeadIsDue
  <2>2. /\ serving' \in Event /\ queue' \in Seq(Event) /\ Len(queue') = Len(queue) - 1
        /\ Range(queue') \subseteq Range(queue) /\ Ordered(queue')
    BY <2>1, TailKeepsOrder DEF TypeOK, Servable
  <2>3. TypeOK' /\ FreeEventsNum' + Len(queue') + 1 <= MAX_EVENTS
    BY <2>1, <2>2 DEF TypeOK
  <2>4. Servable(queue', alive')
    BY <2>1, <2>2 DEF Servable
  <2> QED BY <2>1, <2>3, <2>4 DEF TypeOK, Servable, NotOverdue, Ordered
<1>7. CASE Served
  <2>1. Len(queue) \in Nat
    BY DEF TypeOK
  <2>2. FreeEventsNum' = FreeEventsNum + 1 /\ serving # None /\ serving' = None
        /\ UNCHANGED <<time, queue, num, phase, alive, saved>>
    BY <1>7 DEF Served
  <2>3. TypeOK' /\ FreeEventsNum' + Len(queue') <= MAX_EVENTS
    BY <2>1, <2>2 DEF TypeOK
  <2> QED BY <2>2, <2>3 DEF Servable, NotOverdue, Ordered
<1>8. CASE EndService
  <2>1. ~HeadIsDue /\ serving = None /\ phase' = "converse" /\ num' = 0
        /\ UNCHANGED <<time, queue, FreeEventsNum, serving, alive, saved>>
    BY <1>8 DEF EndService
  <2>2. NotOverdue(queue, time)
    <3>1. CASE queue = <<>>
      BY <3>1 DEF NotOverdue, Range
    <3>2. CASE queue # <<>>
      <4>1. Head(queue) \in Event /\ Head(queue).time > time
        BY <2>1, <3>2, TailKeepsOrder DEF HeadIsDue, TypeOK, Servable, Event
      <4>2. \A f \in Range(queue) : f \in Event /\ (f = Head(queue) \/ Promise!Before(Head(queue), f))
        BY <3>2, TailKeepsOrder DEF TypeOK, Servable, Range
      <4> QED BY <4>1, <4>2 DEF NotOverdue, TypeOK, Event, Promise!Before
    <3> QED BY <3>1, <3>2
  <2>3. TypeOK'
    BY <2>1 DEF TypeOK
  <2> QED BY <2>1, <2>2, <2>3 DEF Servable, NotOverdue, Ordered
<1>9. CASE Advance
  <2>1. TypeOK'
    BY <1>9 DEF Advance, TypeOK
  <2> QED BY <1>9, <2>1 DEF Advance, Servable, Ordered, NotOverdue
<1>10. CASE Error \/ NoFreeEvents \/ Overflow
  BY <1>10, RestartIInv DEF Error, NoFreeEvents, Overflow
<1>11. CASE Save
  <2>1. /\ phase = "between" /\ saved' = [time |-> time, queue |-> queue, alive |-> alive]
        /\ UNCHANGED <<time, queue, FreeEventsNum, serving, num, phase, alive>>
    BY <1>11 DEF Save
  <2>2. TypeOK'
    BY <2>1 DEF TypeOK, Game
  <2> QED BY <2>1, <2>2 DEF Servable, Ordered, NotOverdue
<1>12. CASE Restore
  <2>1. /\ phase = "between" /\ saved # None
        /\ FreeEventsNum + Len(queue) >= Len(saved.queue)
        /\ FreeEventsNum' = FreeEventsNum + Len(queue) - Len(saved.queue)
        /\ queue' = saved.queue /\ time' = saved.time /\ alive' = saved.alive
        /\ UNCHANGED <<serving, num, phase, saved>>
    BY <1>12 DEF Restore
  <2>2. saved.time \in Nat /\ saved.queue \in Seq(Event) /\ saved.alive \in SUBSET Objects
    BY <2>1 DEF TypeOK, Game
  <2>3. Len(queue) \in Nat /\ Len(saved.queue) \in Nat
    BY <2>2 DEF TypeOK
  <2>4. FreeEventsNum' \in Nat /\ FreeEventsNum' + Len(queue') = FreeEventsNum + Len(queue)
    <3>1. FreeEventsNum \in Nat
      BY DEF TypeOK
    <3> QED BY <2>1, <2>3, <3>1
  <2>5. TypeOK'
    <3>1. FreeEventsNum' + Len(queue') <= MAX_EVENTS
      BY <2>4 DEF TypeOK
    <3> QED BY <2>1, <2>2, <2>4, <3>1 DEF TypeOK
  <2> QED BY <2>1, <2>4, <2>5 DEF Servable, Ordered, NotOverdue
<1>13. CASE EndFrame
  BY <1>13 DEF EndFrame, TypeOK, Servable, NotOverdue, Ordered
<1> QED
  BY <1>1, <1>2, <1>3, <1>4, <1>5, <1>6, <1>7, <1>8, <1>9, <1>10, <1>11, <1>12, <1>13 DEF Next

LEMMA Invariance == Spec => []IInv
<1> QED
  BY InitIInv, StepIInv, PTL DEF Spec

\* The type invariant: the queue holds events, and it and the free list never hold more
\* than the pool (EventPool, FreeEvents and EventQueue of Event.cpp).
THEOREM TypeCorrect == Spec => []TypeOK
<1>1. IInv => TypeOK
  BY DEF IInv
<1> QED
  BY <1>1, Invariance, PTL

\* No event of the queue is for an object that is gone, so ServiceEvents never calls a
\* deleted object: over posts, cancels, deletes, errors, saved and loaded games.
THEOREM ReceiversLive == Spec => []NoDeadReceiver
<1>1. IInv => NoDeadReceiver
  BY DEF IInv, Servable, NoDeadReceiver
<1> QED
  BY <1>1, Invariance, PTL

-----------------------------------------------------------------------------
(* The promise.                                                            *)

\* The initial state of the queue is one of the promise.
LEMMA InitPromise == Init => Promise!Init
<1>1. Range(<<>>) = {}
  BY DEF Range
<1> QED
  BY <1>1 DEF Init, Promise!Init

\* Every step of the queue is a step of the promise, or one it does not see.
LEMMA StepPromise == IInv /\ [Next]_vars => [Promise!Next]_Promise!vars
<1> SUFFICES ASSUME IInv, [Next]_vars PROVE [Promise!Next]_Promise!vars
  OBVIOUS
<1>0. TypeOK /\ Ordered(queue) /\ Servable(queue, alive) /\ Range(queue) \subseteq Event
  BY DEF IInv, Servable, TypeOK, Range
<1>1. CASE UNCHANGED vars
  BY <1>1 DEF vars, Promise!vars
<1>2. ASSUME NEW o \in Objects, NEW d \in EventDefs, CancelEvents(o, d)
      PROVE  Promise!Cancel \/ UNCHANGED Promise!vars
  <2> DEFINE gone == {e \in Range(queue) : e.object = o /\ e.eventdef = d}
  <2>1. Freeing(gone) /\ UNCHANGED <<time, saved>>
    BY <1>2 DEF CancelEvents
  <2>2. Range(queue') = Range(queue) \ gone
    <3> HIDE DEF gone
    <3> QED BY <1>0, <2>1, FreeingKeepsQueue DEF TypeOK
  <2>3. CASE gone = {}
    BY <2>1, <2>2, <2>3 DEF Promise!vars
  <2>4. CASE gone # {}
    <3>1. PICK e \in Range(queue) : e.object = o /\ e.eventdef = d
      BY <2>4
    <3>2. Range(queue') = {f \in Range(queue) : f.object # e.object \/ f.eventdef # e.eventdef}
      BY <2>2, <3>1
    <3> QED BY <2>1, <3>2 DEF Promise!Cancel
  <2> QED BY <2>3, <2>4
<1>3. ASSUME NEW o \in Objects, NEW d \in EventDefs, NEW delay \in 0 .. MaxDelay, Post(o, d, delay)
      PROVE  Promise!Post
  <2>1. PICK event \in Event :
              /\ event.time >= time
              /\ \A e \in Range(queue) : e.time = event.time => e.posted < event.posted
              /\ event \notin Range(queue)
              /\ Range(queue') = Range(queue) \cup {event}
    BY <1>0, <1>3, delay \in Nat, PostKeepsOrder
  <2>2. UNCHANGED <<time, saved>>
    BY <1>3 DEF Post
  <2> QED BY <2>1, <2>2 DEF Promise!Post
<1>4. ASSUME NEW o \in Objects, Delete(o)
      PROVE  Promise!Cancel \/ UNCHANGED Promise!vars
  <2> DEFINE gone == {e \in Range(queue) : e.object = o}
  <2>1. Freeing(gone) /\ UNCHANGED <<time, saved>>
    BY <1>4 DEF Delete
  <2>2. Range(queue') = Range(queue) \ gone
    <3> HIDE DEF gone
    <3> QED BY <1>0, <2>1, FreeingKeepsQueue DEF TypeOK
  <2>3. CASE gone = {}
    BY <2>1, <2>2, <2>3 DEF Promise!vars
  <2>4. CASE gone # {}
    <3>1. PICK e \in Range(queue) : e.object = o
      BY <2>4
    <3>2. Range(queue') = {f \in Range(queue) : f.object # e.object}
      BY <2>2, <3>1
    <3> QED BY <2>1, <3>2 DEF Promise!Cancel
  <2> QED BY <2>3, <2>4
<1>5. CASE BeginService \/ Served \/ EndService \/ EndFrame
  BY <1>5 DEF BeginService, Served, EndService, EndFrame, Promise!vars
<1>6. CASE Serve
  <2>1. /\ queue # <<>> /\ Head(queue).time <= time /\ queue' = Tail(queue)
        /\ UNCHANGED <<time, saved>>
    BY <1>6 DEF Serve, HeadIsDue
  <2>2. /\ Head(queue) \in Range(queue)
        /\ Range(queue') = Range(queue) \ {Head(queue)}
        /\ \A f \in Range(queue) \ {Head(queue)} : Promise!Before(Head(queue), f)
    BY <1>0, <2>1, TailKeepsOrder DEF TypeOK
  <2> QED BY <2>1, <2>2 DEF Promise!Next, Promise!Serve
<1>7. CASE Advance
  <2>1. time' = time + 1 /\ phase = "between" /\ UNCHANGED <<queue, saved>>
    BY <1>7 DEF Advance
  <2>2. \A e \in Range(queue) : e.time >= time
    BY <1>0, <2>1 DEF IInv, NotOverdue, TypeOK, Event
  <2>3. time' > time
    BY <1>0, <2>1 DEF TypeOK
  <2> QED BY <2>1, <2>2, <2>3 DEF Promise!Next, Promise!Advance
<1>8. CASE Error \/ NoFreeEvents \/ Overflow
  <2>1. queue' = <<>> /\ time' = 0 /\ UNCHANGED saved
    BY <1>8 DEF Error, NoFreeEvents, Overflow, Restart
  <2>2. Range(<<>>) = {}
    BY DEF Range
  <2> QED BY <2>1, <2>2 DEF Promise!Next, Promise!Change
<1>9. CASE Save
  <2>1. saved' = [time |-> time, queue |-> queue, alive |-> alive] /\ UNCHANGED <<time, queue, alive>>
    BY <1>9 DEF Save
  <2>2. saved' # None
    BY <1>0, <2>1, NoneAssumption DEF TypeOK, Game
  <2> QED BY <2>1, <2>2 DEF Promise!Next, Promise!Save
<1>10. CASE Restore
  <2>1. saved # None /\ queue' = saved.queue /\ time' = saved.time /\ UNCHANGED saved
    BY <1>10 DEF Restore
  <2>2. [now |-> saved.time, pending |-> Range(saved.queue)] # None
    <3>1. saved.time \in Nat /\ Range(saved.queue) \subseteq Event
      BY <1>0, <2>1 DEF TypeOK, Game, Range
    <3> QED BY <3>1, NoneAssumption
  <2> QED BY <2>1, <2>2 DEF Promise!Next, Promise!Change
<1> QED
  BY <1>1, <1>2, <1>3, <1>4, <1>5, <1>6, <1>7, <1>8, <1>9, <1>10 DEF Next, Promise!Next

\* The queue implements the promise: served once, when due and before the next tic, in
\* the order of posting, not after a cancel, and again as it was in a loaded game.
THEOREM QueueKeepsPromise == Spec => KeepsPromise
<1> QED
  BY InitPromise, StepPromise, Invariance, PTL DEF Spec, KeepsPromise, Promise!Spec
=============================================================================
