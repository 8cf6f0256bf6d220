------------------------ MODULE ParallelJobListProofs ------------------------
(***************************************************************************)
(* Proofs about ParallelJobList, for any number of threads, any capacity    *)
(* and any number of submissions.                                           *)
(***************************************************************************)
EXTENDS ParallelJobList, FiniteSetTheorems, SequenceTheorems, TLAPS

USE ConstantsAssumption DEF ConstantsAssumption

\* Assigning to one place of a sequence, inside or outside its domain, leaves
\* a sequence of the same length.
LEMMA ExceptKeepsSeq ==
    ASSUME NEW S, NEW s \in Seq(S), NEW i, NEW e, i \in DOMAIN s => e \in S
    PROVE  /\ [s EXCEPT ![i] = e] \in Seq(S)
           /\ Len([s EXCEPT ![i] = e]) = Len(s)
<1>1. CASE i \in DOMAIN s
    BY <1>1, ExceptSeq
<1>2. CASE i \notin DOMAIN s
    <2>1. [s EXCEPT ![i] = e] = s
        BY <1>2
    <2> QED BY <2>1
<1> QED BY <1>1, <1>2

LEMMA ExceptKeepsFunction ==
    ASSUME NEW D, NEW R, NEW f \in [D -> R], NEW d, NEW r \in R
    PROVE  [f EXCEPT ![d] = r] \in [D -> R]
OBVIOUS

LEMMA InitType == Init => TypeOK
<1> SUFFICES ASSUME Init PROVE TypeOK
    OBVIOUS
<1>1. OwnerTypeOK
    <2>1. done \in BOOLEAN /\ hasSignal \in BOOLEAN
        BY Zenon DEF Init
    <2>2. mpc \in OwnerPhases /\ toNotify \in Seq(Threads)
        BY DEF Init, OwnerPhases
    <2>3. /\ numSyncs \in Nat /\ lastSignalJob \in Nat
          /\ currentDoneGuard \in DoneGuards
        BY DEF Init, DoneGuards, NumDoneGuards
    <2> QED BY <2>1, <2>2, <2>3 DEF OwnerTypeOK
<1>2. ListTypeOK
    BY DEF Init, ListTypeOK
<1>3. CounterTypeOK
    BY DEF Init, CounterTypeOK
<1>4. ThreadTypeOK
    <2>1. NoState \in States
        BY DEF NoState, NewState, States
    <2> QED BY <2>1 DEF Init, ThreadTypeOK, Labels
<1> QED BY <1>1, <1>2, <1>3, <1>4 DEF TypeOK

-----------------------------------------------------------------------------
(* The owner's steps keep the types, one group of variables at a time.       *)

\* The list and the states of its entries grow together.
LEMMA PushType ==
    ASSUME ListTypeOK, NEW kind \in Kinds, Push(kind)
    PROVE  ListTypeOK' /\ Num' = Num + 1
BY DEF ListTypeOK, Push, Num

LEMMA OwnerListType == TypeOK /\ Owner => ListTypeOK'
<1> SUFFICES ASSUME TypeOK, Owner PROVE ListTypeOK'
    OBVIOUS
<1>1. CASE UNCHANGED <<jobList, status>>
    BY <1>1 DEF TypeOK, ListTypeOK
<1>2. ASSUME NEW kind \in Kinds, Push(kind) PROVE ListTypeOK'
    BY <1>2, PushType DEF TypeOK
<1>3. CASE jobList' = <<>> /\ status' = <<>>
    BY <1>3 DEF ListTypeOK
<1> QED BY <1>1, <1>2, <1>3
        DEF Owner, AddJob, DropJob, InsertSignal, InsertSync, SubmitEmpty,
            Submit, HandOver, SubmitReturns, WaitEmpty, WaitForCount,
            WaitIncrementVersion, WaitClear, Kinds, threadVars

LEMMA OwnerOwnerType == TypeOK /\ Owner => OwnerTypeOK'
<1> SUFFICES ASSUME TypeOK, Owner PROVE OwnerTypeOK'
    OBVIOUS
<1> USE DEF TypeOK, OwnerTypeOK
<1>1. done' \in BOOLEAN /\ hasSignal' \in BOOLEAN
    BY Zenon
       DEF Owner, AddJob, DropJob, InsertSignal, InsertSync, SubmitEmpty,
           Submit, HandOver, SubmitReturns, WaitEmpty, WaitForCount,
           WaitIncrementVersion, WaitClear
<1>2. mpc' \in OwnerPhases
    BY DEF Owner, AddJob, DropJob, InsertSignal, InsertSync, SubmitEmpty,
           Submit, HandOver, SubmitReturns, WaitEmpty, WaitForCount,
           WaitIncrementVersion, WaitClear, OwnerPhases
<1>3. Num \in Nat
    BY DEF Num, ListTypeOK
<1>4. numSyncs' \in Nat /\ lastSignalJob' \in Nat
    BY <1>3
       DEF Owner, AddJob, DropJob, InsertSignal, InsertSync, SubmitEmpty,
           Submit, HandOver, SubmitReturns, WaitEmpty, WaitForCount,
           WaitIncrementVersion, WaitClear
<1>5. currentDoneGuard' \in DoneGuards
    BY DEF Owner, AddJob, DropJob, InsertSignal, InsertSync, SubmitEmpty,
           Submit, HandOver, SubmitReturns, WaitEmpty, WaitForCount,
           WaitIncrementVersion, WaitClear, DoneGuards, NumDoneGuards
<1>6. toNotify' \in Seq(Threads)
    <2>1. ASSUME NEW n \in 0 .. NumThreads, Submit(n)
          PROVE  toNotify' \in Seq(Threads)
        BY <2>1 DEF Submit, Threads
    <2>2. CASE HandOver
        BY <2>2 DEF HandOver
    <2>3. CASE UNCHANGED toNotify
        BY <2>3
    <2> QED BY <2>1, <2>2, <2>3
            DEF Owner, AddJob, DropJob, InsertSignal, InsertSync, SubmitEmpty,
                SubmitReturns, WaitEmpty, WaitForCount, WaitIncrementVersion,
                WaitClear
<1> QED BY <1>1, <1>2, <1>4, <1>5, <1>6

LEMMA OwnerCounterType == TypeOK /\ Owner => CounterTypeOK'
<1> SUFFICES ASSUME TypeOK, Owner PROVE CounterTypeOK'
    OBVIOUS
<1>1. GroupSize \in Int
    BY DEF TypeOK, ListTypeOK, OwnerTypeOK, GroupSize, Num
<1> USE DEF TypeOK, CounterTypeOK
<1>2. ASSUME NEW n \in 0 .. NumThreads, Submit(n) PROVE CounterTypeOK'
    <2>1. doneGuards' \in [DoneGuards -> Int]
        <3>1. doneGuards' = [doneGuards EXCEPT ![currentDoneGuard'] = 1]
            BY <1>2, Zenon DEF Submit
        <3>2. doneGuards \in [DoneGuards -> Int] /\ 1 \in Int
            OBVIOUS
        <3> HIDE DEF TypeOK, CounterTypeOK
        <3> QED BY <3>1, <3>2, ExceptKeepsFunction
    <2> QED BY <1>1, <1>2, <2>1 DEF Submit
<1>3. CASE InsertSignal
    BY <1>1, <1>3 DEF InsertSignal
<1>4. CASE AddJob \/ DropJob \/ InsertSync \/ SubmitEmpty \/ SubmitReturns
    BY <1>4 DEF AddJob, DropJob, InsertSync, SubmitEmpty, SubmitReturns
<1>5. CASE HandOver \/ WaitEmpty \/ WaitForCount \/ WaitIncrementVersion
    BY <1>5 DEF HandOver, WaitEmpty, WaitForCount, WaitIncrementVersion
<1>6. CASE WaitClear
    BY <1>6 DEF WaitClear
<1> QED BY <1>2, <1>3, <1>4, <1>5, <1>6 DEF Owner

LEMMA OwnerThreadType == TypeOK /\ Owner => ThreadTypeOK'
<1> SUFFICES ASSUME TypeOK, Owner PROVE ThreadTypeOK'
    OBVIOUS
<1>1. NewState(version) \in States
    BY DEF TypeOK, CounterTypeOK, NewState, States
<1> USE DEF TypeOK, ThreadTypeOK
<1>2. ASSUME NEW n \in 0 .. NumThreads, Submit(n) PROVE ThreadTypeOK'
    BY <1>1, <1>2 DEF Submit
<1>3. CASE HandOver
    BY <1>1, <1>3 DEF HandOver
<1>4. CASE UNCHANGED <<pc, single, st, held>>
    BY <1>4
<1> QED BY <1>2, <1>3, <1>4
        DEF Owner, AddJob, DropJob, InsertSignal, InsertSync, SubmitEmpty,
            SubmitReturns, WaitEmpty, WaitForCount, WaitIncrementVersion,
            WaitClear, threadVars

LEMMA OwnerType == TypeOK /\ Owner => TypeOK'
BY OwnerListType, OwnerOwnerType, OwnerCounterType, OwnerThreadType DEF TypeOK

-----------------------------------------------------------------------------
(* The steps of a thread.                                                    *)

LEMMA ExecutorListType ==
    ASSUME TypeOK, NEW w \in Executors, Executor(w)
    PROVE  ListTypeOK' /\ OwnerTypeOK'
<1>1. UNCHANGED ownerVars
    BY DEF Executor, Enter, CheckVersion, Skip, SkipEnd, SkipCount, Lock,
           Fetch, Scan, DecrementGuard, GiveBack, UnlockStalled, Unlock,
           StartJob, FinishJob, CountJob, Leave
<1>2. OwnerTypeOK'
    BY <1>1 DEF TypeOK, OwnerTypeOK, ownerVars
<1>3. \/ UNCHANGED status
      \/ \E i, s : /\ status' = [status EXCEPT ![i] = s]
                   /\ s \in {"todo", "running", "executed"}
    BY DEF Executor, Enter, CheckVersion, Skip, SkipEnd, SkipCount, Lock,
           Fetch, Scan, DecrementGuard, GiveBack, UnlockStalled, Unlock,
           StartJob, FinishJob, CountJob, Leave
<1>4. /\ status' \in Seq({"todo", "running", "executed"})
      /\ Len(status') = Len(status)
    BY <1>3, ExceptKeepsSeq DEF TypeOK, ListTypeOK
<1>5. ListTypeOK'
    BY <1>1, <1>4 DEF TypeOK, ListTypeOK, ownerVars
<1> QED BY <1>2, <1>5

LEMMA ExecutorCounterType ==
    ASSUME TypeOK, NEW w \in Executors, Executor(w)
    PROVE  CounterTypeOK'
<1> USE DEF TypeOK, CounterTypeOK
<1>1. CASE CountJob(w)
    <2> DEFINE k == st[w].signalIndex + 1
    <2>1. k \in DOMAIN signalJobCount => signalJobCount[k] - 1 \in Int
        OBVIOUS
    <2>2. [signalJobCount EXCEPT ![k] = signalJobCount[k] - 1] \in Seq(Int)
        BY <2>1, ExceptKeepsSeq
    <2> QED BY <1>1, <2>2 DEF CountJob
<1>2. CASE DecrementGuard(w)
    <2>1. doneGuards[currentDoneGuard] \in Int
        BY DEF OwnerTypeOK
    <2>2. doneGuards' = [doneGuards EXCEPT ![currentDoneGuard] =
                             doneGuards[currentDoneGuard] - 1]
        BY <1>2 DEF DecrementGuard
    <2>3. doneGuards' \in [DoneGuards -> Int]
        <3>1. doneGuards \in [DoneGuards -> Int]
            OBVIOUS
        <3>2. doneGuards[currentDoneGuard] - 1 \in Int
            BY <2>1
        <3> HIDE DEF TypeOK, CounterTypeOK
        <3> QED BY <2>2, <3>1, <3>2, ExceptKeepsFunction
    <2> QED BY <1>2, <2>3 DEF DecrementGuard
<1>3. CASE Enter(w) \/ Leave(w)
    BY <1>3 DEF Enter, Leave
<1>4. CASE Lock(w) \/ Unlock(w) \/ UnlockStalled(w)
    BY <1>4 DEF Lock, Unlock, UnlockStalled
<1>5. CASE Fetch(w) \/ GiveBack(w)
    BY <1>5 DEF Fetch, Fetched, GiveBack
<1>6. CASE UNCHANGED <<version, signalJobCount, currentJob, fetchLock,
                       numThreadsExecuting, doneGuards>>
    BY <1>6
<1> QED BY <1>1, <1>2, <1>3, <1>4, <1>5, <1>6
        DEF Executor, CheckVersion, Skip, SkipEnd, SkipCount, Scan, StartJob,
            FinishJob

\* A thread's step sets its own label.
LEMMA ExecutorPc ==
    ASSUME TypeOK, NEW w \in Executors, Executor(w)
    PROVE  \E label \in Labels : pc' = [pc EXCEPT ![w] = label]
<1>1. pc[w] \in Labels /\ pc = [pc EXCEPT ![w] = pc[w]]
    BY DEF TypeOK, ThreadTypeOK
<1>2. CASE \E label \in Labels : Goto(w, label)
    BY <1>2 DEF Goto
<1>3. CASE UNCHANGED pc
    BY <1>1, <1>3
<1>4. CASE Skip(w)
    BY <1>2, <1>3, <1>4 DEF Skip, Labels
<1>5. CASE Scan(w)
    BY <1>2, <1>3, <1>5 DEF Scan, Labels
<1>6. CASE SkipCount(w) \/ SkipEnd(w)
    BY <1>2, <1>6 DEF SkipCount, SkipEnd, Labels
<1>7. CASE Enter(w) \/ CheckVersion(w) \/ Leave(w)
    BY <1>2, <1>7 DEF Enter, CheckVersion, Leave, Labels
<1>8. CASE Lock(w) \/ Fetch(w) \/ DecrementGuard(w) \/ GiveBack(w)
    BY <1>2, <1>8 DEF Lock, Fetch, DecrementGuard, GiveBack, Labels
<1>9. CASE UnlockStalled(w) \/ Unlock(w) \/ StartJob(w) \/ FinishJob(w)
    BY <1>2, <1>9 DEF UnlockStalled, Unlock, StartJob, FinishJob, Labels
<1>10. CASE CountJob(w)
    BY <1>2, <1>10 DEF CountJob, Labels
<1> QED BY <1>4, <1>5, <1>6, <1>7, <1>8, <1>9, <1>10 DEF Executor

LEMMA ExecutorThreadType ==
    ASSUME TypeOK, NEW w \in Executors, Executor(w)
    PROVE  ThreadTypeOK'
<1>1. pc' \in [Executors -> Labels]
    BY ExecutorPc DEF TypeOK, ThreadTypeOK
<1>2. /\ single' \in [Executors -> BOOLEAN]
      /\ held' \in [Executors -> SUBSET States]
    <2>1. CASE Enter(w)
        <3>1. PICK e \in held[w], one \in SingleChoice(w) :
                  /\ held' = [held EXCEPT ![w] = @ \ {e}]
                  /\ single' = [single EXCEPT ![w] = one]
            BY <2>1 DEF Enter
        <3>2. one \in BOOLEAN
            BY Zenon DEF SingleChoice
        <3>3. single' \in [Executors -> BOOLEAN]
            BY <3>1, <3>2, Zenon DEF TypeOK, ThreadTypeOK
        <3>4. held' \in [Executors -> SUBSET States]
            BY <3>1 DEF TypeOK, ThreadTypeOK
        <3> QED BY <3>3, <3>4
    <2>2. CASE Leave(w)
        BY <2>2 DEF Leave, TypeOK, ThreadTypeOK
    <2>3. CASE UNCHANGED <<single, held>>
        BY <2>3 DEF TypeOK, ThreadTypeOK
    <2> QED BY <2>1, <2>2, <2>3
            DEF Executor, CheckVersion, Skip, SkipEnd, SkipCount, Lock, Fetch,
                Scan, DecrementGuard, GiveBack, UnlockStalled, Unlock,
                StartJob, FinishJob, CountJob
<1>3. st' \in [Executors -> States]
    <2> USE DEF TypeOK, ThreadTypeOK, CounterTypeOK
    <2>1. CASE Enter(w)
        BY <2>1 DEF Enter
    <2>2. CASE Leave(w)
        <3>1. NoState \in States
            BY DEF NoState, NewState, States
        <3> QED BY <2>2, <3>1 DEF Leave
    <2>3. CASE PassEntry(w) \/ PassSignal(w)
        <3>1. ASSUME NEW r \in States
              PROVE  /\ [r EXCEPT !.lastJobIndex = @ + 1] \in States
                     /\ [r EXCEPT !.lastJobIndex = @ + 1,
                                  !.signalIndex = @ + 1] \in States
            <4>1. r.lastJobIndex + 1 \in Int /\ r.signalIndex + 1 \in Int
                BY DEF States
            <4>2. \A i \in Int : [r EXCEPT !.lastJobIndex = i] \in States
                BY DEF States
            <4>3. \A i, j \in Int : [r EXCEPT !.lastJobIndex = i,
                                             !.signalIndex = j] \in States
                BY DEF States
            <4> QED BY <4>1, <4>2, <4>3
        <3>2. \E r \in States : st' = [st EXCEPT ![w] = r]
            BY <2>3, <3>1 DEF PassEntry, PassSignal
        <3> QED BY <3>2
    <2>4. CASE Fetch(w)
        BY <2>4 DEF Fetch, States
    <2>5. CASE UNCHANGED st
        BY <2>5
    <2> QED BY <2>1, <2>2, <2>3, <2>4, <2>5
            DEF Executor, CheckVersion, Skip, SkipEnd, SkipCount, Lock,
                Scan, DecrementGuard, GiveBack, UnlockStalled, Unlock,
                StartJob, FinishJob, CountJob
<1> QED BY <1>1, <1>2, <1>3 DEF ThreadTypeOK

\* Every variable keeps its type, whatever the number of threads.
THEOREM TypeCorrect == Spec => []TypeOK
<1>1. Init => TypeOK
    BY InitType
<1>2. TypeOK /\ [Next]_vars => TypeOK'
    <2> SUFFICES ASSUME TypeOK, [Next]_vars PROVE TypeOK'
        OBVIOUS
    <2>1. CASE Owner
        BY <2>1, OwnerType
    <2>2. ASSUME NEW w \in Executors, Executor(w) PROVE TypeOK'
        BY <2>2, ExecutorListType, ExecutorCounterType, ExecutorThreadType
           DEF TypeOK
    <2>3. CASE UNCHANGED vars
        BY <2>3 DEF vars, ownerVars, threadVars, TypeOK, OwnerTypeOK,
                    ListTypeOK, CounterTypeOK, ThreadTypeOK
    <2> QED BY <2>1, <2>2, <2>3 DEF Next, Finished
<1> QED BY <1>1, <1>2, PTL DEF Spec

-----------------------------------------------------------------------------
(* The handshake between the owner and the threads.                          *)

\* Setting one place of a function moves it in or out of the set of places
\* with a given property, and the number of these changes accordingly.
LEMMA CountPlaces ==
    ASSUME NEW S, IsFiniteSet(S), NEW R, NEW f \in [S -> R], NEW L,
           NEW w \in S, NEW x \in R
    PROVE  Cardinality({v \in S : [f EXCEPT ![w] = x][v] \in L}) =
               Cardinality({v \in S : f[v] \in L})
                   + (IF x \in L THEN 1 ELSE 0)
                   - (IF f[w] \in L THEN 1 ELSE 0)
<1> DEFINE g == [f EXCEPT ![w] = x]
           before == {v \in S : f[v] \in L}
           after == {v \in S : g[v] \in L}
<1>1. IsFiniteSet(before) /\ IsFiniteSet(after)
    BY FS_Subset
<1>2. Cardinality(before) \in Nat /\ Cardinality(after) \in Nat
    BY <1>1, FS_CardinalityType
<1>3. ASSUME f[w] \notin L, x \in L
      PROVE  Cardinality(after) = Cardinality(before) + 1
    <2>1. after = before \cup {w} /\ w \notin before
        BY <1>3
    <2> QED BY <1>1, <2>1, FS_AddElement
<1>4. ASSUME f[w] \in L, x \notin L
      PROVE  Cardinality(after) = Cardinality(before) - 1
    <2>1. before = after \cup {w} /\ w \notin after
        BY <1>4
    <2>2. Cardinality(before) = Cardinality(after) + 1
        BY <1>1, <2>1, FS_AddElement
    <2> QED BY <1>2, <2>2
<1>5. (f[w] \in L <=> x \in L) => after = before
    OBVIOUS
<1> HIDE DEF before, after
<1>6. Cardinality(after) = Cardinality(before) + (IF x \in L THEN 1 ELSE 0)
                               - (IF f[w] \in L THEN 1 ELSE 0)
    BY <1>2, <1>3, <1>4, <1>5
<1> QED BY <1>6 DEF before, after

LEMMA ExecutorsFinite == IsFiniteSet(Executors)
<1>1. Executors = 0 .. NumThreads
    BY DEF Executors, Threads, Inline
<1> QED BY <1>1, FS_Interval

Contending == Fetching \cup {"unlockKeep"}
NotIdle == Labels \ {"idle"}

\* What a thread's step does to its label and to the two counters.
LEMMA ExecutorCounts ==
    ASSUME TypeOK, NEW w \in Executors, Executor(w)
    PROVE  \E label \in Labels :
               /\ pc' = [pc EXCEPT ![w] = label]
               /\ fetchLock' = fetchLock
                      + (IF label \in Contending THEN 1 ELSE 0)
                      - (IF pc[w] \in Contending THEN 1 ELSE 0)
               /\ numThreadsExecuting' = numThreadsExecuting
                      + (IF label \in NotIdle THEN 1 ELSE 0)
                      - (IF pc[w] \in NotIdle THEN 1 ELSE 0)
<1> USE DEF Contending, NotIdle, Fetching, Labels
<1> DEFINE P(label) ==
               /\ pc' = [pc EXCEPT ![w] = label]
               /\ fetchLock' = fetchLock
                      + (IF label \in Contending THEN 1 ELSE 0)
                      - (IF pc[w] \in Contending THEN 1 ELSE 0)
               /\ numThreadsExecuting' = numThreadsExecuting
                      + (IF label \in NotIdle THEN 1 ELSE 0)
                      - (IF pc[w] \in NotIdle THEN 1 ELSE 0)
<1>1. /\ fetchLock \in Int /\ numThreadsExecuting \in Int
      /\ pc[w] \in Labels /\ pc = [pc EXCEPT ![w] = pc[w]]
    BY DEF TypeOK, ThreadTypeOK, CounterTypeOK
<1>2. CASE Enter(w)
    <2>1. P("check")
        BY <1>1, <1>2 DEF Enter, Goto
    <2> QED BY <2>1
<1>3. CASE CheckVersion(w)
    <2>1. P("leaveDone") \/ P("skip")
        <3>1. /\ pc[w] = "check"
              /\ UNCHANGED <<fetchLock, numThreadsExecuting>>
              /\ Goto(w, "leaveDone") \/ Goto(w, "skip")
            BY <1>3 DEF CheckVersion
        <3> QED BY <1>1, <3>1 DEF Goto
    <2> QED BY <2>1
<1>4. CASE Skip(w)
    <2>1. P("skip") \/ P("skipCount")
        BY <1>1, <1>4 DEF Skip, Goto
    <2> QED BY <2>1
<1>5. CASE SkipEnd(w)
    <2>1. P("lock")
        BY <1>1, <1>5 DEF SkipEnd, Goto
    <2> QED BY <2>1
<1>6. CASE SkipCount(w)
    <2>1. P("leaveKeep") \/ P("skip")
        BY <1>1, <1>6 DEF SkipCount, Goto
    <2> QED BY <2>1
<1>7. CASE Lock(w)
    <2>1. P("fetch") \/ P("unlockKeep")
        <3>1. /\ pc[w] = "lock"
              /\ fetchLock' = fetchLock + 1
              /\ UNCHANGED numThreadsExecuting
              /\ Goto(w, "fetch") \/ Goto(w, "unlockKeep")
            BY <1>7 DEF Lock
        <3> QED BY <1>1, <3>1 DEF Goto
    <2> QED BY <2>1
<1>8. CASE Fetch(w)
    <2>1. P("scan")
        BY <1>1, <1>8 DEF Fetch, Goto
    <2> QED BY <2>1
<1>9. CASE Scan(w)
    <2>1. P("scan") \/ P("giveBack") \/ P("guard")
        BY <1>1, <1>9 DEF Scan, Goto
    <2> QED BY <2>1
<1>10. CASE DecrementGuard(w)
    <2>1. P("scan")
        BY <1>1, <1>10 DEF DecrementGuard, Goto
    <2> QED BY <2>1
<1>11. CASE GiveBack(w)
    <2>1. P("unlockKeep")
        BY <1>1, <1>11 DEF GiveBack, Goto
    <2> QED BY <2>1
<1>12. CASE UnlockStalled(w)
    <2>1. P("leaveKeep")
        BY <1>1, <1>12 DEF UnlockStalled, Goto
    <2> QED BY <2>1
<1>13. CASE Unlock(w)
    <2>1. P("leaveDone") \/ P("run")
        <3>1. /\ pc[w] = "scan"
              /\ fetchLock' = fetchLock - 1
              /\ UNCHANGED numThreadsExecuting
              /\ Goto(w, "leaveDone") \/ Goto(w, "run")
            BY <1>13 DEF Unlock
        <3> QED BY <1>1, <3>1 DEF Goto
    <2> QED BY <2>1
<1>14. CASE StartJob(w) \/ FinishJob(w)
    <2>1. P("running") \/ P("count")
        BY <1>1, <1>14 DEF StartJob, FinishJob, Goto
    <2> QED BY <2>1
<1>15. CASE CountJob(w)
    <2>1. P("leaveDone") \/ P("leaveKeep") \/ P("skip")
        <3>1. /\ pc[w] = "count"
              /\ UNCHANGED <<fetchLock, numThreadsExecuting>>
              /\ \/ Goto(w, "leaveDone")
                 \/ Goto(w, "leaveKeep")
                 \/ Goto(w, "skip")
            BY <1>15, Zenon DEF CountJob
        <3> QED BY <1>1, <3>1 DEF Goto
    <2> QED BY <2>1
<1>16. CASE Leave(w)
    <2>1. P("idle")
        BY <1>1, <1>16 DEF Leave, Goto
    <2> QED BY <2>1
<1> QED BY <1>2, <1>3, <1>4, <1>5, <1>6, <1>7, <1>8, <1>9, <1>10, <1>11,
           <1>12, <1>13, <1>14, <1>15, <1>16 DEF Executor

\* The counters count.
LEMMA ExecutorCounted ==
    ASSUME TypeOK, Counted, NEW w \in Executors, Executor(w)
    PROVE  Counted'
<1>1. PICK label \in Labels :
          /\ pc' = [pc EXCEPT ![w] = label]
          /\ fetchLock' = fetchLock
                 + (IF label \in Contending THEN 1 ELSE 0)
                 - (IF pc[w] \in Contending THEN 1 ELSE 0)
          /\ numThreadsExecuting' = numThreadsExecuting
                 + (IF label \in NotIdle THEN 1 ELSE 0)
                 - (IF pc[w] \in NotIdle THEN 1 ELSE 0)
    BY ExecutorCounts
<1>2. /\ pc \in [Executors -> Labels]
      /\ fetchLock \in Int /\ numThreadsExecuting \in Int
    BY DEF TypeOK, ThreadTypeOK, CounterTypeOK
<1>3. /\ LockUsers = {v \in Executors : pc[v] \in Contending}
      /\ RunningThreads = {v \in Executors : pc[v] \in NotIdle}
      /\ LockUsers' = {v \in Executors : pc'[v] \in Contending}
      /\ RunningThreads' = {v \in Executors : pc'[v] \in NotIdle}
    BY DEF LockUsers, RunningThreads, Contending, NotIdle
<1>4. fetchLock' = Cardinality(LockUsers')
    <2>1. Cardinality(LockUsers') = Cardinality(LockUsers)
              + (IF label \in Contending THEN 1 ELSE 0)
              - (IF pc[w] \in Contending THEN 1 ELSE 0)
        BY <1>1, <1>2, <1>3, ExecutorsFinite, CountPlaces
    <2> QED BY <1>1, <2>1 DEF Counted
<1>5. numThreadsExecuting' = Cardinality(RunningThreads')
    <2>1. Cardinality(RunningThreads') = Cardinality(RunningThreads)
              + (IF label \in NotIdle THEN 1 ELSE 0)
              - (IF pc[w] \in NotIdle THEN 1 ELSE 0)
        BY <1>1, <1>2, <1>3, ExecutorsFinite, CountPlaces
    <2> QED BY <1>1, <2>1 DEF Counted
<1> QED BY <1>4, <1>5 DEF Counted

\* The lock is free only while no thread uses it, so whoever counts it up to
\* one is alone in the section it guards.
LEMMA ExecutorMutex ==
    ASSUME TypeOK, Counted, FetchMutex, NEW w \in Executors, Executor(w)
    PROVE  FetchMutex'
<1>1. PICK label \in Labels : pc' = [pc EXCEPT ![w] = label]
    BY ExecutorPc
<1>2. pc \in [Executors -> Labels]
    BY DEF TypeOK, ThreadTypeOK
<1>3. CASE pc[w] \in Fetching \/ label \notin Fetching
    BY <1>1, <1>2, <1>3 DEF FetchMutex
<1>4. CASE pc[w] \notin Fetching /\ label \in Fetching
    <2>1. Lock(w) /\ Taken(fetchLock')
        BY <1>1, <1>2, <1>4
           DEF Executor, Enter, CheckVersion, Skip, SkipEnd, SkipCount, Lock,
               Fetch, Scan, DecrementGuard, GiveBack, UnlockStalled, Unlock,
               StartJob, FinishJob, CountJob, Leave, Goto, Fetching
    <2>2. Cardinality(LockUsers) = 0
        BY <2>1 DEF Lock, Taken, Counted, TypeOK, CounterTypeOK
    <2>3. IsFiniteSet(LockUsers)
        BY ExecutorsFinite, FS_Subset DEF LockUsers
    <2>4. LockUsers = {}
        BY <2>2, <2>3, FS_EmptySet
    <2>5. \A v \in Executors : pc[v] \notin Fetching
        BY <2>4 DEF LockUsers
    <2> QED BY <1>1, <1>2, <2>5 DEF FetchMutex
<1> QED BY <1>3, <1>4

\* The owner's steps touch neither the labels nor the counters of threads.
LEMMA OwnerCounted ==
    TypeOK /\ Counted /\ FetchMutex /\ Owner => Counted' /\ FetchMutex'
<1> SUFFICES ASSUME Owner, Counted, FetchMutex PROVE Counted' /\ FetchMutex'
    OBVIOUS
<1>1. UNCHANGED <<pc, fetchLock, numThreadsExecuting>>
    BY DEF Owner, AddJob, DropJob, InsertSignal, InsertSync, SubmitEmpty,
           Submit, HandOver, SubmitReturns, WaitEmpty, WaitForCount,
           WaitIncrementVersion, WaitClear, threadVars
<1> QED BY <1>1 DEF Counted, LockUsers, RunningThreads, FetchMutex

\* The entries a thread's step leaves it with it had before.
LEMMA ExecutorEntries ==
    ASSUME TypeOK, NEW w \in Executors, Executor(w), NEW v \in Executors,
           NEW e \in held'[v] \cup {st'[v]}
    PROVE  e = NoState \/ \E d \in held[v] \cup {st[v]} : d.version = e.version
<1> USE DEF TypeOK, ThreadTypeOK
<1>1. CASE Enter(w)
    BY <1>1 DEF Enter
<1>2. CASE Leave(w)
    BY <1>2 DEF Leave
<1>3. CASE UNCHANGED held /\ (PassEntry(w) \/ PassSignal(w))
    BY <1>3 DEF PassEntry, PassSignal, States
<1>4. CASE Fetch(w)
    BY <1>4 DEF Fetch, States
<1>5. CASE UNCHANGED <<held, st>>
    BY <1>5
<1> QED BY <1>1, <1>2, <1>3, <1>4, <1>5
        DEF Executor, CheckVersion, Skip, SkipEnd, SkipCount, Lock, Scan,
            DecrementGuard, GiveBack, UnlockStalled, Unlock, StartJob,
            FinishJob, CountJob

LEMMA ExecutorVersions ==
    ASSUME TypeOK, Phases, Versions, InsideCurrent,
           NEW w \in Executors, Executor(w)
    PROVE  Phases' /\ Versions' /\ InsideCurrent'
<1>1. UNCHANGED ownerVars /\ version' = version
    BY DEF Executor, Enter, CheckVersion, Skip, SkipEnd, SkipCount, Lock,
           Fetch, Scan, DecrementGuard, GiveBack, UnlockStalled, Unlock,
           StartJob, FinishJob, CountJob, Leave
<1>2. /\ mpc' = mpc /\ done' = done /\ Num' = Num /\ Withdrawn' = Withdrawn
      /\ version \in Nat
    BY <1>1 DEF ownerVars, Num, Withdrawn, TypeOK, CounterTypeOK
<1>3. Phases'
    BY <1>2 DEF Phases
<1>4. Versions'
    <2> SUFFICES ASSUME NEW v \in Executors, NEW e \in held'[v] \cup {st'[v]}
                 PROVE  e.version <= version /\ (Withdrawn => e.version < version)
        BY <1>1, <1>2 DEF Versions
    <2>1. CASE e = NoState
        BY <1>2, <2>1 DEF NoState, NewState
    <2>2. CASE \E d \in held[v] \cup {st[v]} : d.version = e.version
        BY <2>2 DEF Versions
    <2> QED BY <2>1, <2>2, ExecutorEntries
<1>5. InsideCurrent'
    <2> SUFFICES ASSUME NEW v \in Executors, pc'[v] \in Inside
                 PROVE  /\ mpc # "build" /\ Num > 0
                        /\ mpc = "drain" \/ st'[v].version = version
        BY <1>1, <1>2 DEF InsideCurrent
    <2>1. CASE v # w
        <3>1. pc'[v] = pc[v] /\ st'[v] = st[v]
            BY <2>1 DEF TypeOK, ThreadTypeOK, Goto, PassEntry, PassSignal,
                        Executor, Enter, CheckVersion, Skip, SkipEnd,
                        SkipCount, Lock, Fetch, Scan, DecrementGuard,
                        GiveBack, UnlockStalled, Unlock, StartJob, FinishJob,
                        CountJob, Leave
        <3> QED BY <3>1 DEF InsideCurrent
    <2>2. CASE v = w /\ CheckVersion(w)
        <3>1. st' = st /\ st[w].version = version
            BY <2>2 DEF CheckVersion, Outdated, Goto, Inside, TypeOK,
                        ThreadTypeOK
        <3>2. ~Withdrawn
            BY <1>2, <3>1 DEF Versions
        <3> QED BY <2>2, <3>1, <3>2
                DEF Withdrawn, Num, TypeOK, ListTypeOK
    <2>3. CASE v = w /\ ~CheckVersion(w)
        <3>1. pc[w] \in Inside
            BY <2>3 DEF TypeOK, ThreadTypeOK, Goto, Inside, Labels,
                        Executor, Enter, Skip, SkipEnd,
                        SkipCount, Lock, Fetch, Scan, DecrementGuard,
                        GiveBack, UnlockStalled, Unlock, StartJob, FinishJob,
                        CountJob, Leave
        <3>2. st'[w].version = st[w].version
            BY <2>3, <3>1
               DEF TypeOK, ThreadTypeOK, PassEntry, PassSignal, States,
                   Executor, Enter, Skip, SkipEnd, SkipCount, Lock, Fetch,
                   Scan, DecrementGuard, GiveBack, UnlockStalled, Unlock,
                   StartJob, FinishJob, CountJob, Leave, Inside, Labels
        <3> QED BY <2>3, <3>1, <3>2 DEF InsideCurrent
    <2> QED BY <2>1, <2>2, <2>3
<1> QED BY <1>3, <1>4, <1>5

LEMMA OwnerPhase == TypeOK /\ Phases /\ Owner => Phases'
<1> SUFFICES ASSUME TypeOK, Phases, Owner PROVE Phases'
    OBVIOUS
<1>1. done' <=> mpc' = "build"
    <2>1. CASE done' = done /\ mpc' = mpc
        BY <2>1 DEF Phases
    <2>2. CASE done' = TRUE /\ mpc' = "build"
        BY <2>2
    <2>3. CASE done' = FALSE /\ mpc' \in OwnerPhases \ {"build"}
        BY <2>3, Zenon
    <2>4. CASE done' = done /\ {mpc, mpc'} \subseteq OwnerPhases \ {"build"}
        BY <2>4, Zenon DEF Phases
    <2>5. CASE AddJob \/ DropJob \/ InsertSignal \/ InsertSync \/ HandOver
        BY <2>1, <2>5 DEF AddJob, DropJob, InsertSignal, InsertSync, HandOver
    <2>6. CASE WaitEmpty \/ WaitClear
        BY <2>2, <2>6 DEF WaitEmpty, WaitClear
    <2>7. CASE SubmitEmpty \/ \E n \in 0 .. NumThreads : Submit(n)
        <3>1. done' = FALSE /\ mpc' \in {"inline", "handover", "submitted"}
            BY <2>7, Zenon DEF SubmitEmpty, Submit
        <3>2. mpc' \in OwnerPhases \ {"build"}
            BY <3>1 DEF OwnerPhases
        <3> QED BY <2>3, <3>1, <3>2
    <2>8. CASE SubmitReturns \/ WaitForCount \/ WaitIncrementVersion
        <3>1. {mpc, mpc'} \subseteq OwnerPhases \ {"build"}
            BY <2>8 DEF SubmitReturns, WaitForCount, WaitIncrementVersion,
                        OwnerPhases
        <3>2. done' = done
            BY <2>8 DEF SubmitReturns, WaitForCount, WaitIncrementVersion
        <3> QED BY <2>4, <3>1, <3>2
    <2> QED BY <2>5, <2>6, <2>7, <2>8 DEF Owner
<1>2. ASSUME mpc' \in {"inline", "handover", "counted", "drain"}
      PROVE  Num' > 0
    <2>1. CASE \E n \in 0 .. NumThreads : Submit(n)
        <3>1. "done" \in Kinds /\ Push("done") /\ Num > 0
            BY <2>1 DEF Submit, Kinds
        <3> QED BY <3>1, PushType DEF TypeOK, ListTypeOK, Num
    <2>2. CASE Num' = Num /\ Num > 0
        BY <2>2
    <2> QED BY <1>2, <2>1, <2>2
            DEF Phases, Owner, AddJob, DropJob, InsertSignal, InsertSync,
                MayAdd, SubmitEmpty, HandOver, SubmitReturns, WaitEmpty,
                WaitForCount, WaitIncrementVersion, WaitClear, Num
<1> QED BY <1>1, <1>2 DEF Phases

LEMMA OwnerVersions ==
    TypeOK /\ Phases /\ Versions /\ Owner => Versions'
<1> SUFFICES ASSUME TypeOK, Phases, Versions, Owner,
                    NEW v \in Executors, NEW e \in held'[v] \cup {st'[v]}
             PROVE  e.version <= version' /\ (Withdrawn' => e.version < version')
    BY DEF Versions
<1>1. /\ version \in Nat
      /\ \A u \in Executors : \A d \in held[u] \cup {st[u]} : d.version \in Int
    BY DEF TypeOK, CounterTypeOK, ThreadTypeOK, States
<1>2. st' = st
    BY DEF Owner, AddJob, DropJob, InsertSignal, InsertSync, SubmitEmpty,
           Submit, HandOver, SubmitReturns, WaitEmpty, WaitForCount,
           WaitIncrementVersion, WaitClear, threadVars
<1>3. CASE WaitIncrementVersion
    BY <1>1, <1>3 DEF WaitIncrementVersion, threadVars, Versions
<1>4. ASSUME NEW n \in 0 .. NumThreads, Submit(n)
      PROVE  e.version <= version' /\ (Withdrawn' => e.version < version')
    <2>1. mpc' \in {"inline", "handover"} /\ version' = version
        BY <1>4 DEF Submit
    <2>2. ~Withdrawn'
        <3>1. Phases'
            BY OwnerPhase
        <3> QED BY <2>1, <3>1 DEF Withdrawn, Phases, TypeOK, ListTypeOK, Num
    <2>3. e = NewState(version) \/ e \in held[v] \cup {st[v]}
        BY <1>2, <1>4 DEF Submit, TypeOK, ThreadTypeOK
    <2>4. NewState(version).version = version
        BY DEF NewState
    <2> QED BY <1>1, <2>1, <2>2, <2>3, <2>4 DEF Versions
<1>5. CASE HandOver
    <2>1. /\ mpc = "handover" /\ mpc' = mpc /\ Num' = Num
          /\ version' = version
        BY <1>5 DEF HandOver, Num
    <2>2. ~Withdrawn'
        BY <2>1 DEF Withdrawn, Phases, Num, TypeOK, ListTypeOK
    <2>3. e = NewState(version) \/ e \in held[v] \cup {st[v]}
        BY <1>2, <1>5 DEF HandOver, TypeOK, ThreadTypeOK
    <2>4. NewState(version).version = version
        BY DEF NewState
    <2> QED BY <1>1, <2>1, <2>2, <2>3, <2>4 DEF Versions
<1>6. CASE UNCHANGED <<held, version>> /\ (Withdrawn' => Withdrawn)
    BY <1>2, <1>6 DEF Versions
<1>7. CASE AddJob \/ DropJob \/ InsertSignal \/ InsertSync
    BY <1>6, <1>7 DEF AddJob, DropJob, InsertSignal, InsertSync, MayAdd,
                      Withdrawn, threadVars
<1>8. CASE SubmitEmpty \/ SubmitReturns \/ WaitEmpty \/ WaitForCount
    BY <1>6, <1>8 DEF SubmitEmpty, SubmitReturns, WaitEmpty, WaitForCount,
                      Withdrawn, Num, threadVars
<1>9. CASE WaitClear
    BY <1>6, <1>9 DEF WaitClear, Withdrawn
<1> QED BY <1>3, <1>4, <1>5, <1>7, <1>8, <1>9 DEF Owner

\* Clearing waits for every thread to be out of RunJobs; the other steps of
\* the owner find no thread inside or leave the list in place.
LEMMA OwnerInside ==
    TypeOK /\ Counted /\ Phases /\ InsideCurrent /\ Owner => InsideCurrent'
<1> SUFFICES ASSUME TypeOK, Counted, Phases, InsideCurrent, Owner,
                    NEW w \in Executors, pc'[w] \in Inside
             PROVE  /\ mpc' # "build" /\ Num' > 0
                    /\ mpc' = "drain" \/ st'[w].version = version'
    BY DEF InsideCurrent
<1>1. pc' = pc /\ st' = st
    BY DEF Owner, AddJob, DropJob, InsertSignal, InsertSync, SubmitEmpty,
           Submit, HandOver, SubmitReturns, WaitEmpty, WaitForCount,
           WaitIncrementVersion, WaitClear, threadVars
<1>2. /\ mpc # "build" /\ Num > 0
      /\ mpc = "drain" \/ st[w].version = version
    BY <1>1 DEF InsideCurrent
<1>3. ~WaitClear
    <2> SUFFICES ASSUME WaitClear PROVE FALSE
        OBVIOUS
    <2>1. IsFiniteSet(RunningThreads)
        BY ExecutorsFinite, FS_Subset DEF RunningThreads
    <2>2. Cardinality(RunningThreads) \in Nat
        BY <2>1, FS_CardinalityType
    <2>3. Cardinality(RunningThreads) = 0
        BY <2>2 DEF WaitClear, Drained, Counted
    <2>4. RunningThreads = {}
        BY <2>1, <2>3, FS_EmptySet
    <2>5. w \in RunningThreads
        BY <1>1 DEF RunningThreads, Inside, Labels
    <2> QED BY <2>4, <2>5
<1>4. CASE HandOver \/ SubmitReturns \/ WaitForCount
    BY <1>1, <1>2, <1>4 DEF HandOver, SubmitReturns, WaitForCount, Num
<1>5. CASE WaitIncrementVersion
    BY <1>1, <1>2, <1>5 DEF WaitIncrementVersion, Num
<1> QED BY <1>2, <1>3, <1>4, <1>5
        DEF Owner, AddJob, DropJob, InsertSignal, InsertSync, MayAdd,
            SubmitEmpty, Submit, WaitEmpty

LEMMA InitHandshake == Init => Handshake
<1> SUFFICES ASSUME Init PROVE Handshake
    OBVIOUS
<1>1. TypeOK
    BY InitType
<1>2. Counted
    <2>1. LockUsers = {} /\ RunningThreads = {}
        BY DEF Init, LockUsers, RunningThreads, Fetching
    <2> QED BY <2>1, FS_EmptySet DEF Init, Counted
<1>3. FetchMutex
    BY DEF Init, FetchMutex, Fetching
<1>4. Phases
    <2>1. done <=> mpc = "build"
        BY Zenon DEF Init
    <2> QED BY <2>1 DEF Init, Phases
<1>5. Versions
    BY DEF Init, Versions, NoState, NewState
<1>6. InsideCurrent
    BY DEF Init, InsideCurrent, Inside
<1> QED BY <1>1, <1>2, <1>3, <1>4, <1>5, <1>6 DEF Handshake

LEMMA StepHandshake == Handshake /\ [Next]_vars => Handshake'
<1> SUFFICES ASSUME Handshake, [Next]_vars PROVE Handshake'
    OBVIOUS
<1> USE DEF Handshake
<1>1. CASE Owner
    BY <1>1, OwnerType, OwnerCounted, OwnerPhase, OwnerVersions, OwnerInside
<1>2. ASSUME NEW w \in Executors, Executor(w) PROVE Handshake'
    <2>1. TypeOK'
        BY <1>2, ExecutorListType, ExecutorCounterType, ExecutorThreadType
           DEF TypeOK
    <2>2. Counted' /\ FetchMutex'
        BY <1>2, ExecutorCounted, ExecutorMutex
    <2>3. Phases' /\ Versions' /\ InsideCurrent'
        BY <1>2, ExecutorVersions
    <2> QED BY <2>1, <2>2, <2>3
<1>3. CASE UNCHANGED vars
    BY <1>3 DEF vars, ownerVars, threadVars, TypeOK, OwnerTypeOK, ListTypeOK,
                CounterTypeOK, ThreadTypeOK, Counted, LockUsers,
                RunningThreads, FetchMutex, Phases, Versions, Withdrawn,
                InsideCurrent, Num
<1> QED BY <1>1, <1>2, <1>3 DEF Next, Finished

\* The inductive invariant holds in every reachable state.
THEOREM HandshakeHolds == Spec => []Handshake
BY InitHandshake, StepHandshake, PTL DEF Spec

\* At most one thread fetches, for any number of threads.
THEOREM MutualExclusion == Spec => []FetchMutex
BY HandshakeHolds, PTL DEF Handshake

\* No thread reads the list while the owner may change it.
THEOREM OwnerUndisturbed == Spec => []Quiescent
<1>1. Handshake => Quiescent
    BY Zenon DEF Handshake, Phases, InsideCurrent, Quiescent
<1> QED BY <1>1, HandshakeHolds, PTL

-----------------------------------------------------------------------------
(* The accounts of the lock-free part: which entries are yet to be counted,  *)
(* and what the counters say of them.  An owner that leaves a SIGNAL without *)
(* its SYNCHRONIZE gets less than the promise, so the pairing is assumed     *)
(* where it is needed.                                                       *)

\* The signals among the first n entries of a list.
Signals(list, n) == Cardinality({i \in 0 .. n - 1 : list[i + 1] = "signal"})
SignalsBefore(n) == Signals(jobList, n)

\* The counter an entry counts down: a signal belongs to the group it opens.
Group(i) == SignalsBefore(i + 1)

\* The list is out of its owner's hands, with something in it.
Submitted == mpc # "build" /\ Num > 0

\* The version the entries of this submission carry.
Round == IF mpc = "drain" THEN version - 1 ELSE version
Live(e) == Submitted /\ e.version = Round

\* A thread owns the index it has fetched until it gives it back or counts it.
Choosing == {"scan", "guard", "giveBack"}
Working == {"run", "running", "count"}
Owns(w, i) == pc[w] \in Choosing \cup Working /\ st[w].nextJobIndex = i
Uncounted(i) ==
    mpc = "build" \/ i >= currentJob \/ \E w \in Executors : Owns(w, i)

\* The entries a counter still stands for.  DONE is never counted in.
Left(g) ==
    {i \in 0 .. Num - 1 : At(i) # "done" /\ Group(i) = g /\ Uncounted(i)}

\* Every sync point before n has been reached by the jobs it waits for.
Passed(n) ==
    \A s \in 0 .. n - 1 : At(s) = "sync" => Count(SignalsBefore(s) - 1) <= 0

\* The list while it is built and after it was submitted.
ListShape ==
    /\ \A i \in 0 .. Num - 1 : At(i) = "done" <=> Submitted /\ i = Num - 1
    /\ lastSignalJob <= Num
    /\ \A i \in 0 .. Num - 1 :
           Group(i) = SignalsBefore(Num) <=> i >= lastSignalJob
    /\ Len(signalJobCount) = SignalsBefore(Num) + (IF Submitted THEN 1 ELSE 0)
    /\ ~Submitted => \A i \in 1 .. Num : status[i] = "todo"

\* Signals and sync points alternate.
Pairs ==
    /\ mpc # "build" => ~hasSignal
    /\ hasSignal => SignalsBefore(Num) >= 1
    /\ \A s \in 0 .. Num - 1 : At(s) = "sync" => SignalsBefore(s) >= 1
    /\ \A h \in 1 .. SignalsBefore(Num) :
           h < SignalsBefore(Num) \/ ~hasSignal =>
               \E s \in 0 .. Num - 1 : At(s) = "sync" /\ SignalsBefore(s) = h

\* Every index is fetched once, in order; only the last one can be given back.
Fetches ==
    /\ Submitted => currentJob >= 0
    /\ \A w \in Executors :
        /\ pc[w] \in Inside => Submitted /\ st[w].version = Round
        /\ pc[w] \in Choosing \cup Working =>
               st[w].nextJobIndex \in 0 .. currentJob - 1
        /\ pc[w] \in Choosing => st[w].nextJobIndex = currentJob - 1
        /\ pc[w] \in Working => /\ st[w].nextJobIndex < Num
                                /\ st[w].lastJobIndex = st[w].nextJobIndex + 1
    /\ \A v, w \in Executors :
        /\ pc[v] \in Choosing \cup Working /\ pc[w] \in Choosing \cup Working
        /\ st[v].nextJobIndex = st[w].nextJobIndex
        => v = w

\* What a thread has fetched but not started is to do, what it has counted is
\* executed.
Statuses ==
    Submitted => \A i \in 0 .. Num - 1 :
        /\ i >= currentJob => status[i + 1] = "todo"
        /\ ~Uncounted(i) => status[i + 1] = "executed"
        /\ \A w \in Executors : Owns(w, i) =>
               status[i + 1] = CASE pc[w] = "running" -> "running"
                                 [] pc[w] = "count" -> "executed"
                                 [] OTHER -> "todo"

\* How far a thread may have read: not past what was fetched, but for an index
\* that was given back since.
Reached(n) ==
    /\ n <= currentJob + 1
    /\ (\E v \in Executors : pc[v] \in Choosing) => n <= currentJob

\* How far a thread has read the list, and what it has made sure of on the way.
Reading(e) ==
    /\ e.lastJobIndex \in 0 .. Num
    /\ e.signalIndex = SignalsBefore(e.lastJobIndex)
    /\ Reached(e.lastJobIndex)
    /\ Passed(e.lastJobIndex)
    /\ e.lastJobIndex = Num => Count(LastGroup) <= 0

Scans ==
    \A w \in Executors : \A e \in held[w] \cup {st[w]} : Live(e) => Reading(e)

\* A thread at a marker, and one that may let the next list go.
Markers ==
    \A w \in Executors :
        /\ pc[w] = "skipCount" => /\ st[w].lastJobIndex < Num
                                  /\ Entry(w) \in {"sync", "done"}
                                  /\ Reached(st[w].lastJobIndex + 1)
        /\ pc[w] = "guard" => /\ st[w].lastJobIndex = Num - 1
                              /\ Reached(st[w].lastJobIndex + 1)
                              /\ Count(LastGroup) <= 0

\* A counter stands for the entries of its group that are left.  DONE counts
\* the last one down below zero, when nothing is left of it.
Counters ==
    /\ \A g \in 0 .. LastGroup :
           Count(g) = Cardinality(Left(g))
                      - (IF Submitted /\ g = LastGroup /\ ~Uncounted(Num - 1)
                         THEN 1 ELSE 0)
    /\ Submitted /\ ~Uncounted(Num - 1) => Left(LastGroup) = {}

\* What others than the threads learn of the counters.
Gates ==
    /\ Submitted /\ doneGuards[currentDoneGuard] <= 0 => Count(LastGroup) <= 0
    /\ mpc \in {"counted", "drain"} => Count(LastGroup) <= 0
    /\ Submitted => \A i \in 0 .. Num - 1 :
           status[i + 1] # "todo" => Passed(i + 1)

\* The inductive invariant behind the promise.
Accounts ==
    /\ Handshake
    /\ ListShape /\ Pairs /\ Fetches /\ Statuses
    /\ Scans /\ Markers /\ Counters /\ Gates

-----------------------------------------------------------------------------
(* Counting the signals of a list.                                           *)

LEMMA SignalsType ==
    ASSUME NEW list, NEW n \in Nat
    PROVE  /\ IsFiniteSet({i \in 0 .. n - 1 : list[i + 1] = "signal"})
           /\ Signals(list, n) \in Nat
<1>1. IsFiniteSet(0 .. n - 1)
    BY FS_Interval
<1>2. IsFiniteSet({i \in 0 .. n - 1 : list[i + 1] = "signal"})
    BY <1>1, FS_Subset
<1> QED BY <1>2, FS_CardinalityType DEF Signals

LEMMA SignalsNone ==
    ASSUME NEW list PROVE Signals(list, 0) = 0
<1>1. {i \in 0 .. 0 - 1 : list[i + 1] = "signal"} = {}
    OBVIOUS
<1> QED BY <1>1, FS_EmptySet DEF Signals

LEMMA SignalsNext ==
    ASSUME NEW list, NEW n \in Nat
    PROVE  Signals(list, n + 1) =
               Signals(list, n) + (IF list[n + 1] = "signal" THEN 1 ELSE 0)
<1> DEFINE before == {i \in 0 .. n - 1 : list[i + 1] = "signal"}
           after == {i \in 0 .. (n + 1) - 1 : list[i + 1] = "signal"}
<1>1. IsFiniteSet(before) /\ Signals(list, n) \in Nat
    BY SignalsType
<1>2. CASE list[n + 1] = "signal"
    <2>1. after = before \cup {n} /\ n \notin before
        BY <1>2
    <2>2. Cardinality(after) = Cardinality(before) + 1
        BY <1>1, <2>1, FS_AddElement
    <2> QED BY <1>2, <2>2 DEF Signals
<1>3. CASE list[n + 1] # "signal"
    <2>1. after = before
        BY <1>3
    <2>2. Signals(list, n + 1) = Signals(list, n)
        BY <2>1 DEF Signals
    <2> QED BY <1>1, <1>3, <2>2
<1> QED BY <1>2, <1>3

LEMMA SignalsMonotone ==
    ASSUME NEW list, NEW n \in Nat, NEW m \in 0 .. n
    PROVE  Signals(list, m) <= Signals(list, n)
<1> DEFINE few == {i \in 0 .. m - 1 : list[i + 1] = "signal"}
           many == {i \in 0 .. n - 1 : list[i + 1] = "signal"}
<1>1. IsFiniteSet(many)
    BY SignalsType
<1>2. few \subseteq many
    OBVIOUS
<1>3. Cardinality(few) <= Cardinality(many)
    BY <1>1, <1>2, FS_Subset
<1> QED BY <1>3 DEF Signals

\* What is appended does not count among the entries before it.
LEMMA SignalsAppend ==
    ASSUME NEW S, NEW list \in Seq(S), NEW e \in S, NEW n \in 0 .. Len(list)
    PROVE  Signals(Append(list, e), n) = Signals(list, n)
<1>1. \A i \in 0 .. n - 1 : Append(list, e)[i + 1] = list[i + 1]
    OBVIOUS
<1>2. {i \in 0 .. n - 1 : Append(list, e)[i + 1] = "signal"}
          = {i \in 0 .. n - 1 : list[i + 1] = "signal"}
    BY <1>1
<1> QED BY <1>2 DEF Signals

\* The counters of the list in hand.
LEMMA SignalsHere ==
    ASSUME TypeOK
    PROVE  /\ Num \in Nat
           /\ \A n \in Nat : SignalsBefore(n) \in Nat
           /\ \A n \in Nat : Group(n) = SignalsBefore(n)
                                 + (IF At(n) = "signal" THEN 1 ELSE 0)
           /\ \A n \in Nat : \A m \in 0 .. n : SignalsBefore(m) <= SignalsBefore(n)
<1>1. Num \in Nat
    BY DEF TypeOK, ListTypeOK, Num
<1> QED BY <1>1, SignalsType, SignalsNext, SignalsMonotone
        DEF SignalsBefore, Group, At

-----------------------------------------------------------------------------
(* What the accounts say.                                                    *)

LEMMA LeftFinite ==
    ASSUME TypeOK, NEW g PROVE IsFiniteSet(Left(g)) /\ Cardinality(Left(g)) \in Nat
<1>1. IsFiniteSet(0 .. Num - 1)
    BY SignalsHere, FS_Interval
<1>2. IsFiniteSet(Left(g))
    BY <1>1, FS_Subset DEF Left
<1> QED BY <1>2, FS_CardinalityType

\* The number of counters.
LEMMA GroupRange ==
    ASSUME TypeOK, ListShape, Submitted
    PROVE  /\ LastGroup = SignalsBefore(Num)
           /\ LastGroup \in Nat
           /\ \A i \in 0 .. Num - 1 : Group(i) \in 0 .. LastGroup
<1>1. LastGroup = SignalsBefore(Num) /\ LastGroup \in Nat
    <2>1. Len(signalJobCount) = SignalsBefore(Num) + 1
        BY Zenon DEF ListShape
    <2>2. SignalsBefore(Num) \in Nat
        BY SignalsHere
    <2> QED BY <2>1, <2>2 DEF LastGroup
<1>2. ASSUME NEW i \in 0 .. Num - 1 PROVE Group(i) \in 0 .. LastGroup
    <2>1. i + 1 \in 0 .. Num
        BY SignalsHere
    <2> QED BY <1>1, <2>1, SignalsHere DEF Group
<1> QED BY <1>1, <1>2

\* A counter at zero has nothing left to stand for.
LEMMA NothingLeft ==
    ASSUME TypeOK, Counters, Submitted, NEW g \in 0 .. LastGroup, Count(g) <= 0
    PROVE  Left(g) = {}
<1>1. IsFiniteSet(Left(g)) /\ Cardinality(Left(g)) \in Nat
    BY LeftFinite
<1>2. CASE g = LastGroup /\ ~Uncounted(Num - 1)
    BY <1>2 DEF Counters
<1>3. CASE ~(g = LastGroup /\ ~Uncounted(Num - 1))
    <2>1. Cardinality(Left(g)) = 0
        BY <1>1, <1>3 DEF Counters
    <2> QED BY <1>1, <2>1, FS_EmptySet
<1> QED BY <1>2, <1>3

\* With nothing left of its group, an entry is executed.
LEMMA GroupExecuted ==
    ASSUME TypeOK, ListShape, Counters, Statuses, Submitted,
           NEW i \in 0 .. Num - 1, At(i) # "done", Count(Group(i)) <= 0
    PROVE  status[i + 1] = "executed"
<1>1. Group(i) \in 0 .. LastGroup
    BY GroupRange
<1>2. Left(Group(i)) = {}
    BY <1>1, NothingLeft
<1>3. ~Uncounted(i)
    BY <1>2 DEF Left
<1> QED BY <1>3 DEF Statuses

\* Whoever passed a sync point has seen every group ahead of its own come to
\* zero: each of them ends with a sync point, which was passed as well.
LEMMA BehindSync ==
    ASSUME TypeOK, Pairs, NEW s \in 0 .. Num - 1, At(s) = "sync",
           Passed(s + 1), NEW h \in 0 .. SignalsBefore(s) - 1
    PROVE  Count(h) <= 0
<1>1. /\ s \in Nat /\ s <= Num /\ Num \in Nat /\ SignalsBefore(s) \in Nat
      /\ SignalsBefore(Num) \in Nat /\ SignalsBefore(s) <= SignalsBefore(Num)
    BY SignalsHere
<1>2. CASE h + 1 = SignalsBefore(s)
    BY <1>1, <1>2 DEF Passed
<1>3. CASE h + 1 # SignalsBefore(s)
    <2>1. h + 1 \in 1 .. SignalsBefore(Num) /\ h + 1 < SignalsBefore(Num)
        BY <1>1, <1>3
    <2>2. PICK r \in 0 .. Num - 1 : At(r) = "sync" /\ SignalsBefore(r) = h + 1
        BY <2>1, Zenon DEF Pairs
    <2>3. r < s
        <3> SUFFICES ASSUME s <= r PROVE FALSE
            BY <1>1
        <3>1. SignalsBefore(s) <= SignalsBefore(r)
            BY SignalsHere
        <3> QED BY <1>1, <1>3, <2>2, <3>1
    <2> QED BY <1>1, <2>2, <2>3 DEF Passed
<1> QED BY <1>2, <1>3

\* When the last counter is at zero, every entry of the owner's is executed:
\* the last group has a sync point of its own, so it was passed, and with it all
\* the groups before.
LEMMA AllExecuted ==
    ASSUME TypeOK, ListShape, Pairs, Statuses, Counters, Gates, Submitted,
           Count(LastGroup) <= 0, NEW i \in 0 .. Num - 2
    PROVE  status[i + 1] = "executed"
<1>1. i \in 0 .. Num - 1 /\ At(i) # "done"
    <2>1. i \in 0 .. Num - 1 /\ i # Num - 1
        BY SignalsHere
    <2> QED BY <2>1 DEF ListShape
<1>2. /\ Group(i) \in 0 .. LastGroup /\ LastGroup = SignalsBefore(Num)
      /\ LastGroup \in Nat
    BY <1>1, GroupRange
<1>3. CASE Group(i) = LastGroup
    BY <1>1, <1>3, GroupExecuted
<1>4. CASE Group(i) # LastGroup
    <2>1. LastGroup \in 1 .. SignalsBefore(Num) /\ ~hasSignal
        BY <1>2, <1>4 DEF Pairs, Submitted
    <2>2. PICK s \in 0 .. Num - 1 :
              At(s) = "sync" /\ SignalsBefore(s) = LastGroup
        BY <2>1, Zenon DEF Pairs
    <2>3. Group(s) = LastGroup
        BY <2>2, <1>2, SignalsHere
    <2>4. status[s + 1] = "executed"
        BY <2>2, <2>3, GroupExecuted
    <2>5. Passed(s + 1)
        BY <2>4 DEF Gates
    <2>6. Count(Group(i)) <= 0
        <3>1. Group(i) \in 0 .. SignalsBefore(s) - 1
            BY <1>2, <1>4, <2>2
        <3> QED BY <2>2, <2>5, <3>1, BehindSync
    <2> QED BY <1>1, <2>6, GroupExecuted
<1> QED BY <1>3, <1>4

-----------------------------------------------------------------------------
(* A thread's step keeps the accounts.                                       *)

\* It leaves the owner's variables and the other threads alone.
LEMMA ExecutorFrame ==
    ASSUME TypeOK, NEW w \in Executors, Executor(w)
    PROVE  /\ UNCHANGED ownerVars /\ version' = version
           /\ \A v \in Executors \ {w} :
                  pc'[v] = pc[v] /\ st'[v] = st[v] /\ held'[v] = held[v]
<1>1. UNCHANGED ownerVars /\ version' = version
    BY DEF Executor, Enter, CheckVersion, Skip, SkipEnd, SkipCount, Lock,
           Fetch, Scan, DecrementGuard, GiveBack, UnlockStalled, Unlock,
           StartJob, FinishJob, CountJob, Leave
<1>2. \A v \in Executors \ {w} :
          pc'[v] = pc[v] /\ st'[v] = st[v] /\ held'[v] = held[v]
    BY DEF TypeOK, ThreadTypeOK, Goto, PassEntry, PassSignal,
           Executor, Enter, CheckVersion, Skip, SkipEnd, SkipCount, Lock,
           Fetch, Scan, DecrementGuard, GiveBack, UnlockStalled, Unlock,
           StartJob, FinishJob, CountJob, Leave
<1> QED BY <1>1, <1>2

\* The list stays as it is.
LEMMA ExecutorList ==
    ASSUME TypeOK, NEW w \in Executors, Executor(w)
    PROVE  /\ Num' = Num /\ Len(signalJobCount') = Len(signalJobCount)
           /\ LastGroup' = LastGroup
           /\ Submitted' <=> Submitted
           /\ Round' = Round
           /\ \A n : SignalsBefore(n)' = SignalsBefore(n)
           /\ \A n : At(n)' = At(n)
           /\ \A n : Group(n)' = Group(n)
           /\ \A e : Live(e)' <=> Live(e)
<1>1. jobList' = jobList /\ mpc' = mpc /\ version' = version
    BY ExecutorFrame DEF ownerVars
<1>2. Len(signalJobCount') = Len(signalJobCount)
    <2>1. CASE CountJob(w)
        <3>1. PICK k, x : signalJobCount' = [signalJobCount EXCEPT ![k] = x]
            BY <2>1 DEF CountJob
        <3>2. signalJobCount' \in Seq(Int) /\ signalJobCount \in Seq(Int)
            BY ExecutorCounterType DEF CounterTypeOK, TypeOK
        <3>3. DOMAIN signalJobCount' = DOMAIN signalJobCount
            BY <3>1
        <3> QED BY <3>2, <3>3
    <2>2. CASE signalJobCount' = signalJobCount
        BY <2>2
    <2> QED BY <2>1, <2>2
            DEF Executor, Enter, CheckVersion, Skip, SkipEnd, SkipCount, Lock,
                Fetch, Scan, DecrementGuard, GiveBack, UnlockStalled, Unlock,
                StartJob, FinishJob, Leave
<1>3. Num' = Num /\ LastGroup' = LastGroup
    BY <1>1, <1>2 DEF Num, LastGroup
<1>4. Submitted' <=> Submitted
    BY <1>1, <1>3 DEF Submitted
<1>5. Round' = Round
    BY <1>1 DEF Round
<1>6. \A n : SignalsBefore(n)' = SignalsBefore(n)
    BY <1>1 DEF SignalsBefore
<1>7. \A n : At(n)' = At(n)
    BY <1>1 DEF At
<1>8. \A n : Group(n)' = Group(n)
    BY <1>6 DEF Group
<1>9. \A e : Live(e)' <=> Live(e)
    BY <1>4, <1>5 DEF Live
<1> QED BY <1>2, <1>3, <1>4, <1>5, <1>6, <1>7, <1>8, <1>9

\* A thread that reads the list works for the present submission.
LEMMA InsideSubmitted ==
    ASSUME Fetches, NEW w \in Executors, pc[w] \in Inside
    PROVE  Submitted /\ Live(st[w]) /\ mpc # "build" /\ Num > 0
BY Zenon DEF Fetches, Live, Submitted

\* No counter goes up.
LEMMA CountsDown ==
    ASSUME TypeOK, NEW w \in Executors, Executor(w), NEW g \in 0 .. LastGroup
    PROVE  Count(g)' <= Count(g) /\ (~CountJob(w) => Count(g)' = Count(g))
<1>1. Count(g) \in Int
    BY DEF Count, TypeOK, CounterTypeOK, LastGroup
<1>2. CASE CountJob(w)
    <2>1. g + 1 \in DOMAIN signalJobCount
        BY DEF TypeOK, CounterTypeOK, LastGroup
    <2> QED BY <1>1, <1>2, <2>1 DEF CountJob, Count
<1>3. CASE signalJobCount' = signalJobCount /\ ~CountJob(w)
    BY <1>1, <1>3 DEF Count
<1> QED BY <1>2, <1>3
        DEF Executor, Enter, CheckVersion, Skip, SkipEnd, SkipCount, Lock,
            Fetch, Scan, DecrementGuard, GiveBack, UnlockStalled, Unlock,
            StartJob, FinishJob, Leave

\* What was passed stays passed.
LEMMA PassedStays ==
    ASSUME TypeOK, ListShape, Pairs, Submitted, NEW w \in Executors,
           Executor(w), NEW n \in 0 .. Num, Passed(n)
    PROVE  Passed(n)'
<1> SUFFICES ASSUME NEW s \in 0 .. n - 1, At(s) = "sync"
             PROVE  Count(SignalsBefore(s) - 1)' <= 0
    BY ExecutorList DEF Passed
<1> DEFINE g == SignalsBefore(s) - 1
<1>1. s \in 0 .. Num - 1 /\ Num \in Nat
    BY SignalsHere
<1>2. SignalsBefore(s) \in Nat /\ SignalsBefore(s) >= 1
      /\ SignalsBefore(s) <= SignalsBefore(Num) /\ SignalsBefore(Num) = LastGroup
    BY <1>1, SignalsHere, GroupRange DEF Pairs
<1>3. PICK h \in 0 .. LastGroup : h = SignalsBefore(s) - 1
    BY <1>2, GroupRange
<1>4. Count(h) <= 0
    BY <1>3 DEF Passed
<1>5. Count(h)' <= Count(h) /\ Count(h) \in Int /\ Count(h)' \in Int
    <2>1. Count(h)' <= Count(h)
        BY CountsDown
    <2>2. h + 1 \in 1 .. Len(signalJobCount)
        BY DEF LastGroup, TypeOK, CounterTypeOK
    <2>3. signalJobCount \in Seq(Int) /\ signalJobCount' \in Seq(Int)
          /\ Len(signalJobCount') = Len(signalJobCount)
        BY ExecutorCounterType, ExecutorList DEF TypeOK, CounterTypeOK
    <2> QED BY <2>1, <2>2, <2>3 DEF Count
<1>6. SignalsBefore(s)' = SignalsBefore(s)
    BY ExecutorList
<1>7. Count(SignalsBefore(s) - 1)' = Count(h)'
    BY <1>3, <1>6 DEF Count
<1> QED BY <1>4, <1>5, <1>7

\* Only counting takes an index off those yet to be counted.
LEMMA UncountedStep ==
    ASSUME Handshake, Fetches, Submitted, NEW w \in Executors,
           Executor(w), NEW i \in 0 .. Num - 1
    PROVE  Uncounted(i)' <=>
               Uncounted(i) /\ ~(CountJob(w) /\ i = st[w].nextJobIndex)
<1> USE DEF Choosing, Working
<1>0. TypeOK /\ mpc # "build" /\ mpc' = mpc /\ currentJob \in Int
      /\ Num' = Num /\ Num \in Nat
    BY ExecutorFrame, ExecutorList, SignalsHere
       DEF Handshake, Submitted, ownerVars, TypeOK, CounterTypeOK
<1>1. \A v \in Executors \ {w} : Owns(v, i)' <=> Owns(v, i)
    BY <1>0, ExecutorFrame DEF Owns
<1>2. /\ Uncounted(i) <=> \/ i >= currentJob \/ Owns(w, i)
                          \/ \E v \in Executors \ {w} : Owns(v, i)
      /\ Uncounted(i)' <=> \/ i >= currentJob' \/ Owns(w, i)'
                           \/ \E v \in Executors \ {w} : Owns(v, i)
    BY <1>0, <1>1 DEF Uncounted
<1>3. /\ pc \in [Executors -> Labels] /\ st \in [Executors -> States]
      /\ currentJob \in Int
    BY <1>0 DEF TypeOK, ThreadTypeOK, CounterTypeOK
<1>4. CASE \/ Enter(w) \/ CheckVersion(w) \/ Skip(w) \/ SkipEnd(w)
           \/ SkipCount(w) \/ Lock(w) \/ UnlockStalled(w) \/ Leave(w)
    <2>1. pc[w] \notin Choosing \cup Working
        BY <1>4 DEF Enter, CheckVersion, Skip, SkipEnd, SkipCount, Lock,
                    UnlockStalled, Leave
    <2>2. pc'[w] \notin Choosing \cup Working
        BY <1>3, <1>4 DEF Goto, Enter, CheckVersion, Skip, SkipEnd, SkipCount,
                    Lock, UnlockStalled, Leave
    <2>3. currentJob' = currentJob /\ ~CountJob(w)
        BY <1>4 DEF Enter, CheckVersion, Skip, SkipEnd, SkipCount, Lock,
                    UnlockStalled, Leave, CountJob
    <2> QED BY <1>2, <2>1, <2>2, <2>3 DEF Owns
<1>5. CASE Scan(w) \/ DecrementGuard(w) \/ StartJob(w) \/ FinishJob(w)
    <2>1. pc[w] \in Choosing \cup Working
        BY <1>5 DEF Scan, DecrementGuard, StartJob, FinishJob
    <2>2. pc'[w] \in Choosing \cup Working
        BY <1>3, <1>5 DEF Goto, Scan, DecrementGuard, StartJob, FinishJob
    <2>3. currentJob' = currentJob /\ ~CountJob(w)
        BY <1>5 DEF Scan, DecrementGuard, StartJob, FinishJob, CountJob
    <2>4. st'[w].nextJobIndex = st[w].nextJobIndex
        BY <1>3, <1>5 DEF Scan, DecrementGuard, StartJob, FinishJob, PassEntry,
                    PassSignal, States
    <2> QED BY <1>2, <2>1, <2>2, <2>3, <2>4 DEF Owns
<1>6. CASE Fetch(w)
    <2>1. /\ currentJob' = currentJob + 1 /\ pc[w] = "fetch"
          /\ pc'[w] = "scan" /\ st'[w].nextJobIndex = currentJob
          /\ ~CountJob(w)
        BY <1>3, <1>6 DEF Fetch, Fetched, Goto, States, CountJob
    <2> QED BY <1>2, <1>3, <2>1 DEF Owns
<1>7. CASE GiveBack(w)
    <2>1. /\ currentJob' = currentJob - 1 /\ pc[w] = "giveBack"
          /\ pc'[w] = "unlockKeep" /\ st'[w] = st[w] /\ ~CountJob(w)
        BY <1>3, <1>7 DEF GiveBack, Goto, CountJob
    <2>2. st[w].nextJobIndex = currentJob - 1
        BY <2>1 DEF Fetches
    <2> QED BY <1>2, <1>3, <2>1, <2>2 DEF Owns
<1>8. CASE Unlock(w)
    <2>1. /\ currentJob' = currentJob /\ pc[w] = "scan" /\ st'[w] = st[w]
          /\ pc'[w] = IF PastEnd(w) THEN "leaveDone" ELSE "run"
          /\ ~CountJob(w)
        BY <1>3, <1>8 DEF Unlock, Goto, CountJob
    <2>2. PastEnd(w) => i # st[w].nextJobIndex
        BY <1>0, <1>3 DEF PastEnd, States
    <2> QED BY <1>2, <2>1, <2>2 DEF Owns
<1>9. CASE CountJob(w)
    <2>1. /\ currentJob' = currentJob /\ pc[w] = "count" /\ st'[w] = st[w]
          /\ pc'[w] \in {"leaveDone", "leaveKeep", "skip"}
        BY <1>3, <1>9 DEF CountJob, Goto
    <2>2. st[w].nextJobIndex \in 0 .. currentJob - 1
        BY <2>1 DEF Fetches
    <2>3. \A v \in Executors \ {w} : ~Owns(v, st[w].nextJobIndex)
        BY <2>1 DEF Fetches, Owns
    <2> QED BY <1>2, <1>3, <1>9, <2>1, <2>2, <2>3 DEF Owns
<1> QED BY <1>4, <1>5, <1>6, <1>7, <1>8, <1>9 DEF Executor

\* What a thread may have read it may have read after the step of another: an
\* index is given back by the thread that chooses, and no other does then.
LEMMA ReachedStays ==
    ASSUME Handshake, NEW w \in Executors, Executor(w), NEW n \in Int, Reached(n)
    PROVE  Reached(n)'
<1> USE DEF Choosing
<1>0. /\ pc \in [Executors -> Labels] /\ st \in [Executors -> States]
      /\ currentJob \in Int
    BY DEF Handshake, TypeOK, ThreadTypeOK, CounterTypeOK
<1>1. CASE Fetch(w)
    BY <1>0, <1>1 DEF Fetch, Fetched, Reached
<1>2. CASE GiveBack(w)
    <2>1. /\ currentJob' = currentJob - 1 /\ pc[w] = "giveBack"
          /\ pc' = [pc EXCEPT ![w] = "unlockKeep"]
        BY <1>2 DEF GiveBack, Goto
    <2>2. n <= currentJob
        BY <2>1 DEF Reached
    <2>3. \A v \in Executors \ {w} : pc[v] \notin Choosing
        BY <2>1 DEF Handshake, FetchMutex, Fetching
    <2>4. \A v \in Executors : pc'[v] \notin Choosing
        BY <1>0, <2>1, <2>3
    <2> QED BY <1>0, <2>1, <2>2, <2>4 DEF Reached
<1>3. CASE /\ currentJob' = currentJob
           /\ pc'[w] \in Choosing => pc[w] \in Choosing
    <2>1. \A v \in Executors : pc'[v] \in Choosing => pc[v] \in Choosing
        BY <1>3, ExecutorFrame DEF Handshake
    <2> QED BY <1>3, <2>1 DEF Reached
<1>4. ~Fetch(w) /\ ~GiveBack(w) => currentJob' = currentJob
    BY DEF Executor, Enter, CheckVersion, Skip, SkipEnd, SkipCount, Lock,
           Scan, DecrementGuard, UnlockStalled, Unlock,
           StartJob, FinishJob, CountJob, Leave
<1>5. ~Fetch(w) /\ pc'[w] \in Choosing => pc[w] \in Choosing
    BY <1>0
       DEF Goto, Executor, Enter, CheckVersion, Skip, SkipEnd, SkipCount, Lock,
           Scan, DecrementGuard, GiveBack, UnlockStalled, Unlock,
           StartJob, FinishJob, CountJob, Leave
<1> QED BY <1>1, <1>2, <1>3, <1>4, <1>5

\* A step that fetches, gives back or counts an index keeps the accounts of who
\* owns which.
LEMMA FetchesStep ==
    ASSUME Handshake, Fetches, Scans, NEW w \in Executors, Executor(w)
    PROVE  Fetches'
<1> USE DEF Choosing, Working
<1>0. /\ pc \in [Executors -> Labels] /\ st \in [Executors -> States]
      /\ currentJob \in Int /\ Num \in Nat /\ TypeOK
    BY SignalsHere DEF Handshake, TypeOK, ThreadTypeOK, CounterTypeOK
<1>a. \A v \in Executors \ {w} : pc'[v] = pc[v] /\ st'[v] = st[v]
    BY <1>0, ExecutorFrame
<1>b. /\ Submitted' <=> Submitted
      /\ Num' = Num
      /\ Round' = Round
    BY <1>0, ExecutorList
<1>c. pc[w] \in Inside => Submitted /\ Live(st[w])
    BY InsideSubmitted
<1>1. CASE Fetch(w)
    <2>1. /\ currentJob' = currentJob + 1 /\ pc[w] = "fetch"
          /\ pc'[w] = "scan" /\ st'[w].nextJobIndex = currentJob
          /\ st'[w].version = st[w].version
        BY <1>0, <1>1 DEF Fetch, Fetched, Goto, States
    <2>2. \A v \in Executors \ {w} : pc[v] \notin Choosing
        BY <2>1 DEF Handshake, FetchMutex, Fetching
    <2>3. Live(st[w]) /\ currentJob >= 0
        BY <1>c, <2>1 DEF Inside, Labels, Fetches
    <2>4. Submitted /\ st'[w].version = Round
        BY <2>1, <2>3 DEF Live
    <2>5. \A v \in Executors : pc'[v] \in Inside => Submitted /\ st'[v].version = Round
        BY <1>a, <1>b, <2>4 DEF Fetches
    <2>6. \A v \in Executors \ {w} :
              pc[v] \in Working => st[v].nextJobIndex # currentJob
        BY <1>0 DEF Fetches, States
    <2>7. Submitted' => currentJob' >= 0
        BY <1>0, <2>1, <2>3
    <2>8. \A v \in Executors :
            /\ pc'[v] \in Choosing \cup Working =>
                   st'[v].nextJobIndex \in 0 .. currentJob' - 1
            /\ pc'[v] \in Choosing => st'[v].nextJobIndex = currentJob' - 1
            /\ pc'[v] \in Working =>
                   /\ st'[v].nextJobIndex < Num'
                   /\ st'[v].lastJobIndex = st'[v].nextJobIndex + 1
        BY <1>0, <1>a, <1>b, <2>1, <2>2, <2>3 DEF Fetches
    <2>9. \A u, v \in Executors :
            /\ pc'[u] \in Choosing \cup Working
            /\ pc'[v] \in Choosing \cup Working
            /\ st'[u].nextJobIndex = st'[v].nextJobIndex
            => u = v
        BY <1>a, <2>1, <2>2, <2>6 DEF Fetches
    <2> QED BY <1>b, <2>5, <2>7, <2>8, <2>9 DEF Fetches
<1>2. CASE GiveBack(w)
    <2>1. /\ currentJob' = currentJob - 1 /\ pc[w] = "giveBack"
          /\ pc'[w] = "unlockKeep" /\ st'[w] = st[w]
        BY <1>0, <1>2 DEF GiveBack, Goto
    <2>2. \A v \in Executors \ {w} : pc[v] \notin Choosing
        BY <2>1 DEF Handshake, FetchMutex, Fetching
    <2>3. Live(st[w]) /\ st[w].nextJobIndex = currentJob - 1
          /\ st[w].nextJobIndex \in 0 .. currentJob - 1
        BY <1>c, <2>1 DEF Inside, Labels, Fetches
    <2>4. \A v \in Executors : pc'[v] \in Inside => Submitted /\ st'[v].version = Round
        BY <1>a, <2>1, <2>3 DEF Fetches, Live
    <2>5. \A v \in Executors \ {w} :
              pc[v] \in Working => st[v].nextJobIndex # currentJob - 1
        BY <2>1, <2>3 DEF Fetches
    <2>6. \A v \in Executors :
            /\ pc'[v] \in Choosing \cup Working =>
                   st'[v].nextJobIndex \in 0 .. currentJob' - 1
            /\ pc'[v] \in Choosing => st'[v].nextJobIndex = currentJob' - 1
            /\ pc'[v] \in Working =>
                   /\ st'[v].nextJobIndex < Num'
                   /\ st'[v].lastJobIndex = st'[v].nextJobIndex + 1
        BY <1>0, <1>a, <1>b, <2>1, <2>2, <2>5 DEF Fetches
    <2>7. Submitted' => currentJob' >= 0
        BY <1>0, <2>1, <2>3
    <2>8. \A u, v \in Executors :
            /\ pc'[u] \in Choosing \cup Working
            /\ pc'[v] \in Choosing \cup Working
            /\ st'[u].nextJobIndex = st'[v].nextJobIndex
            => u = v
        BY <1>a, <2>1 DEF Fetches
    <2> QED BY <1>b, <2>4, <2>6, <2>7, <2>8 DEF Fetches
<1>3. CASE ~Fetch(w) /\ ~GiveBack(w)
    <2>1. currentJob' = currentJob
        BY <1>3
           DEF Executor, Enter, CheckVersion, Skip, SkipEnd, SkipCount, Lock,
               Scan, DecrementGuard, UnlockStalled, Unlock,
               StartJob, FinishJob, CountJob, Leave
    <2>2. pc'[w] \in Inside => Submitted /\ st'[w].version = Round
        <3> SUFFICES ASSUME pc'[w] \in Inside PROVE Submitted /\ st'[w].version = Round
            OBVIOUS
        <3>1. CASE CheckVersion(w)
            <4>1. st' = st /\ st[w].version = version
                BY <1>0, <3>1 DEF CheckVersion, Outdated, Goto, Inside
            <4>2. ~Withdrawn
                BY <1>0, <4>1 DEF Handshake, Versions, TypeOK, CounterTypeOK
            <4> QED BY <1>0, <4>1, <4>2
                    DEF Withdrawn, Live, Submitted, Round
        <3>2. CASE ~CheckVersion(w)
            <4>1. pc[w] \in Inside
                BY <1>0, <3>2 DEF Goto, Inside, Labels,
                            Executor, Enter, Skip, SkipEnd,
                            SkipCount, Lock, Fetch, Scan, DecrementGuard,
                            GiveBack, UnlockStalled, Unlock, StartJob,
                            FinishJob, CountJob, Leave
            <4>2. st'[w].version = st[w].version
                BY <1>0, <3>2, <4>1
                   DEF PassEntry, PassSignal, States,
                       Executor, Enter, Skip, SkipEnd, SkipCount, Lock, Fetch,
                       Scan, DecrementGuard, GiveBack, UnlockStalled, Unlock,
                       StartJob, FinishJob, CountJob, Leave, Inside, Labels
            <4> QED BY <1>c, <4>1, <4>2 DEF Live
        <3> QED BY <3>1, <3>2
    <2>3. pc'[w] \in Choosing \cup Working =>
              /\ pc[w] \in Choosing \cup Working
              /\ st'[w].nextJobIndex = st[w].nextJobIndex
        BY <1>0, <1>3
           DEF Goto, PassEntry, PassSignal, States,
               Executor, Enter, CheckVersion, Skip, SkipEnd, SkipCount, Lock,
               Scan, DecrementGuard, UnlockStalled, Unlock,
               StartJob, FinishJob, CountJob, Leave
    <2>4. pc'[w] \in Choosing => pc[w] \in Choosing
        BY <1>0, <1>3
           DEF Goto, Executor, Enter, CheckVersion, Skip, SkipEnd, SkipCount,
               Lock, Scan, DecrementGuard, UnlockStalled, Unlock,
               StartJob, FinishJob, CountJob, Leave
    <2>5. pc'[w] \in Working =>
              /\ st'[w].nextJobIndex < Num
              /\ st'[w].lastJobIndex = st'[w].nextJobIndex + 1
        <3> SUFFICES ASSUME pc'[w] \in Working
                     PROVE  /\ st'[w].nextJobIndex < Num
                            /\ st'[w].lastJobIndex = st'[w].nextJobIndex + 1
            OBVIOUS
        <3>1. CASE Unlock(w)
            <4>1. /\ pc[w] = "scan" /\ ~PastEnd(w) /\ st' = st
                  /\ \/ st[w].lastJobIndex > st[w].nextJobIndex
                     \/ st[w].lastJobIndex >= Num
                BY <1>0, <3>1 DEF Unlock, Goto
            <4>2. Live(st[w]) /\ st[w].nextJobIndex = currentJob - 1
                BY <1>c, <4>1 DEF Inside, Labels, Fetches
            <4>3. st[w].lastJobIndex <= currentJob
                BY <4>1, <4>2 DEF Scans, Reading, Reached
            <4>4. st[w].lastJobIndex \in Int /\ st[w].nextJobIndex \in Int
                BY <1>0 DEF States
            <4> QED BY <1>0, <4>1, <4>2, <4>3, <4>4 DEF PastEnd
        <3>2. CASE ~Unlock(w)
            <4>1. pc[w] \in Working /\ st' = st
                BY <1>0, <1>3, <3>2
                   DEF Goto, Executor, Enter, CheckVersion, Skip, SkipEnd,
                       SkipCount, Lock, Scan, DecrementGuard, UnlockStalled,
                       StartJob, FinishJob, CountJob, Leave
            <4> QED BY <4>1 DEF Fetches
        <3> QED BY <3>1, <3>2
    <2>6. Submitted' => currentJob' >= 0
        BY <1>b, <2>1 DEF Fetches
    <2>7. \A v \in Executors :
            /\ pc'[v] \in Inside => Submitted /\ st'[v].version = Round
            /\ pc'[v] \in Choosing \cup Working =>
                   st'[v].nextJobIndex \in 0 .. currentJob' - 1
            /\ pc'[v] \in Choosing => st'[v].nextJobIndex = currentJob' - 1
            /\ pc'[v] \in Working =>
                   /\ st'[v].nextJobIndex < Num'
                   /\ st'[v].lastJobIndex = st'[v].nextJobIndex + 1
        <3> SUFFICES ASSUME NEW v \in Executors
                     PROVE
            /\ pc'[v] \in Inside => Submitted /\ st'[v].version = Round
            /\ pc'[v] \in Choosing \cup Working =>
                   st'[v].nextJobIndex \in 0 .. currentJob - 1
            /\ pc'[v] \in Choosing => st'[v].nextJobIndex = currentJob - 1
            /\ pc'[v] \in Working =>
                   /\ st'[v].nextJobIndex < Num
                   /\ st'[v].lastJobIndex = st'[v].nextJobIndex + 1
            BY <1>b, <2>1
        <3>1. CASE v = w
            BY <2>2, <2>3, <2>4, <2>5, <3>1 DEF Fetches
        <3>2. CASE v # w
            BY <1>a, <3>2 DEF Fetches
        <3> QED BY <3>1, <3>2
    <2>8. \A u, v \in Executors :
            /\ pc'[u] \in Choosing \cup Working
            /\ pc'[v] \in Choosing \cup Working
            /\ st'[u].nextJobIndex = st'[v].nextJobIndex
            => u = v
        BY <1>a, <2>3 DEF Fetches
    <2> QED BY <1>b, <2>6, <2>7, <2>8 DEF Fetches
<1> QED BY <1>1, <1>2, <1>3

\* The last counter never comes back up.
LEMMA LastCount ==
    ASSUME TypeOK, ListShape, Submitted, NEW w \in Executors, Executor(w),
           Count(LastGroup) <= 0
    PROVE  Count(LastGroup)' <= 0
<1>1. PICK g \in 0 .. LastGroup : g = LastGroup
    BY GroupRange
<1>2. g + 1 \in 1 .. Len(signalJobCount)
    BY DEF LastGroup, TypeOK, CounterTypeOK
<1>3. Count(g) \in Int /\ Count(g)' \in Int
    <2>1. signalJobCount \in Seq(Int) /\ signalJobCount' \in Seq(Int)
          /\ Len(signalJobCount') = Len(signalJobCount)
        BY ExecutorCounterType, ExecutorList DEF TypeOK, CounterTypeOK
    <2> QED BY <1>2, <2>1 DEF Count
<1>4. Count(g)' <= Count(g)
    BY CountsDown
<1>5. Count(LastGroup)' = Count(g)'
    BY <1>1, ExecutorList DEF Count
<1> QED BY <1>1, <1>3, <1>4, <1>5

\* What a thread has made sure of stays true.
LEMMA ReadingStays ==
    ASSUME Handshake, ListShape, Pairs, Submitted, NEW w \in Executors,
           Executor(w), NEW e, Reading(e)
    PROVE  Reading(e)'
<1>0. TypeOK
    BY DEF Handshake
<1>1. PICK n \in 0 .. Num : n = e.lastJobIndex
    BY DEF Reading
<1>2. n \in Int /\ Num' = Num /\ SignalsBefore(n)' = SignalsBefore(n)
    BY <1>0, ExecutorList
<1>3. Reached(n)'
    BY <1>1, <1>2, ReachedStays DEF Reading
<1>4. Passed(n)'
    BY <1>0, <1>1, PassedStays DEF Reading
<1>5. n = Num => Count(LastGroup)' <= 0
    BY <1>0, <1>1, LastCount DEF Reading
<1> QED BY <1>1, <1>2, <1>3, <1>4, <1>5 DEF Reading

\* Reading one entry more.
LEMMA ReadNext ==
    ASSUME TypeOK, ListShape, Pairs, Submitted, NEW e, e.lastJobIndex \in 0 .. Num - 1,
           Passed(e.lastJobIndex),
           LET i == e.lastJobIndex IN
               /\ At(i) = "sync" => Count(SignalsBefore(i) - 1) <= 0
               /\ At(i) = "done" => Count(LastGroup) <= 0
    PROVE  LET n == e.lastJobIndex + 1 IN
               /\ n \in 0 .. Num
               /\ Passed(n)
               /\ n = Num => Count(LastGroup) <= 0
               /\ SignalsBefore(n) = SignalsBefore(e.lastJobIndex)
                      + (IF At(e.lastJobIndex) = "signal" THEN 1 ELSE 0)
<1>1. PICK i \in 0 .. Num - 1 : i = e.lastJobIndex
    OBVIOUS
<1>2. i \in Nat /\ Num \in Nat
    BY SignalsHere
<1>3. i + 1 \in 0 .. Num
    BY <1>2
<1>4. Passed(i + 1)
    BY <1>1, <1>2 DEF Passed
<1>5. i + 1 = Num => At(i) = "done"
    BY <1>2 DEF ListShape
<1>6. SignalsBefore(i + 1) = SignalsBefore(i)
          + (IF At(i) = "signal" THEN 1 ELSE 0)
    BY <1>2, SignalsHere DEF Group
<1> QED BY <1>1, <1>3, <1>4, <1>5, <1>6

\* A marker that does not block lets the thread pass.
LEMMA NotBlocked ==
    ASSUME TypeOK, Pairs, NEW w \in Executors, Reading(st[w]),
           st[w].lastJobIndex < Num, Entry(w) \in {"sync", "done"},
           \E blocked \in Blocked(w) : ~blocked
    PROVE  LET i == st[w].lastJobIndex IN
               /\ At(i) = "sync" => ~(Count(SignalsBefore(i) - 1) > 0)
               /\ At(i) = "done" => ~(Count(LastGroup) > 0)
<1>1. CASE Entry(w) = "done"
    BY <1>1, Zenon DEF Blocked, Entry
<1>2. CASE Entry(w) = "sync"
    <2>1. st[w].lastJobIndex \in 0 .. Num - 1 /\ At(st[w].lastJobIndex) = "sync"
        BY <1>2, SignalsHere DEF Reading, Entry
    <2>2. SignalsBefore(st[w].lastJobIndex) >= 1
        BY <2>1 DEF Pairs
    <2>3. st[w].signalIndex > 0
        BY <2>1, <2>2, SignalsHere DEF Reading
    <2>4. ~(Count(st[w].signalIndex - 1) > 0)
        BY <1>2, <2>3, Zenon DEF Blocked
    <2> QED BY <2>1, <2>4 DEF Reading
<1> QED BY <1>1, <1>2

\* A state that has read nothing yet.
LEMMA FreshReading ==
    ASSUME TypeOK', Submitted', currentJob' >= 0,
           NEW e, e.lastJobIndex = 0, e.signalIndex = 0
    PROVE  Reading(e)'
<1>1. Num' \in Nat /\ Num' > 0 /\ currentJob' \in Int
    BY DEF Submitted, TypeOK, CounterTypeOK, ListTypeOK, Num
<1>2. SignalsBefore(0)' = 0
    BY SignalsNone DEF SignalsBefore
<1>3. Passed(0)'
    BY DEF Passed
<1>4. Reached(0)'
    <2>1. \A j \in Int : j >= 0 => 0 <= j + 1 /\ 0 <= j
        OBVIOUS
    <2>2. 0 <= currentJob' + 1 /\ 0 <= currentJob'
        BY <1>1, <2>1, Zenon
    <2> QED BY <2>2, Zenon DEF Reached
<1>5. 0 \in 0 .. Num' /\ 0 # Num'
    BY <1>1
<1> QED BY <1>2, <1>3, <1>4, <1>5 DEF Reading

\* A thread that passes an entry has made sure that it may.
LEMMA ReadingStep ==
    ASSUME Handshake, ListShape, Pairs, Fetches, Scans, Markers,
           NEW w \in Executors, Executor(w), pc[w] \in Inside, st'[w] # st[w]
    PROVE  Reading(st'[w])
<1> USE DEF Choosing
<1>0. /\ TypeOK /\ Submitted /\ currentJob \in Int /\ Num \in Nat
      /\ Reading(st[w]) /\ st[w] \in States
    BY InsideSubmitted, SignalsHere
       DEF Handshake, Scans, TypeOK, ThreadTypeOK, CounterTypeOK
<1> DEFINE i == st[w].lastJobIndex
<1>1. st[w].lastJobIndex \in 0 .. Num /\ SignalsBefore(i) \in Int
    BY <1>0, SignalsHere DEF Reading
<1>2. ASSUME Reached(i + 1), i < Num,
             At(i) = "sync" => ~(Count(SignalsBefore(i) - 1) > 0),
             At(i) = "done" => ~(Count(LastGroup) > 0),
             st'[w].lastJobIndex = i + 1,
             st'[w].signalIndex = st[w].signalIndex
                 + (IF At(i) = "signal" THEN 1 ELSE 0)
      PROVE  Reading(st'[w])
    <2>1. /\ At(i) = "sync" => Count(SignalsBefore(i) - 1) <= 0
          /\ At(i) = "done" => Count(LastGroup) <= 0
        <3>1. LastGroup \in 0 .. LastGroup
            BY <1>0, GroupRange DEF Handshake
        <3>2. \A g \in 0 .. LastGroup : Count(g) \in Int
            BY <1>0 DEF TypeOK, CounterTypeOK, Count, LastGroup
        <3>3. At(i) = "sync" => SignalsBefore(i) - 1 \in 0 .. LastGroup
            <4> SUFFICES ASSUME At(i) = "sync"
                         PROVE  SignalsBefore(i) - 1 \in 0 .. LastGroup
                OBVIOUS
            <4>1. i \in 0 .. Num - 1 /\ i \in 0 .. Num
                BY <1>0, <1>1, <1>2
            <4>2. SignalsBefore(i) >= 1 /\ SignalsBefore(i) \in Int
                BY <1>1, <4>1 DEF Pairs
            <4>3. SignalsBefore(i) <= SignalsBefore(Num)
                BY <1>0, <4>1, SignalsHere
            <4>4. SignalsBefore(Num) = LastGroup /\ LastGroup \in Int
                BY <1>0, GroupRange
            <4> QED BY <4>2, <4>3, <4>4
        <3> QED BY <1>2, <3>1, <3>2, <3>3
    <2>2. st[w].lastJobIndex \in 0 .. Num - 1 /\ Passed(st[w].lastJobIndex)
        BY <1>0, <1>1, <1>2 DEF Reading
    <2>3. /\ i + 1 \in 0 .. Num /\ Passed(i + 1)
          /\ i + 1 = Num => Count(LastGroup) <= 0
          /\ SignalsBefore(i + 1) = SignalsBefore(i)
                 + (IF At(i) = "signal" THEN 1 ELSE 0)
        BY <1>0, <2>1, <2>2, ReadNext
    <2>4. st[w].signalIndex = SignalsBefore(i)
        BY <1>0 DEF Reading
    <2> QED BY <1>2, <2>3, <2>4 DEF Reading
<1> DEFINE passes == /\ st'[w].lastJobIndex = i + 1
                     /\ st'[w].signalIndex = st[w].signalIndex
           passesSignal == /\ st'[w].lastJobIndex = i + 1
                           /\ st'[w].signalIndex = st[w].signalIndex + 1
<1>3. /\ PassEntry(w) => passes
      /\ PassSignal(w) => passesSignal
    BY <1>0 DEF PassEntry, PassSignal, States, Handshake, TypeOK, ThreadTypeOK
<1>4. st[w].signalIndex \in Int /\ st[w].lastJobIndex \in Int
      /\ st[w].nextJobIndex \in Int
    BY <1>0 DEF States
<1>5. pc[w] \in Choosing => st[w].nextJobIndex = currentJob - 1
    BY DEF Fetches
<1> HIDE DEF passes, passesSignal
<1>6. CASE Skip(w)
    <2>1. /\ i < currentJob /\ i < Num
          /\ \/ At(i) = "job" /\ passes
             \/ At(i) = "signal" /\ passesSignal
        BY <1>3, <1>6 DEF Skip, Entry
    <2>2. Reached(i + 1)
        BY <1>0, <1>1, <2>1 DEF Reached
    <2> QED BY <1>2, <1>4, <2>1, <2>2 DEF passes, passesSignal
<1>7. CASE SkipCount(w)
    <2>1. /\ pc[w] = "skipCount" /\ passes
          /\ \E blocked \in Blocked(w) : ~blocked
        BY <1>3, <1>7, Zenon DEF SkipCount
    <2>2. i < Num /\ Entry(w) \in {"sync", "done"} /\ Reached(i + 1)
        BY <2>1 DEF Markers
    <2>3. /\ At(i) = "sync" => ~(Count(SignalsBefore(i) - 1) > 0)
          /\ At(i) = "done" => ~(Count(LastGroup) > 0)
        BY <1>0, <2>1, <2>2, NotBlocked
    <2> QED BY <1>2, <1>4, <2>1, <2>2, <2>3 DEF passes, Entry
<1>8. CASE Scan(w)
    <2>1. /\ pc[w] = "scan" /\ i <= st[w].nextJobIndex /\ i < Num
          /\ \/ At(i) = "job" /\ passes
             \/ At(i) = "signal" /\ passesSignal
             \/ /\ At(i) = "sync" /\ passes
                /\ \E blocked \in Blocked(w) : ~blocked
        BY <1>3, <1>8, Zenon DEF Scan, Entry
    <2>2. Reached(i + 1)
        BY <1>0, <1>1, <1>5, <2>1 DEF Reached
    <2>3. At(i) = "sync" => ~(Count(SignalsBefore(i) - 1) > 0)
        BY <1>0, <2>1, NotBlocked DEF Entry
    <2> QED BY <1>2, <1>4, <2>1, <2>2, <2>3 DEF passes, passesSignal
<1>9. CASE DecrementGuard(w)
    <2>1. pc[w] = "guard" /\ passes
        BY <1>3, <1>9 DEF DecrementGuard
    <2>2. i = Num - 1 /\ Count(LastGroup) <= 0 /\ Reached(i + 1)
        BY <2>1 DEF Markers
    <2>3. At(i) = "done" /\ i < Num
        BY <1>0, <1>1, <2>2 DEF ListShape
    <2>4. Count(LastGroup) \in Int
        BY <1>0, GroupRange DEF TypeOK, CounterTypeOK, Count, LastGroup
    <2> QED BY <1>2, <1>4, <2>1, <2>2, <2>3, <2>4 DEF passes
<1>10. CASE Fetch(w)
    <2>1. /\ st'[w].lastJobIndex = st[w].lastJobIndex
          /\ st'[w].signalIndex = st[w].signalIndex
        BY <1>0, <1>10 DEF Fetch, States, Handshake, TypeOK, ThreadTypeOK
    <2> QED BY <1>0, <2>1 DEF Reading
<1> QED BY <1>6, <1>7, <1>8, <1>9, <1>10
        DEF Executor, Enter, CheckVersion, SkipEnd, Lock, GiveBack,
            UnlockStalled, Unlock, StartJob, FinishJob, CountJob, Leave,
            Inside, Labels

\* So has every state a thread runs or keeps.
LEMMA ScansStep ==
    ASSUME Handshake, ListShape, Pairs, Fetches, Fetches', Scans, Markers,
           NEW w \in Executors, Executor(w)
    PROVE  Scans'
<1> SUFFICES ASSUME NEW u \in Executors, NEW e \in held'[u] \cup {st'[u]},
                    Live(e)'
             PROVE  Reading(e)'
    BY DEF Scans
<1>0. TypeOK /\ TypeOK' /\ Live(e) /\ Submitted /\ Submitted'
    BY ExecutorList, ExecutorListType, ExecutorCounterType, ExecutorThreadType
       DEF Handshake, TypeOK, Live
<1>1. CASE e \in held[u] \cup {st[u]}
    <2>1. Reading(e)
        BY <1>0, <1>1 DEF Scans
    <2> QED BY <1>0, <2>1, ReadingStays
<1>2. CASE e = NoState
    <2>1. e.lastJobIndex = 0 /\ e.signalIndex = 0
        BY <1>2 DEF NoState, NewState
    <2>2. currentJob' >= 0
        BY <1>0, Zenon DEF Fetches
    <2> QED BY <1>0, <2>1, <2>2, FreshReading
<1>3. CASE u = w /\ e = st'[w] /\ st'[w] # st[w] /\ pc[w] \in Inside
    BY <1>0, <1>3, ReadingStep, ReadingStays
<1> QED
    <2>1. CASE u # w
        BY <1>0, <1>1, <2>1, ExecutorFrame
    <2>2. CASE u = w /\ Enter(w)
        BY <1>0, <1>1, <2>2 DEF Enter, TypeOK, ThreadTypeOK
    <2>3. CASE u = w /\ Leave(w)
        BY <1>0, <1>1, <1>2, <2>3 DEF Leave, TypeOK, ThreadTypeOK
    <2>4. CASE u = w /\ ~Enter(w) /\ ~Leave(w)
        <3>1. held' = held
            BY <2>4
               DEF Executor, CheckVersion, Skip, SkipEnd, SkipCount, Lock,
                   Fetch, Scan, DecrementGuard, GiveBack, UnlockStalled,
                   Unlock, StartJob, FinishJob, CountJob
        <3>2. st'[w] # st[w] => pc[w] \in Inside
            BY <2>4
               DEF Executor, CheckVersion, Skip, SkipEnd, SkipCount, Lock,
                   Fetch, Scan, DecrementGuard, GiveBack, UnlockStalled,
                   Unlock, StartJob, FinishJob, CountJob, Inside, Labels
        <3> QED BY <1>1, <1>3, <2>4, <3>1, <3>2
    <2> QED BY <2>1, <2>2, <2>3, <2>4

\* A thread that stops at a marker has not read past what was fetched.
LEMMA MarkersStep ==
    ASSUME Handshake, ListShape, Pairs, Fetches, Scans, Markers,
           NEW w \in Executors, Executor(w)
    PROVE  Markers'
<1>0. /\ TypeOK /\ pc \in [Executors -> Labels] /\ st \in [Executors -> States]
      /\ currentJob \in Int /\ Num \in Nat
    BY SignalsHere DEF Handshake, TypeOK, ThreadTypeOK, CounterTypeOK
<1>1. ASSUME NEW v \in Executors, pc'[v] = "skipCount"
      PROVE  /\ st'[v].lastJobIndex < Num'
             /\ Entry(v)' \in {"sync", "done"}
             /\ Reached(st[v].lastJobIndex + 1)'
             /\ st'[v].lastJobIndex = st[v].lastJobIndex
    <2>1. CASE pc[v] = "skipCount"
        <3>1. st'[v] = st[v]
            BY <1>0, <1>1, <2>1, ExecutorFrame
               DEF Goto, Executor, Enter, CheckVersion, Skip, SkipEnd,
                   SkipCount, Lock, Fetch, Scan, DecrementGuard, GiveBack,
                   UnlockStalled, Unlock, StartJob, FinishJob, CountJob, Leave
        <3>2. /\ st[v].lastJobIndex < Num /\ Entry(v) \in {"sync", "done"}
              /\ Reached(st[v].lastJobIndex + 1)
            BY <2>1 DEF Markers
        <3>3. st[v].lastJobIndex + 1 \in Int
            BY <1>0 DEF States
        <3>4. Reached(st[v].lastJobIndex + 1)'
            <4>1. PICK n \in Int : n = st[v].lastJobIndex + 1
                BY <3>3
            <4>2. Reached(n)'
                BY <3>2, <4>1, ReachedStays
            <4>3. st'[v].lastJobIndex + 1 = n
                BY <3>1, <4>1
            <4> QED BY <4>2, <4>3
        <3>5. Entry(v)' = Entry(v) /\ Num' = Num
            BY <1>0, <3>1, ExecutorFrame, ExecutorList DEF Entry, At, ownerVars
        <3> QED BY <3>1, <3>2, <3>4, <3>5
    <2>2. CASE pc[v] # "skipCount"
        <3>1. v = w /\ Skip(w) /\ st' = st
            BY <1>0, <1>1, <2>2, ExecutorFrame
               DEF Goto, Executor, Enter, CheckVersion, Skip, SkipEnd,
                   SkipCount, Lock, Fetch, Scan, DecrementGuard, GiveBack,
                   UnlockStalled, Unlock, StartJob, FinishJob, CountJob, Leave
        <3>2. /\ st[w].lastJobIndex < currentJob /\ st[w].lastJobIndex < Num
              /\ Entry(w) \in {"sync", "done"}
            BY <1>0, <1>1, <2>2, <3>1 DEF Skip
        <3>3. st[v].lastJobIndex \in Int
            BY <1>0 DEF States
        <3>4. currentJob' = currentJob
            BY <3>1 DEF Skip
        <3>5. st'[v].lastJobIndex + 1 <= currentJob'
            BY <1>0, <3>1, <3>2, <3>3, <3>4
        <3>6. Reached(st[v].lastJobIndex + 1)'
            BY <1>0, <3>1, <3>3, <3>4, <3>5 DEF Reached
        <3>7. Entry(v)' = Entry(v) /\ Num' = Num
            BY <1>0, <3>1, ExecutorFrame, ExecutorList DEF Entry, At, ownerVars
        <3> QED BY <3>1, <3>2, <3>6, <3>7
    <2> QED BY <2>1, <2>2
<1>2. ASSUME NEW v \in Executors, pc'[v] = "guard"
      PROVE  /\ st'[v].lastJobIndex = Num' - 1
             /\ Reached(st[v].lastJobIndex + 1)'
             /\ st'[v].lastJobIndex = st[v].lastJobIndex
             /\ Count(LastGroup)' <= 0
    <2>1. /\ st'[v] = st[v]
          /\ pc[v] = "guard" \/ (v = w /\ Scan(w))
        BY <1>0, <1>2, ExecutorFrame
           DEF Goto, Executor, Enter, CheckVersion, Skip, SkipEnd,
               SkipCount, Lock, Fetch, Scan, DecrementGuard, GiveBack,
               UnlockStalled, Unlock, StartJob, FinishJob, CountJob, Leave
    <2>2. pc[v] \in Inside
        BY <2>1 DEF Scan, Inside, Labels
    <2>3. Submitted /\ Live(st[v]) /\ Reading(st[v])
        BY <2>2, InsideSubmitted DEF Scans
    <2>4. /\ st[v].lastJobIndex = Num - 1 /\ Count(LastGroup) <= 0
          /\ Reached(st[v].lastJobIndex + 1)
        <3>1. CASE pc[v] = "guard"
            BY <3>1 DEF Markers
        <3>2. CASE pc[v] # "guard"
            <4>1. /\ pc[w] = "scan" /\ v = w
                  /\ st[w].lastJobIndex <= st[w].nextJobIndex
                  /\ st[w].lastJobIndex < Num
                  /\ Entry(w) = "done"
                  /\ \E blocked \in Blocked(w) : ~blocked
                BY <1>0, <1>2, <2>1, <3>2 DEF Scan, Goto
            <4>2. st[w].lastJobIndex \in 0 .. Num - 1
                BY <1>0, <2>3, <4>1 DEF Reading
            <4>3. st[w].lastJobIndex = Num - 1
                BY <4>1, <4>2 DEF ListShape, Entry
            <4>4. ~(Count(LastGroup) > 0)
                BY <4>1, Zenon DEF Blocked
            <4>5. Count(LastGroup) \in Int
                BY <1>0, <2>3, GroupRange DEF TypeOK, CounterTypeOK, Count,
                   LastGroup
            <4>6. st[w].nextJobIndex = currentJob - 1
                BY <4>1 DEF Fetches, Choosing
            <4>7. Reached(st[w].lastJobIndex + 1)
                BY <1>0, <4>1, <4>2, <4>6 DEF Reached
            <4> QED BY <4>1, <4>3, <4>4, <4>5, <4>7
        <3> QED BY <3>1, <3>2
    <2>5. Count(LastGroup)' <= 0
        BY <1>0, <2>3, <2>4, LastCount
    <2>6. Reached(st[v].lastJobIndex + 1)'
        <3>1. st[v].lastJobIndex + 1 \in Int
            BY <1>0 DEF States
        <3>2. PICK n \in Int : n = st[v].lastJobIndex + 1
            BY <3>1
        <3>3. Reached(n)'
            BY <2>4, <3>2, ReachedStays
        <3>4. st'[v].lastJobIndex + 1 = n
            BY <2>1, <3>2
        <3> QED BY <3>3, <3>4
    <2> QED BY <1>0, <2>1, <2>4, <2>5, <2>6, ExecutorList
<1> QED BY <1>1, <1>2 DEF Markers

\* The status of an entry follows the thread that owns it.
LEMMA StatusesStep ==
    ASSUME Handshake, Fetches, Statuses, NEW w \in Executors, Executor(w)
    PROVE  Statuses'
<1>0. /\ TypeOK /\ pc \in [Executors -> Labels] /\ st \in [Executors -> States]
      /\ currentJob \in Int /\ Num \in Nat /\ Num' = Num
    BY SignalsHere, ExecutorList
       DEF Handshake, TypeOK, ThreadTypeOK, CounterTypeOK
<1> SUFFICES ASSUME Submitted, NEW i \in 0 .. Num - 1
             PROVE
        /\ i >= currentJob' => status'[i + 1] = "todo"
        /\ ~Uncounted(i)' => status'[i + 1] = "executed"
        /\ \A v \in Executors : Owns(v, i)' =>
               status'[i + 1] = CASE pc'[v] = "running" -> "running"
                                  [] pc'[v] = "count" -> "executed"
                                  [] OTHER -> "todo"
    BY <1>0, ExecutorList DEF Statuses
<1>1. i + 1 \in DOMAIN status
    BY <1>0 DEF TypeOK, ListTypeOK, Num
<1>2. \A v \in Executors \ {w} : pc'[v] = pc[v] /\ st'[v] = st[v]
    BY <1>0, ExecutorFrame
<1>3. CASE StartJob(w) \/ FinishJob(w)
    <2>1. /\ pc[w] \in {"run", "running"} /\ st' = st /\ currentJob' = currentJob
          /\ pc'[w] = IF pc[w] = "run" THEN "running" ELSE "count"
          /\ status' = [status EXCEPT ![st[w].nextJobIndex + 1] =
                            IF pc[w] = "run" THEN "running" ELSE "executed"]
        BY <1>0, <1>3 DEF StartJob, FinishJob, Goto
    <2>2. st[w].nextJobIndex \in 0 .. currentJob - 1
          /\ st[w].nextJobIndex \in Int
        BY <2>1 DEF Fetches, Working
    <2>3. Owns(w, st[w].nextJobIndex)
        BY <2>1 DEF Owns, Working
    <2>4. CASE i = st[w].nextJobIndex
        <3>1. status'[i + 1] = IF pc[w] = "run" THEN "running" ELSE "executed"
            BY <1>1, <2>1, <2>4
        <3>2. Uncounted(i)'
            BY <2>1, <2>4 DEF Uncounted, Owns, Working
        <3>3. \A v \in Executors \ {w} : ~Owns(v, i)'
            BY <1>2, <2>1, <2>4 DEF Fetches, Owns, Working
        <3>4. ~(i >= currentJob')
            BY <1>0, <2>1, <2>2, <2>4
        <3>5. status'[i + 1] = CASE pc'[w] = "running" -> "running"
                                 [] pc'[w] = "count" -> "executed"
                                 [] OTHER -> "todo"
            BY <2>1, <3>1
        <3>6. ASSUME NEW v \in Executors, Owns(v, i)' PROVE v = w
            BY <3>3, <3>6
        <3> QED BY <3>2, <3>4, <3>5, <3>6, Zenon
    <2>5. CASE i # st[w].nextJobIndex
        <3>1. status'[i + 1] = status[i + 1]
            BY <2>1, <2>2, <2>5
        <3>2. Uncounted(i)' <=> Uncounted(i)
            BY <2>5, UncountedStep
        <3>3. \A v \in Executors \ {w} : Owns(v, i)' <=> Owns(v, i)
            BY <1>2 DEF Owns
        <3>4. ~Owns(w, i)'
            BY <2>1, <2>5 DEF Owns
        <3> QED BY <1>2, <2>1, <3>1, <3>2, <3>3, <3>4 DEF Statuses
    <2> QED BY <2>4, <2>5
<1>4. CASE ~StartJob(w) /\ ~FinishJob(w)
    <2>1. status' = status
        BY <1>4
           DEF Executor, Enter, CheckVersion, Skip, SkipEnd,
               SkipCount, Lock, Fetch, Scan, DecrementGuard, GiveBack,
               UnlockStalled, Unlock, CountJob, Leave
    <2>2. ~Uncounted(i)' => status[i + 1] = "executed"
        <3>1. CASE CountJob(w) /\ i = st[w].nextJobIndex
            <4>1. Owns(w, i) /\ pc[w] = "count"
                BY <3>1 DEF CountJob, Owns, Working
            <4> QED BY <4>1 DEF Statuses
        <3>2. CASE ~(CountJob(w) /\ i = st[w].nextJobIndex)
            BY <3>2, UncountedStep DEF Statuses
        <3> QED BY <3>1, <3>2
    <2>3. i >= currentJob' => status[i + 1] = "todo"
        <3>1. CASE GiveBack(w)
            <4>1. currentJob' = currentJob - 1 /\ pc[w] = "giveBack"
                BY <3>1 DEF GiveBack
            <4>2. st[w].nextJobIndex = currentJob - 1
                BY <4>1 DEF Fetches, Choosing
            <4>3. i = currentJob - 1 => Owns(w, i)
                BY <4>1, <4>2 DEF Owns, Choosing
            <4>4. i = currentJob - 1 => status[i + 1] = "todo"
                BY <4>1, <4>3 DEF Statuses
            <4> QED BY <1>0, <4>1, <4>4 DEF Statuses
        <3>2. CASE ~GiveBack(w)
            <4>1. currentJob' \in {currentJob, currentJob + 1}
                BY <3>2, <1>4
                   DEF Executor, Enter, CheckVersion, Skip, SkipEnd,
                       SkipCount, Lock, Fetch, Fetched, Scan, DecrementGuard,
                       UnlockStalled, Unlock, CountJob, Leave
            <4> QED BY <1>0, <4>1 DEF Statuses
        <3> QED BY <3>1, <3>2
    <2>4. ASSUME NEW v \in Executors, Owns(v, i)'
          PROVE  status[i + 1] = CASE pc'[v] = "running" -> "running"
                                   [] pc'[v] = "count" -> "executed"
                                   [] OTHER -> "todo"
        <3>1. CASE v # w
            <4>1. Owns(v, i) /\ pc'[v] = pc[v]
                BY <1>2, <2>4, <3>1 DEF Owns
            <4> QED BY <4>1 DEF Statuses
        <3>2. CASE v = w /\ Fetch(w)
            <4>1. i = currentJob /\ pc'[w] = "scan"
                BY <1>0, <2>4, <3>2 DEF Fetch, Goto, Owns, States
            <4>2. status[i + 1] = "todo"
                BY <1>0, <4>1 DEF Statuses
            <4> QED BY <3>2, <4>1, <4>2
        <3>3. CASE v = w /\ ~Fetch(w)
            <4>1. /\ pc'[w] \in Choosing \cup Working
                  /\ st'[w].nextJobIndex = i
                BY <2>4, <3>3 DEF Owns
            <4>2. /\ pc[w] \in Choosing \cup {"run"}
                  /\ pc'[w] \in Choosing \cup {"run"}
                  /\ st'[w].nextJobIndex = st[w].nextJobIndex
                BY <1>0, <1>4, <3>3, <4>1
                   DEF Goto, PassEntry, PassSignal, States, Choosing, Working,
                       Executor, Enter, CheckVersion, Skip, SkipEnd,
                       SkipCount, Lock, Scan, DecrementGuard, GiveBack,
                       UnlockStalled, Unlock, CountJob, Leave
            <4>3. Owns(w, i)
                BY <4>1, <4>2 DEF Owns, Working
            <4>4. status[i + 1] = "todo"
                BY <4>2, <4>3 DEF Statuses, Choosing
            <4> QED BY <3>3, <4>2, <4>4 DEF Choosing
        <3> QED BY <3>1, <3>2, <3>3
    <2> QED BY <2>1, <2>2, <2>3, <2>4
<1> QED BY <1>3, <1>4

\* A counter goes down with the entry it stood for; all other steps leave it.
LEMMA CountersStep ==
    ASSUME Handshake, ListShape, Fetches, Scans, Counters,
           NEW w \in Executors, Executor(w)
    PROVE  Counters'
<1>0. /\ TypeOK /\ pc \in [Executors -> Labels] /\ st \in [Executors -> States]
      /\ currentJob \in Int /\ Num \in Nat
    BY SignalsHere DEF Handshake, TypeOK, ThreadTypeOK, CounterTypeOK
<1>1. /\ Num' = Num /\ LastGroup' = LastGroup /\ (Submitted' <=> Submitted)
      /\ \A n : Group(n)' = Group(n)
      /\ \A n : At(n)' = At(n)
      /\ mpc' = mpc
    BY <1>0, ExecutorList, ExecutorFrame DEF ownerVars
<1>2. \A g \in 0 .. LastGroup : Count(g)' = Count(g) \/ CountJob(w)
    BY <1>0, CountsDown
<1>3. CASE ~CountJob(w)
    <2>1. \A i \in 0 .. Num - 1 : Uncounted(i)' <=> Uncounted(i)
        <3> SUFFICES ASSUME NEW i \in 0 .. Num - 1
                     PROVE  Uncounted(i)' <=> Uncounted(i)
            OBVIOUS
        <3>1. CASE Submitted
            BY <1>3, <3>1, UncountedStep
        <3>2. CASE ~Submitted
            <4>1. mpc = "build"
                BY <1>0, <3>2 DEF Submitted
            <4> QED BY <1>1, <4>1 DEF Uncounted
        <3> QED BY <3>1, <3>2
    <2>2. \A g : Left(g)' = Left(g)
        BY <1>1, <2>1 DEF Left
    <2>3. Submitted => (Uncounted(Num - 1)' <=> Uncounted(Num - 1))
        <3> SUFFICES ASSUME Submitted
                     PROVE  Uncounted(Num - 1)' <=> Uncounted(Num - 1)
            OBVIOUS
        <3>1. Num - 1 \in 0 .. Num - 1
            BY <1>0 DEF Submitted
        <3>2. PICK n \in 0 .. Num - 1 : n = Num - 1
            BY <3>1
        <3>3. Uncounted(n)' <=> Uncounted(n)
            BY <2>1
        <3>4. Uncounted(Num - 1)' <=> Uncounted(n)'
            BY <1>1, <3>2 DEF Uncounted, Owns
        <3> QED BY <3>2, <3>3, <3>4
    <2>4. \A g \in 0 .. LastGroup : Count(g)' = Count(g)
        BY <1>2, <1>3
    <2>5. ASSUME Submitted, ~Uncounted(Num - 1)' PROVE Left(LastGroup)' = {}
        <3>1. PICK g : g = LastGroup
            OBVIOUS
        <3>2. Left(LastGroup)' = Left(g)'
            BY <1>1, <3>1 DEF Left
        <3> QED BY <2>2, <2>3, <2>5, <3>1, <3>2 DEF Counters
    <2>6. \A g \in 0 .. LastGroup :
              Count(g)' = Cardinality(Left(g)')
                  - (IF Submitted' /\ g = LastGroup' /\ ~Uncounted(Num - 1)'
                     THEN 1 ELSE 0)
        BY <1>1, <2>2, <2>3, <2>4 DEF Counters
    <2> QED BY <1>1, <2>5, <2>6 DEF Counters
<1>4. CASE CountJob(w)
    <2> DEFINE i == st[w].nextJobIndex
    <2>1. /\ pc[w] = "count" /\ st' = st /\ currentJob' = currentJob
          /\ signalJobCount' = [signalJobCount EXCEPT
                                    ![st[w].signalIndex + 1] = @ - 1]
        BY <1>4 DEF CountJob
    <2>2. Submitted /\ Live(st[w]) /\ Reading(st[w])
        BY <2>1, InsideSubmitted DEF Scans, Inside, Labels
    <2>3. /\ i \in 0 .. Num - 1 /\ st[w].lastJobIndex = i + 1
        BY <1>0, <2>1 DEF Fetches, Working
    <2>4. PICK k \in 0 .. Num - 1 : k = st[w].nextJobIndex
        BY <2>3
    <2>5. st[w].signalIndex = Group(k) /\ Group(k) \in 0 .. LastGroup
        BY <1>0, <2>2, <2>3, <2>4, GroupRange DEF Reading, Group
    <2>6. LastGroup \in Nat /\ Num - 1 \in 0 .. Num - 1
        BY <1>0, <2>2, GroupRange DEF Submitted
    <2>7. Uncounted(k)
        BY <2>1, <2>4 DEF Uncounted, Owns, Working
    <2>8. \A j \in 0 .. Num - 1 : Uncounted(j)' <=> Uncounted(j) /\ j # k
        BY <1>4, <2>2, <2>4, UncountedStep
    <2>9. \A g \in 0 .. LastGroup :
              Count(g)' = IF g = Group(k) THEN Count(g) - 1 ELSE Count(g)
        <3>1. signalJobCount \in Seq(Int)
            BY <1>0 DEF TypeOK, CounterTypeOK
        <3>2. \A g \in 0 .. LastGroup : g + 1 \in DOMAIN signalJobCount
            BY <3>1 DEF LastGroup
        <3>3. signalJobCount' = [signalJobCount EXCEPT ![Group(k) + 1] = @ - 1]
            BY <2>1, <2>5
        <3>4. Group(k) \in Int
            BY <2>5
        <3> HIDE DEF i
        <3> QED BY <3>2, <3>3, <3>4 DEF Count
    <2>10. \A g \in 0 .. LastGroup : Count(g) \in Int
        BY <1>0 DEF TypeOK, CounterTypeOK, Count, LastGroup
    <2>11. CASE k = Num - 1
        <3>1. At(k) = "done" /\ Group(k) = LastGroup
            <4>1. At(k) = "done"
                BY <2>2, <2>11 DEF ListShape
            <4>2. Group(k) = SignalsBefore(Num)
                BY <1>0, <2>11 DEF Group
            <4> QED BY <1>0, <2>2, <4>1, <4>2, GroupRange
        <3>2. \A g : Left(g)' = Left(g)
            BY <1>1, <2>8, <3>1 DEF Left
        <3>3. Uncounted(Num - 1) /\ ~Uncounted(Num - 1)'
            BY <1>1, <2>6, <2>7, <2>8, <2>11
        <3>4. \A g \in 0 .. LastGroup : Cardinality(Left(g)) \in Nat
            BY <1>0, LeftFinite
        <3>5. \A g \in 0 .. LastGroup : Count(g) = Cardinality(Left(g))
            <4>1. \A g \in 0 .. LastGroup : Count(g) = Cardinality(Left(g)) - 0
                BY <3>3, Zenon DEF Counters
            <4> QED BY <3>4, <4>1
        <3>6. Left(LastGroup) = {}
            <4>1. Count(LastGroup) <= 0
                BY <1>0, <2>2, <2>3, <2>4, <2>11 DEF Reading
            <4>2. LastGroup \in 0 .. LastGroup
                BY <2>6
            <4> QED BY <1>0, <2>2, <4>1, <4>2, NothingLeft
        <3>7. \A g \in 0 .. LastGroup :
                  Count(g)' = Cardinality(Left(g)')
                              - (IF Submitted' /\ g = LastGroup' /\ ~Uncounted(Num - 1)'
                                 THEN 1 ELSE 0)
            BY <1>1, <2>2, <2>9, <2>10, <3>1, <3>2, <3>3, <3>4, <3>5
        <3>8. Left(LastGroup)' = {}
            <4>1. PICK g : g = LastGroup
                OBVIOUS
            <4>2. Left(LastGroup)' = Left(g)'
                BY <1>1, <4>1 DEF Left
            <4> QED BY <3>2, <3>6, <4>1, <4>2
        <3> QED BY <1>1, <3>7, <3>8 DEF Counters
    <2>12. CASE k # Num - 1
        <3>1. At(k) # "done"
            BY <2>12 DEF ListShape
        <3>2. \A g : Left(g)' = Left(g) \ {k}
            BY <1>1, <2>8 DEF Left
        <3>3. k \in Left(Group(k))
            BY <2>7, <3>1 DEF Left
        <3>4. \A g : g # Group(k) => Left(g)' = Left(g)
            BY <3>2 DEF Left
        <3>5. Cardinality(Left(Group(k))') = Cardinality(Left(Group(k))) - 1
            <4>1. PICK g : g = Group(k)
                OBVIOUS
            <4>2. IsFiniteSet(Left(g)) /\ Cardinality(Left(g)) \in Nat
                BY <1>0, LeftFinite
            <4>3. Cardinality(Left(g) \ {k}) = Cardinality(Left(g)) - 1
                BY <3>3, <4>1, <4>2, FS_RemoveElement
            <4>4. Left(Group(k))' = Left(g)'
                BY <1>1, <4>1 DEF Left
            <4> QED BY <3>2, <4>1, <4>3, <4>4
        <3>6. Uncounted(Num - 1)' <=> Uncounted(Num - 1)
            <4>1. PICK n \in 0 .. Num - 1 : n = Num - 1
                BY <2>6
            <4>2. Uncounted(n)' <=> Uncounted(n)
                BY <2>8, <2>12, <4>1
            <4>3. Uncounted(Num - 1)' <=> Uncounted(n)'
                BY <1>1, <4>1 DEF Uncounted, Owns
            <4> QED BY <4>1, <4>2, <4>3
        <3>7. \A g \in 0 .. LastGroup :
                  Cardinality(Left(g)') = Cardinality(Left(g))
                      - (IF g = Group(k) THEN 1 ELSE 0)
            <4> SUFFICES ASSUME NEW g \in 0 .. LastGroup
                         PROVE  Cardinality(Left(g)') = Cardinality(Left(g))
                                    - (IF g = Group(k) THEN 1 ELSE 0)
                OBVIOUS
            <4>1. Cardinality(Left(g)) \in Nat
                BY <1>0, LeftFinite
            <4>2. CASE g # Group(k)
                BY <3>4, <4>1, <4>2
            <4>3. CASE g = Group(k)
                <5>1. Left(Group(k))' = Left(g)'
                    BY <1>1, <4>3 DEF Left
                <5> QED BY <3>5, <4>1, <4>3, <5>1
            <4> QED BY <4>2, <4>3
        <3>8. \A g \in 0 .. LastGroup :
                  Count(g)' = Cardinality(Left(g)')
                              - (IF Submitted' /\ g = LastGroup' /\ ~Uncounted(Num - 1)'
                                 THEN 1 ELSE 0)
            <4> SUFFICES ASSUME NEW g \in 0 .. LastGroup
                         PROVE  Count(g)' = Cardinality(Left(g)')
                              - (IF Submitted' /\ g = LastGroup' /\ ~Uncounted(Num - 1)'
                                 THEN 1 ELSE 0)
                OBVIOUS
            <4>1. Cardinality(Left(g)) \in Nat
                BY <1>0, LeftFinite
            <4>2. Count(g) = Cardinality(Left(g))
                      - (IF Submitted /\ g = LastGroup /\ ~Uncounted(Num - 1)
                         THEN 1 ELSE 0)
                BY DEF Counters
            <4> QED BY <1>1, <2>9, <3>6, <3>7, <4>1, <4>2
        <3>9. ~Uncounted(Num - 1) => Left(LastGroup)' = {}
            <4>1. PICK g : g = LastGroup
                OBVIOUS
            <4>2. Left(LastGroup)' = Left(g)'
                BY <1>1, <4>1 DEF Left
            <4> QED BY <2>2, <3>2, <4>1, <4>2 DEF Counters
        <3> QED BY <1>1, <3>6, <3>8, <3>9 DEF Counters
    <2> QED BY <2>11, <2>12
<1> QED BY <1>3, <1>4

\* The guard goes down, and a job starts, only behind the counters.
LEMMA GatesStep ==
    ASSUME Handshake, ListShape, Pairs, Fetches, Scans, Markers, Gates,
           NEW w \in Executors, Executor(w)
    PROVE  Gates'
<1>0. /\ TypeOK /\ pc \in [Executors -> Labels] /\ st \in [Executors -> States]
      /\ currentJob \in Int /\ Num \in Nat
    BY SignalsHere DEF Handshake, TypeOK, ThreadTypeOK, CounterTypeOK
<1>1. /\ Num' = Num /\ (Submitted' <=> Submitted)
      /\ mpc' = mpc /\ currentDoneGuard' = currentDoneGuard
    BY <1>0, ExecutorList, ExecutorFrame DEF ownerVars
<1>2. mpc \in {"counted", "drain"} => Submitted
    BY DEF Handshake, Phases, Submitted
<1>3. ASSUME Submitted, doneGuards'[currentDoneGuard] <= 0
      PROVE  Count(LastGroup)' <= 0
    <2>1. CASE DecrementGuard(w)
        BY <1>0, <1>3, <2>1, LastCount DEF DecrementGuard, Markers
    <2>2. CASE ~DecrementGuard(w)
        <3>1. doneGuards' = doneGuards
            BY <2>2
               DEF Executor, Enter, CheckVersion, Skip, SkipEnd,
                   SkipCount, Lock, Fetch, Scan, GiveBack,
                   UnlockStalled, Unlock, StartJob, FinishJob, CountJob, Leave
        <3> QED BY <1>0, <1>3, <3>1, LastCount DEF Gates
    <2> QED BY <2>1, <2>2
<1>4. mpc \in {"counted", "drain"} => Count(LastGroup)' <= 0
    BY <1>0, <1>2, LastCount DEF Gates
<1>5. ASSUME Submitted, NEW i \in 0 .. Num - 1, status'[i + 1] # "todo"
      PROVE  Passed(i + 1)'
    <2>1. Passed(i + 1)
        <3>1. CASE StartJob(w) /\ i = st[w].nextJobIndex
            <4>1. pc[w] = "run"
                BY <3>1 DEF StartJob
            <4>2. st[w].lastJobIndex = i + 1
                BY <3>1, <4>1 DEF Fetches, Working
            <4>3. Reading(st[w])
                BY <4>1, InsideSubmitted DEF Scans, Inside, Labels
            <4> QED BY <4>2, <4>3 DEF Reading
        <3>2. CASE FinishJob(w) /\ i = st[w].nextJobIndex
            <4>1. pc[w] = "running"
                BY <3>2 DEF FinishJob
            <4>2. st[w].lastJobIndex = i + 1
                BY <3>2, <4>1 DEF Fetches, Working
            <4>3. Reading(st[w])
                BY <4>1, InsideSubmitted DEF Scans, Inside, Labels
            <4> QED BY <4>2, <4>3 DEF Reading
        <3>3. CASE (StartJob(w) \/ FinishJob(w)) /\ i # st[w].nextJobIndex
            <4>1. pc[w] \in Working
                BY <3>3 DEF StartJob, FinishJob, Working
            <4>2. st[w].nextJobIndex \in Int
                BY <1>0 DEF States
            <4>3. st[w].nextJobIndex + 1 # i + 1
                BY <3>3, <4>2
            <4>4. status'[i + 1] = status[i + 1]
                <5>1. i + 1 \in DOMAIN status
                    BY <1>0 DEF TypeOK, ListTypeOK, Num
                <5>2. \E s : status' = [status EXCEPT
                                           ![st[w].nextJobIndex + 1] = s]
                    BY <3>3 DEF StartJob, FinishJob
                <5> QED BY <4>3, <5>1, <5>2
            <4> QED BY <1>5, <4>4 DEF Gates
        <3>4. CASE ~StartJob(w) /\ ~FinishJob(w)
            <4>1. status' = status
                BY <3>4
                   DEF Executor, Enter, CheckVersion, Skip, SkipEnd,
                       SkipCount, Lock, Fetch, Scan, DecrementGuard, GiveBack,
                       UnlockStalled, Unlock, CountJob, Leave
            <4> QED BY <1>5, <4>1 DEF Gates
        <3> QED BY <3>1, <3>2, <3>3, <3>4
    <2>2. i + 1 \in 0 .. Num
        BY <1>0
    <2> QED BY <1>0, <1>5, <2>1, <2>2, PassedStays
<1> QED BY <1>1, <1>3, <1>4, <1>5 DEF Gates

\* No thread disturbs the accounts.
LEMMA ExecutorAccounts ==
    ASSUME Accounts, NEW w \in Executors, Executor(w)
    PROVE  Accounts'
<1> USE DEF Accounts
<1>0. TypeOK
    BY DEF Handshake
<1>1. Handshake'
    BY StepHandshake DEF Next
<1>2. /\ Num' = Num /\ Len(signalJobCount') = Len(signalJobCount)
      /\ (Submitted' <=> Submitted)
      /\ \A n : SignalsBefore(n)' = SignalsBefore(n)
      /\ \A n : At(n)' = At(n)
      /\ \A n : Group(n)' = Group(n)
    BY <1>0, ExecutorList
<1>3. mpc' = mpc /\ hasSignal' = hasSignal /\ lastSignalJob' = lastSignalJob
    BY <1>0, ExecutorFrame DEF ownerVars
<1>4. SignalsBefore(Num)' = SignalsBefore(Num)
    BY <1>2 DEF SignalsBefore
<1>5. ListShape'
    <2>1. ~Submitted => status' = status
        <3>1. ~Submitted => pc[w] \notin Inside
            BY InsideSubmitted
        <3>2. pc[w] \notin Inside => status' = status
            BY DEF Executor, Enter, CheckVersion, Skip, SkipEnd,
                   SkipCount, Lock, Fetch, Scan, DecrementGuard, GiveBack,
                   UnlockStalled, Unlock, StartJob, FinishJob, CountJob, Leave,
                   Inside, Labels
        <3> QED BY <3>1, <3>2
    <2> QED BY <1>2, <1>3, <1>4, <2>1 DEF ListShape
<1>6. Pairs'
    BY <1>2, <1>3, <1>4 DEF Pairs
<1>7. Fetches'
    BY FetchesStep
<1>8. Statuses'
    BY StatusesStep
<1>9. Scans'
    BY <1>7, ScansStep
<1>10. Markers'
    BY MarkersStep
<1>11. Counters' /\ Gates'
    BY CountersStep, GatesStep
<1> QED BY <1>1, <1>5, <1>6, <1>7, <1>8, <1>9, <1>10, <1>11

-----------------------------------------------------------------------------
(* The owner's steps keep the accounts.                                      *)

\* While the list is its owner's, or empty, no thread is in it and the accounts
\* of the threads say nothing.
LEMMA OutOfUse ==
    ASSUME Handshake', ~Submitted'
    PROVE  Fetches' /\ Statuses' /\ Scans' /\ Markers' /\ Gates'
<1>1. \A w \in Executors : pc'[w] \notin Inside
    BY DEF Handshake, InsideCurrent, Submitted
<1>2. \A w \in Executors : /\ pc'[w] \notin Choosing \cup Working
                           /\ pc'[w] \notin {"skipCount", "guard"}
    BY <1>1 DEF Choosing, Working, Inside, Labels
<1>3. Fetches'
    BY <1>1, <1>2 DEF Fetches
<1>4. Statuses' /\ Scans'
    BY DEF Statuses, Scans, Live
<1>5. Markers'
    BY <1>2 DEF Markers
<1>6. mpc' \notin {"counted", "drain"}
    BY DEF Handshake, Phases, Submitted
<1>7. Gates'
    BY <1>6 DEF Gates
<1> QED BY <1>3, <1>4, <1>5, <1>7

\* A sequence with an element behind it.
LEMMA AppendParts ==
    ASSUME NEW S, NEW s \in Seq(S), NEW e \in S
    PROVE  /\ Len(Append(s, e)) = Len(s) + 1
           /\ Append(s, e)[Len(s) + 1] = e
           /\ \A i \in 1 .. Len(s) : Append(s, e)[i] = s[i]
           /\ \A i \in 0 .. Len(s) - 1 : Append(s, e)[i + 1] = s[i + 1]
OBVIOUS

\* What an appended entry changes in the groups.
LEMMA PushGroups ==
    ASSUME TypeOK, NEW kind \in Kinds, Push(kind), NEW N, N = Num
    PROVE  /\ N \in Nat /\ Num' = N + 1
           /\ status'[N + 1] = "todo"
           /\ \A i \in 1 .. N : status'[i] = status[i]
           /\ At(N)' = kind
           /\ \A i \in 0 .. N - 1 : At(i)' = At(i) /\ Group(i)' = Group(i)
           /\ \A n \in 0 .. N : SignalsBefore(n)' = SignalsBefore(n)
           /\ SignalsBefore(N + 1)' = SignalsBefore(N)
                                          + (IF kind = "signal" THEN 1 ELSE 0)
           /\ SignalsBefore(Num)' = SignalsBefore(N + 1)'
<1>1. /\ jobList \in Seq(Kinds) /\ N = Len(jobList) /\ N \in Nat
      /\ N = Len(status) /\ status \in Seq({"todo", "running", "executed"})
      /\ jobList' = Append(jobList, kind) /\ status' = Append(status, "todo")
      /\ "todo" \in {"todo", "running", "executed"}
    BY DEF TypeOK, ListTypeOK, Num, Push
<1> DEFINE longer == Append(jobList, kind)
           statuses == Append(status, "todo")
<1>11. /\ Len(longer) = Len(jobList) + 1
       /\ longer[Len(jobList) + 1] = kind
       /\ \A i \in 0 .. Len(jobList) - 1 : longer[i + 1] = jobList[i + 1]
    <2>1. jobList \in Seq(Kinds) /\ kind \in Kinds
        BY <1>1
    <2> QED BY <2>1, AppendParts, ZenonT(30)
<1>12. /\ statuses[Len(status) + 1] = "todo"
       /\ \A i \in 1 .. Len(status) : statuses[i] = status[i]
    BY <1>1, AppendParts
<1> HIDE DEF longer, statuses
<1>13. jobList' = longer /\ status' = statuses
    BY <1>1 DEF longer, statuses
<1>2. /\ Num' = N + 1
      /\ status'[N + 1] = "todo"
      /\ \A i \in 1 .. N : status'[i] = status[i]
    BY <1>1, <1>11, <1>12, <1>13 DEF Num
<1>3. /\ At(N)' = kind
      /\ \A i \in 0 .. N - 1 : At(i)' = At(i)
    BY <1>1, <1>11, <1>13 DEF At
<1>4. \A n \in 0 .. N : SignalsBefore(n)' = SignalsBefore(n)
    BY <1>1, SignalsAppend DEF SignalsBefore
<1>5. \A i \in 0 .. N - 1 : Group(i)' = Group(i)
    <2>1. \A i \in 0 .. N - 1 : i + 1 \in 0 .. N
        BY <1>1
    <2> QED BY <1>4, <2>1 DEF Group
<1>6. SignalsBefore(N + 1)' = SignalsBefore(N)' + (IF kind = "signal" THEN 1 ELSE 0)
    <2>1. Signals(jobList', N + 1) = Signals(jobList', N)
              + (IF jobList'[N + 1] = "signal" THEN 1 ELSE 0)
        BY <1>1, SignalsNext
    <2>2. jobList'[N + 1] = kind
        BY <1>1, <1>11, <1>13
    <2> QED BY <2>1, <2>2 DEF SignalsBefore
<1>7. SignalsBefore(N)' = SignalsBefore(N)
    BY <1>1, <1>4
<1>8. SignalsBefore(Num)' = SignalsBefore(N + 1)'
    BY <1>2 DEF SignalsBefore
<1> QED BY <1>1, <1>2, <1>3, <1>4, <1>5, <1>6, <1>7, <1>8

\* The counters of a list that nobody has fetched from: the closed groups stand
\* for the same entries, and the group that is closed now for what was added
\* since the last signal.
LEMMA PushLeft ==
    ASSUME TypeOK, ListShape, mpc = "build", NEW kind \in Kinds, Push(kind),
           NEW N, N = Num, NEW S, S = SignalsBefore(N),
           \A i \in 0 .. N : Uncounted(i)'
    PROVE  /\ S \in Nat
           /\ \A g \in 0 .. S - 1 : Left(g)' = Left(g)
           /\ kind \in {"signal", "done"} =>
                  Cardinality(Left(S)') = N - lastSignalJob
<1>1. /\ N \in Nat /\ Num' = N + 1 /\ At(N)' = kind
      /\ \A i \in 0 .. N - 1 : At(i)' = At(i) /\ Group(i)' = Group(i)
      /\ \A n \in 0 .. N : SignalsBefore(n)' = SignalsBefore(n)
      /\ SignalsBefore(N + 1)' = S + (IF kind = "signal" THEN 1 ELSE 0)
    BY PushGroups
<1>2. S \in Nat
    BY <1>1, SignalsHere
<1>3. Group(N)' = S + (IF kind = "signal" THEN 1 ELSE 0)
    BY <1>1 DEF Group
<1>4. \A i \in 0 .. N - 1 : Uncounted(i) /\ At(i) # "done" /\ Group(i) <= S
    <2>1. \A i \in 0 .. N - 1 : Group(i) <= S
        <3>1. \A i \in 0 .. N - 1 : i + 1 \in 0 .. N
            BY <1>1
        <3> QED BY <1>1, <3>1, SignalsHere DEF Group
    <2> QED BY <2>1 DEF Uncounted, ListShape, Submitted
<1>5. \A g : Left(g)' = {i \in 0 .. N : At(i)' # "done" /\ Group(i)' = g}
    BY <1>1 DEF Left
<1>6. \A g : Left(g) = {i \in 0 .. N - 1 : Group(i) = g}
    BY <1>4 DEF Left
<1>7. \A g \in 0 .. S - 1 : Left(g)' = Left(g)
    <2> SUFFICES ASSUME NEW g \in 0 .. S - 1 PROVE Left(g)' = Left(g)
        OBVIOUS
    <2>1. Group(N)' # g
        BY <1>2, <1>3
    <2>2. {i \in 0 .. N : At(i)' # "done" /\ Group(i)' = g}
              = {i \in 0 .. N - 1 : Group(i) = g}
        BY <1>1, <1>4, <2>1
    <2> QED BY <1>5, <1>6, <2>2
<1>8. ASSUME kind \in {"signal", "done"}
      PROVE  Cardinality(Left(S)') = N - lastSignalJob
    <2>1. lastSignalJob \in Nat /\ lastSignalJob <= N
        BY DEF TypeOK, OwnerTypeOK, ListShape
    <2>2. \A i \in 0 .. N - 1 : Group(i) = S <=> i >= lastSignalJob
        BY DEF ListShape
    <2>3. ~(At(N)' # "done" /\ Group(N)' = S)
        BY <1>1, <1>2, <1>3, <1>8
    <2>4. {i \in 0 .. N : At(i)' # "done" /\ Group(i)' = S}
              = lastSignalJob .. N - 1
        BY <1>1, <1>4, <2>1, <2>2, <2>3
    <2>5. Cardinality(lastSignalJob .. N - 1) = N - lastSignalJob
        <3>1. lastSignalJob \in Int /\ N - 1 \in Int
            BY <1>1, <2>1
        <3>2. Cardinality(lastSignalJob .. N - 1) =
                  IF lastSignalJob > N - 1 THEN 0 ELSE (N - 1) - lastSignalJob + 1
            BY <3>1, FS_Interval
        <3> QED BY <1>1, <2>1, <3>2
    <2> QED BY <1>5, <2>4, <2>5
<1> QED BY <1>2, <1>7, <1>8

\* An entry that is added while the list is built.
LEMMA BuildShape ==
    ASSUME Handshake, ListShape, Pairs, Counters, AddJob \/ InsertSignal \/ InsertSync
    PROVE  ListShape' /\ Pairs' /\ Counters' /\ ~Submitted'
<1>0. TypeOK
    BY DEF Handshake
<1>1. PICK N, S : N = Num /\ S = SignalsBefore(N)
    OBVIOUS
<1>2. PICK kind \in {"job", "signal", "sync"} :
          /\ Push(kind)
          /\ kind = "job" <=> AddJob
          /\ kind = "signal" <=> InsertSignal
          /\ kind = "sync" <=> InsertSync
    <2>1. \A k, l \in Kinds : Push(k) /\ Push(l) => k = l
        <3> SUFFICES ASSUME NEW k \in Kinds, NEW l \in Kinds, Push(k), Push(l)
                     PROVE  k = l
            OBVIOUS
        <3>1. Append(jobList, k) = Append(jobList, l)
            BY DEF Push
        <3>2. jobList \in Seq(Kinds)
            BY <1>0 DEF TypeOK, ListTypeOK
        <3>3. Append(jobList, k)[Len(jobList) + 1] = k
            BY <3>2, AppendParts
        <3>4. Append(jobList, l)[Len(jobList) + 1] = l
            BY <3>2, AppendParts
        <3> QED BY <3>1, <3>3, <3>4
    <2> QED BY <2>1 DEF AddJob, InsertSignal, InsertSync, Kinds
<1>3. mpc = "build" /\ mpc' = "build" /\ ~Submitted /\ ~Submitted'
    BY DEF AddJob, InsertSignal, InsertSync, MayAdd, Submitted
<1>4. /\ N \in Nat /\ Num' = N + 1 /\ At(N)' = kind
      /\ status'[N + 1] = "todo"
      /\ \A i \in 1 .. N : status'[i] = status[i]
      /\ \A i \in 0 .. N - 1 : At(i)' = At(i) /\ Group(i)' = Group(i)
      /\ \A n \in 0 .. N : SignalsBefore(n)' = SignalsBefore(n)
      /\ SignalsBefore(N + 1)' = S + (IF kind = "signal" THEN 1 ELSE 0)
      /\ SignalsBefore(Num)' = SignalsBefore(N + 1)'
    BY <1>0, <1>1, <1>2, PushGroups DEF Kinds
<1>5. \A i : Uncounted(i)'
    BY <1>3 DEF Uncounted
<1>6. /\ S \in Nat
      /\ \A g \in 0 .. S - 1 : Left(g)' = Left(g)
      /\ kind = "signal" => Cardinality(Left(S)') = N - lastSignalJob
    BY <1>0, <1>1, <1>2, <1>3, <1>5, PushLeft DEF Kinds
<1>7. /\ kind = "signal" =>
             /\ signalJobCount' = Append(signalJobCount, N - lastSignalJob)
             /\ lastSignalJob' = N /\ ~hasSignal /\ hasSignal'
      /\ kind # "signal" =>
             signalJobCount' = signalJobCount /\ lastSignalJob' = lastSignalJob
      /\ kind = "job" => hasSignal' = hasSignal
      /\ kind = "sync" => hasSignal /\ ~hasSignal'
    BY <1>1, <1>2 DEF AddJob, InsertSignal, InsertSync, GroupSize
<1>8. /\ lastSignalJob \in Nat /\ lastSignalJob <= N
      /\ signalJobCount \in Seq(Int) /\ Len(signalJobCount) = S
      /\ \A i \in 0 .. N - 1 : Group(i) = S <=> i >= lastSignalJob
      /\ \A i \in 0 .. N - 1 : At(i) # "done"
      /\ \A i \in 1 .. N : status[i] = "todo"
    <2>1. Len(signalJobCount) = S
        BY <1>1, <1>3, <1>6 DEF ListShape
    <2> QED BY <1>0, <1>1, <1>3, <2>1
            DEF ListShape, TypeOK, OwnerTypeOK, CounterTypeOK
<1>9. \A i \in 0 .. N - 1 : Group(i) <= S
    <2>1. \A i \in 0 .. N - 1 : i + 1 \in 0 .. N
        BY <1>4
    <2> QED BY <1>0, <1>1, <1>4, <2>1, SignalsHere DEF Group
<1>10. \A i \in 0 .. N - 1 : Group(i) \in Nat
    BY <1>0, <1>4, SignalsHere, SMTT(30) DEF Group
<1>11. Group(N)' = S + (IF kind = "signal" THEN 1 ELSE 0)
    BY <1>4 DEF Group
<1>12. ListShape'
    <2>1. \A i \in 0 .. N : At(i)' # "done"
        BY <1>4, <1>8
    <2>2. lastSignalJob' <= N + 1
        BY <1>4, <1>7, <1>8
    <2>3. \A i \in 0 .. N : Group(i)' = SignalsBefore(N + 1)' <=>
                                i >= lastSignalJob'
        <3> SUFFICES ASSUME NEW i \in 0 .. N
                     PROVE  Group(i)' = SignalsBefore(N + 1)' <=>
                                i >= lastSignalJob'
            OBVIOUS
        <3>1. CASE i = N
            BY <1>4, <1>7, <1>8, <1>11, <3>1
        <3>2. CASE i # N
            <4>1. i \in 0 .. N - 1 /\ Group(i)' = Group(i)
                BY <1>4, <3>2
            <4>2. CASE kind = "signal"
                BY <1>4, <1>6, <1>7, <1>9, <1>10, <4>1, <4>2
            <4>3. CASE kind # "signal"
                BY <1>4, <1>6, <1>7, <1>8, <4>1, <4>3
            <4> QED BY <4>2, <4>3
        <3> QED BY <3>1, <3>2
    <2>4. Len(signalJobCount') = SignalsBefore(N + 1)'
        BY <1>4, <1>6, <1>7, <1>8
    <2>5. \A i \in 1 .. N + 1 : status'[i] = "todo"
        BY <1>4, <1>8
    <2>6. SignalsBefore(Num)' = SignalsBefore(N + 1)' + 0
        BY <1>4, <1>6
    <2> QED BY <1>3, <1>4, <2>1, <2>2, <2>3, <2>4, <2>5, <2>6 DEF ListShape
<1>13. Pairs'
    <2>1. hasSignal' => SignalsBefore(N + 1)' >= 1
        <3>1. CASE kind = "signal"
            <4>1. SignalsBefore(N + 1)' = S + 1
                BY <1>4, <3>1
            <4> QED BY <1>6, <4>1
        <3>2. CASE kind = "sync"
            BY <1>7, <3>2
        <3>3. CASE kind = "job"
            <4>1. hasSignal' = hasSignal
                BY <1>7, <3>3
            <4>2. hasSignal => S >= 1
                BY <1>1, Zenon DEF Pairs
            <4>3. SignalsBefore(N + 1)' = S
                BY <1>4, <1>6, <3>3
            <4> QED BY <4>1, <4>2, <4>3
        <3> QED BY <3>1, <3>2, <3>3
    <2>2. \A s \in 0 .. N : At(s)' = "sync" => SignalsBefore(s)' >= 1
        <3> SUFFICES ASSUME NEW s \in 0 .. N, At(s)' = "sync"
                     PROVE  SignalsBefore(s)' >= 1
            OBVIOUS
        <3>1. SignalsBefore(s)' = SignalsBefore(s)
            BY <1>4
        <3>2. CASE s = N
            BY <1>1, <1>4, <1>7, <3>1, <3>2 DEF Pairs
        <3>3. CASE s # N
            BY <1>1, <1>4, <3>1, <3>3 DEF Pairs
        <3> QED BY <3>2, <3>3
    <2>3. ASSUME NEW h \in 1 .. SignalsBefore(N + 1)',
                 h < SignalsBefore(N + 1)' \/ ~hasSignal'
          PROVE  \E s \in 0 .. N : At(s)' = "sync" /\ SignalsBefore(s)' = h
        <3>1. CASE kind = "sync" /\ h = S
            BY <1>1, <1>4, <3>1
        <3>2. CASE ~(kind = "sync" /\ h = S)
            <4>1. h \in 1 .. S /\ (h < S \/ ~hasSignal)
                BY <1>4, <1>6, <1>7, <2>3, <3>2
            <4>2. PICK s \in 0 .. Num - 1 : At(s) = "sync" /\ SignalsBefore(s) = h
                BY <1>1, <4>1, Zenon DEF Pairs
            <4> QED BY <1>1, <1>4, <4>2
        <3> QED BY <3>1, <3>2
    <2> QED BY <1>3, <1>4, <2>1, <2>2, <2>3 DEF Pairs
<1>14. Counters'
    <2>1. LastGroup' = SignalsBefore(N + 1)' - 1
        BY <1>4, <1>6, <1>7, <1>8 DEF LastGroup
    <2>2. ASSUME NEW g \in 0 .. LastGroup' PROVE Count(g)' = Cardinality(Left(g)')
        <3>1. CASE g = S
            <4>1. kind = "signal"
                BY <1>4, <1>6, <2>1, <2>2, <3>1
            <4>2. Count(g)' = N - lastSignalJob
                BY <1>7, <1>8, <1>6, <3>1, <4>1 DEF Count
            <4>3. Left(g)' = Left(S)'
                BY <3>1
            <4> QED BY <1>6, <4>1, <4>2, <4>3
        <3>2. CASE g # S
            <4>1. g \in 0 .. S - 1
                BY <1>4, <1>6, <2>1, <2>2, <3>2
            <4>2. Count(g)' = Count(g)
                BY <1>7, <1>8, <1>6, <4>1 DEF Count
            <4>3. Count(g) = Cardinality(Left(g)) - 0
                <5>1. g \in 0 .. LastGroup
                    BY <1>8, <4>1 DEF LastGroup
                <5> QED BY <1>3, <5>1 DEF Counters
            <4>4. Cardinality(Left(g)) \in Nat
                BY <1>0, LeftFinite
            <4> QED BY <1>6, <4>1, <4>2, <4>3, <4>4
        <3> QED BY <3>1, <3>2
    <2>3. \A g \in 0 .. LastGroup' : Cardinality(Left(g)') \in Int
        <3>1. \A g : IsFiniteSet(Left(g)')
            <4>1. IsFiniteSet(0 .. Num' - 1)
                BY <1>4, FS_Interval
            <4> QED BY <4>1, FS_Subset DEF Left
        <3> QED BY <3>1, FS_CardinalityType
    <2> QED BY <1>3, <2>2, <2>3 DEF Counters
<1> QED BY <1>3, <1>12, <1>13, <1>14

\* A list with nothing in it.
LEMMA EmptyAccounts ==
    ASSUME Handshake', Num' = 0, lastSignalJob' = 0, ~hasSignal',
           Len(signalJobCount') = 0
    PROVE  Accounts'
<1>1. ~Submitted'
    BY DEF Submitted
<1>2. SignalsBefore(Num)' = 0
    BY SignalsNone DEF SignalsBefore
<1>3. LastGroup' = -1
    BY DEF LastGroup
<1>4. ListShape'
    BY <1>1, <1>2 DEF ListShape
<1>5. Pairs'
    BY <1>2 DEF Pairs
<1>6. Counters'
    BY <1>1, <1>3 DEF Counters
<1> QED BY <1>1, <1>4, <1>5, <1>6, OutOfUse DEF Accounts

\* Submitting and waiting for a list with nothing in it, and clearing one.
LEMMA EmptySteps ==
    ASSUME Accounts, Handshake', SubmitEmpty \/ WaitEmpty \/ WaitClear
    PROVE  Accounts'
<1>1. CASE SubmitEmpty \/ WaitEmpty
    <2>1. /\ Num = 0 /\ Num' = 0 /\ hasSignal' = hasSignal
          /\ lastSignalJob' = lastSignalJob /\ signalJobCount' = signalJobCount
        BY <1>1 DEF SubmitEmpty, WaitEmpty, Num
    <2>2. SignalsBefore(Num) = 0 /\ ~Submitted
        BY <2>1, SignalsNone DEF SignalsBefore, Submitted
    <2>3. lastSignalJob = 0
        BY <2>1 DEF Accounts, Handshake, TypeOK, OwnerTypeOK, ListShape
    <2>4. ~hasSignal
        BY <2>2 DEF Accounts, Pairs
    <2>5. Len(signalJobCount) = 0
        BY <2>2 DEF Accounts, ListShape
    <2> QED BY <2>1, <2>3, <2>4, <2>5, EmptyAccounts
<1>2. CASE WaitClear
    <2>1. /\ Num' = 0 /\ lastSignalJob' = 0 /\ Len(signalJobCount') = 0
          /\ mpc # "build" /\ hasSignal' = hasSignal
        BY <1>2 DEF WaitClear, Num
    <2>2. ~hasSignal
        BY <2>1, Zenon DEF Accounts, Pairs
    <2> QED BY <2>1, <2>2, EmptyAccounts
<1> QED BY <1>1, <1>2

\* The list is handed to the threads: every counter stands for its group, and
\* nobody has read anything yet.
LEMMA SubmitAccounts ==
    ASSUME PairedSyncs, Accounts, Handshake',
           NEW n \in 0 .. NumThreads, Submit(n)
    PROVE  Accounts'
<1> USE DEF Accounts
<1>0. TypeOK /\ TypeOK'
    BY DEF Handshake
<1>1. PICK N, S : N = Num /\ S = SignalsBefore(N)
    OBVIOUS
<1>2. /\ mpc = "build" /\ ~Submitted /\ ~hasSignal /\ Num > 0
      /\ hasSignal' = hasSignal /\ lastSignalJob' = lastSignalJob
      /\ signalJobCount' = Append(signalJobCount, N - lastSignalJob)
      /\ currentJob' = 0 /\ version' = version
      /\ pc' = pc /\ st' = st
      /\ Push("done") /\ "done" \in Kinds
      /\ mpc' \in {"inline", "handover"}
    BY <1>1 DEF Submit, GroupSize, Submitted, Kinds
<1>3. /\ N \in Nat /\ Num' = N + 1 /\ At(N)' = "done"
      /\ status'[N + 1] = "todo"
      /\ \A i \in 1 .. N : status'[i] = status[i]
      /\ \A i \in 0 .. N - 1 : At(i)' = At(i) /\ Group(i)' = Group(i)
      /\ \A k \in 0 .. N : SignalsBefore(k)' = SignalsBefore(k)
      /\ SignalsBefore(N + 1)' = S
      /\ SignalsBefore(Num)' = S
    <2>1. SignalsBefore(N) \in Nat
        BY <1>0, <1>1, SignalsHere
    <2> QED BY <1>0, <1>1, <1>2, <2>1, PushGroups
<1>4. Submitted' /\ Round' = version
    BY <1>2, <1>3 DEF Submitted, Round
<1>5. \A i \in 0 .. N : Uncounted(i)'
    BY <1>2, <1>3 DEF Uncounted
<1>6. /\ S \in Nat
      /\ \A g \in 0 .. S - 1 : Left(g)' = Left(g)
      /\ Cardinality(Left(S)') = N - lastSignalJob
    BY <1>0, <1>1, <1>2, <1>5, PushLeft
<1>7. /\ lastSignalJob \in Nat /\ lastSignalJob <= N
      /\ Len(signalJobCount) = S
      /\ \A i \in 0 .. N - 1 : Group(i) = S <=> i >= lastSignalJob
      /\ \A i \in 0 .. N - 1 : At(i) # "done"
      /\ \A i \in 1 .. N : status[i] = "todo"
    <2>1. lastSignalJob \in Nat /\ lastSignalJob <= N
        BY <1>0, <1>1 DEF TypeOK, OwnerTypeOK, ListShape
    <2>2. Len(signalJobCount) = S + 0
        BY <1>1, <1>2 DEF ListShape
    <2>3. \A i \in 0 .. N - 1 : Group(i) = S <=> i >= lastSignalJob
        BY <1>1 DEF ListShape
    <2>4. \A i \in 0 .. N - 1 : At(i) # "done"
        BY <1>1, <1>2, Zenon DEF ListShape
    <2>5. \A i \in 1 .. N : status[i] = "todo"
        BY <1>1, <1>2, Zenon DEF ListShape
    <2> QED BY <1>6, <2>1, <2>2, <2>3, <2>4, <2>5
<1>8. /\ Len(signalJobCount') = S + 1
      /\ signalJobCount'[S + 1] = N - lastSignalJob
      /\ \A g \in 0 .. S - 1 : signalJobCount'[g + 1] = signalJobCount[g + 1]
    <2>1. signalJobCount \in Seq(Int) /\ N - lastSignalJob \in Int
        BY <1>0, <1>3, <1>7 DEF TypeOK, CounterTypeOK
    <2> DEFINE longer == Append(signalJobCount, N - lastSignalJob)
    <2>2. /\ Len(longer) = Len(signalJobCount) + 1
          /\ longer[Len(signalJobCount) + 1] = N - lastSignalJob
          /\ \A g \in 0 .. Len(signalJobCount) - 1 :
                 longer[g + 1] = signalJobCount[g + 1]
        BY <2>1, AppendParts, ZenonT(30)
    <2> HIDE DEF longer
    <2>3. signalJobCount' = longer
        BY <1>2 DEF longer
    <2> QED BY <1>7, <2>2, <2>3
<1>9. \A w \in Executors : /\ pc'[w] \notin Inside
                           /\ pc'[w] \notin Choosing \cup Working
                           /\ pc'[w] \notin {"skipCount", "guard"}
    <2>1. \A w \in Executors : pc[w] \notin Inside
        BY <1>2, Zenon DEF Handshake, InsideCurrent
    <2> QED BY <1>2, <2>1 DEF Inside, Labels, Choosing, Working
<1>10. \A i \in 1 .. N + 1 : status'[i] = "todo"
    BY <1>3, <1>7
<1>11. ListShape'
    <2>1. \A i \in 0 .. Num' - 1 : At(i)' = "done" <=> Submitted' /\ i = Num' - 1
        BY <1>3, <1>4, <1>7
    <2>2. \A i \in 0 .. Num' - 1 : Group(i)' = S <=> i >= lastSignalJob'
        <3>1. Group(N)' = S
            BY <1>3 DEF Group
        <3> QED BY <1>2, <1>3, <1>7, <3>1
    <2>3. lastSignalJob' <= Num'
        BY <1>2, <1>3, <1>7
    <2> QED BY <1>3, <1>4, <1>8, <2>1, <2>2, <2>3 DEF ListShape
<1>12. Pairs'
    <2>1. \A s \in 0 .. N - 1 : At(s)' = "sync" => SignalsBefore(s)' >= 1
        <3>1. \A s \in 0 .. N - 1 : At(s) = "sync" => SignalsBefore(s) >= 1
            BY <1>1 DEF Pairs
        <3>2. \A s \in 0 .. N - 1 : SignalsBefore(s)' = SignalsBefore(s)
            BY <1>3
        <3> QED BY <1>3, <3>1, <3>2
    <2>2. \A s \in 0 .. Num' - 1 : At(s)' = "sync" => SignalsBefore(s)' >= 1
        BY <1>3, <2>1
    <2>3. ASSUME NEW h \in 1 .. S
          PROVE  \E s \in 0 .. Num' - 1 : At(s)' = "sync" /\ SignalsBefore(s)' = h
        <3>1. PICK s \in 0 .. Num - 1 : At(s) = "sync" /\ SignalsBefore(s) = h
            BY <1>1, <1>2, Zenon DEF Pairs
        <3>2. s \in 0 .. N /\ s \in 0 .. N - 1 /\ s \in 0 .. Num' - 1
            BY <1>1, <1>3
        <3> QED BY <1>3, <3>1, <3>2
    <2> QED BY <1>2, <1>3, <2>2, <2>3 DEF Pairs
<1>13. Fetches'
    BY <1>2, <1>9 DEF Fetches
<1>14. Statuses'
    <2> SUFFICES ASSUME NEW i \in 0 .. Num' - 1
                 PROVE  /\ status'[i + 1] = "todo"
                        /\ Uncounted(i)'
                        /\ \A w \in Executors : ~Owns(w, i)'
        BY DEF Statuses
    <2>1. i \in 0 .. N /\ i + 1 \in 1 .. N + 1
        BY <1>3
    <2> QED BY <1>5, <1>9, <1>10, <2>1 DEF Owns
<1>15. Scans'
    <2> SUFFICES ASSUME NEW u \in Executors, NEW e \in held'[u] \cup {st'[u]},
                        Live(e)'
                 PROVE  Reading(e)'
        BY DEF Scans
    <2>1. CASE e \in held[u] \cup {st[u]}
        <3>1. e.version < version
            BY <1>2, <2>1 DEF Handshake, Versions, Withdrawn
        <3>2. e.version = version
            BY <1>4 DEF Live
        <3>3. version \in Int
            BY <1>0 DEF TypeOK, CounterTypeOK
        <3> QED BY <3>1, <3>2, <3>3
    <2>2. CASE e = NewState(version)
        <3>1. e.lastJobIndex = 0 /\ e.signalIndex = 0
            BY <2>2 DEF NewState
        <3>2. currentJob' >= 0
            BY <1>2
        <3> QED BY <1>0, <1>4, <3>1, <3>2, FreshReading
    <2> QED
        <3>1. held'[u] \in {held[u], {NewState(version)}, {}}
            BY <1>0 DEF Submit, TypeOK, ThreadTypeOK
        <3> QED BY <1>2, <2>1, <2>2, <3>1
<1>16. Markers'
    BY <1>9 DEF Markers
<1>17. Counters'
    <2>1. LastGroup' = S /\ Uncounted(Num - 1)'
        <3>1. PICK k : k = Num' - 1
            OBVIOUS
        <3>2. Uncounted(k)'
            BY <1>3, <1>5, <3>1
        <3>3. Uncounted(Num - 1)'
            BY <3>1, <3>2 DEF Uncounted, Owns
        <3> QED BY <1>6, <1>8, <3>3 DEF LastGroup
    <2>2. ASSUME NEW g \in 0 .. S
          PROVE  Count(g)' = Cardinality(Left(g)') /\ Count(g)' \in Int
        <3>1. CASE g = S
            <4>1. Left(g)' = Left(S)'
                BY <3>1
            <4> QED BY <1>3, <1>6, <1>7, <1>8, <3>1, <4>1 DEF Count
        <3>2. CASE g # S
            <4>1. g \in 0 .. S - 1
                BY <1>6, <3>2
            <4>2. g \in 0 .. LastGroup
                BY <1>6, <1>7, <4>1 DEF LastGroup
            <4>3. Count(g)' = Count(g)
                BY <1>8, <4>1 DEF Count
            <4>4. Count(g) = Cardinality(Left(g)) - 0
                BY <1>2, <4>2 DEF Counters
            <4>5. Cardinality(Left(g)) \in Nat
                BY <1>0, LeftFinite
            <4> QED BY <1>6, <4>1, <4>3, <4>4, <4>5
        <3> QED BY <3>1, <3>2
    <2> QED BY <2>1, <2>2 DEF Counters
<1>18. Gates'
    <2>1. doneGuards'[currentDoneGuard'] = 1
        <3>1. currentDoneGuard' \in DoneGuards /\ doneGuards \in [DoneGuards -> Int]
            BY <1>0 DEF TypeOK, OwnerTypeOK, CounterTypeOK
        <3> QED BY <3>1 DEF Submit
    <2>2. \A i \in 0 .. Num' - 1 : status'[i + 1] = "todo"
        BY <1>3, <1>10
    <2> QED BY <1>2, <2>1, <2>2 DEF Gates
<1> QED BY <1>11, <1>12, <1>13, <1>14, <1>15, <1>16, <1>17, <1>18

\* The owner's steps that leave the list as it is.
LEMMA FrameAccounts ==
    ASSUME Accounts, Handshake',
           HandOver \/ SubmitReturns \/ WaitForCount \/ WaitIncrementVersion
    PROVE  Accounts'
<1> USE DEF Accounts
<1>0. TypeOK /\ TypeOK'
    BY DEF Handshake
<1>1. /\ Submitted /\ Submitted' /\ Round' = Round
      /\ mpc # "build" /\ mpc' # "build"
    <2>1. mpc # "build" /\ mpc' # "build" /\ jobList' = jobList
        BY DEF HandOver, SubmitReturns, WaitForCount, WaitIncrementVersion
    <2>2. Num > 0
        BY DEF HandOver, SubmitReturns, WaitForCount, WaitIncrementVersion,
               Handshake, Phases
    <2>3. version \in Nat
        BY <1>0 DEF TypeOK, CounterTypeOK
    <2>4. Round' = Round
        <3>1. CASE WaitIncrementVersion
            BY <2>3, <3>1 DEF WaitIncrementVersion, Round
        <3>2. CASE HandOver \/ SubmitReturns \/ WaitForCount
            BY <3>2 DEF HandOver, SubmitReturns, WaitForCount, Round
        <3> QED BY <3>1, <3>2
    <2> QED BY <2>1, <2>2, <2>4 DEF Submitted, Num
<1>2. /\ jobList' = jobList /\ status' = status /\ pc' = pc /\ st' = st
      /\ signalJobCount' = signalJobCount /\ currentJob' = currentJob
      /\ doneGuards' = doneGuards /\ currentDoneGuard' = currentDoneGuard
      /\ hasSignal' = hasSignal /\ lastSignalJob' = lastSignalJob
    BY DEF HandOver, SubmitReturns, WaitForCount, WaitIncrementVersion,
           threadVars
<1>3. /\ Num' = Num /\ LastGroup' = LastGroup
      /\ \A i : At(i)' = At(i) /\ Count(i)' = Count(i)
      /\ \A i : SignalsBefore(i)' = SignalsBefore(i)
    BY <1>2 DEF Num, LastGroup, At, Count, SignalsBefore
<1>4. \A i : Group(i)' = Group(i) /\ (Uncounted(i)' <=> Uncounted(i))
    BY <1>1, <1>2, <1>3 DEF Group, Uncounted, Owns
<1>5. \A g : Left(g)' = Left(g)
    BY <1>3, <1>4 DEF Left
<1>6. \A i : /\ (Passed(i)' <=> Passed(i))
             /\ (Reached(i)' <=> Reached(i))
    <2>1. \A i : Count(SignalsBefore(i) - 1)' = Count(SignalsBefore(i) - 1)
        BY <1>2 DEF Count, SignalsBefore
    <2> QED BY <1>2, <1>3, <2>1 DEF Passed, Reached
<1>7. Count(LastGroup)' = Count(LastGroup) /\ SignalsBefore(Num)' = SignalsBefore(Num)
      /\ (Uncounted(Num - 1)' <=> Uncounted(Num - 1))
      /\ Left(LastGroup)' = Left(LastGroup)
    BY <1>1, <1>2, <1>3 DEF Count, LastGroup, SignalsBefore, Uncounted, Owns,
                            Left, Group, Num, At
<1>8. ListShape'
    BY <1>1, <1>2, <1>3, <1>4, <1>7 DEF ListShape
<1>9. Pairs'
    BY <1>1, <1>2, <1>3, <1>7 DEF Pairs
<1>10. Fetches'
    BY <1>1, <1>2, <1>3 DEF Fetches
<1>11. Statuses'
    BY <1>1, <1>2, <1>3, <1>4 DEF Statuses, Owns
<1>12. Scans'
    <2> SUFFICES ASSUME NEW u \in Executors, NEW e \in held'[u] \cup {st'[u]},
                        Live(e)'
                 PROVE  Reading(e)'
        BY DEF Scans
    <2>1. CASE e \in held[u] \cup {st[u]}
        <3>1. Reading(e)
            BY <1>1, <2>1 DEF Scans, Live
        <3>2. SignalsBefore(e.lastJobIndex)' = SignalsBefore(e.lastJobIndex)
            BY <1>3
        <3> QED BY <1>3, <1>6, <1>7, <3>1, <3>2 DEF Reading
    <2>2. CASE e = NewState(version)
        <3>1. e.lastJobIndex = 0 /\ e.signalIndex = 0
            BY <2>2 DEF NewState
        <3>2. currentJob' >= 0
            BY <1>1, <1>2, Zenon DEF Fetches
        <3> QED BY <1>0, <1>1, <3>1, <3>2, FreshReading
    <2> QED
        <3>1. held'[u] \in {held[u], held[u] \cup {NewState(version)}}
            BY <1>0
               DEF HandOver, SubmitReturns, WaitForCount, WaitIncrementVersion,
                   threadVars, TypeOK, ThreadTypeOK
        <3> QED BY <1>2, <2>1, <2>2, <3>1
<1>13. Markers'
    BY <1>2, <1>3, <1>6, <1>7 DEF Markers, Entry, At
<1>14. Counters'
    <2>1. \A g \in 0 .. LastGroup' : Count(g)' = Count(g)
        BY <1>3
    <2> QED BY <1>1, <1>3, <1>4, <1>5, <1>7, <2>1 DEF Counters
<1>15. Gates'
    <2>1. mpc' \in {"counted", "drain"} => Count(LastGroup) <= 0
        BY DEF HandOver, SubmitReturns, WaitForCount, WaitIncrementVersion, Gates
    <2> QED BY <1>1, <1>2, <1>3, <1>6, <1>7, <2>1 DEF Gates
<1> QED BY <1>8, <1>9, <1>10, <1>11, <1>12, <1>13, <1>14, <1>15

\* Nothing changes.
LEMMA StutterAccounts ==
    ASSUME Accounts, UNCHANGED vars
    PROVE  Accounts'
<1> USE DEF vars, ownerVars, threadVars
<1>1. Handshake'
    BY StepHandshake DEF Accounts
<1>2. /\ Num' = Num /\ LastGroup' = LastGroup /\ (Submitted' <=> Submitted)
      /\ \A i : At(i)' = At(i) /\ Count(i)' = Count(i)
      /\ \A i : SignalsBefore(i)' = SignalsBefore(i)
    BY DEF Num, LastGroup, Submitted, At, Count, SignalsBefore
<1>3. \A i : Group(i)' = Group(i) /\ (Uncounted(i)' <=> Uncounted(i))
    BY <1>2 DEF Group, Uncounted, Owns
<1>4. \A g : Left(g)' = Left(g)
    BY <1>2, <1>3 DEF Left
<1>5. /\ Count(LastGroup)' = Count(LastGroup)
      /\ SignalsBefore(Num)' = SignalsBefore(Num)
      /\ (Uncounted(Num - 1)' <=> Uncounted(Num - 1))
      /\ Left(LastGroup)' = Left(LastGroup)
    BY DEF Count, LastGroup, SignalsBefore, Uncounted, Owns, Left, Group,
           Num, At
<1>6. \A i : Passed(i)' <=> Passed(i)
    <2>1. \A i : Count(SignalsBefore(i) - 1)' = Count(SignalsBefore(i) - 1)
        BY DEF Count, SignalsBefore
    <2> QED BY <1>2, <2>1 DEF Passed
<1>7. ListShape' /\ Pairs'
    BY <1>2, <1>3, <1>5 DEF Accounts, ListShape, Pairs
<1>8. Fetches' /\ Statuses'
    BY <1>2, <1>3 DEF Accounts, Fetches, Statuses, Round, Owns
<1>9. Scans' /\ Markers'
    BY DEF Accounts, Scans, Live, Round, Reading, Reached, Markers, Entry,
           Submitted, Num, At, Count, LastGroup, SignalsBefore, Passed
<1>10. Counters'
    <2>1. \A g \in 0 .. LastGroup' : Count(g)' = Count(g)
        BY <1>2
    <2> QED BY <1>2, <1>3, <1>4, <1>5, <2>1 DEF Accounts, Counters
<1>11. Gates'
    BY <1>2, <1>5, <1>6 DEF Accounts, Gates
<1> QED BY <1>1, <1>7, <1>8, <1>9, <1>10, <1>11 DEF Accounts

LEMMA InitAccounts == Init => Accounts
<1> SUFFICES ASSUME Init PROVE Accounts
    OBVIOUS
<1>1. Handshake
    BY InitHandshake
<1>2. /\ Num = 0 /\ mpc = "build" /\ ~Submitted /\ LastGroup = -1
      /\ lastSignalJob = 0 /\ ~hasSignal /\ Len(signalJobCount) = 0
    BY DEF Init, Num, Submitted, LastGroup
<1>3. SignalsBefore(Num) = 0
    BY <1>2, SignalsNone DEF SignalsBefore
<1>4. ListShape /\ Pairs
    BY <1>2, <1>3 DEF ListShape, Pairs
<1>5. Counters /\ Gates /\ Statuses
    BY <1>2 DEF Counters, Gates, Statuses
<1>6. \A w \in Executors : pc[w] = "idle"
    BY DEF Init
<1>7. Fetches /\ Scans /\ Markers
    BY <1>2, <1>6
       DEF Fetches, Scans, Markers, Live, Inside, Choosing, Working
<1> QED BY <1>1, <1>4, <1>5, <1>7 DEF Accounts

\* Every step keeps the accounts, of paired lists.
LEMMA StepAccounts ==
    ASSUME PairedSyncs, Accounts, [Next]_vars
    PROVE  Accounts'
<1>1. Handshake'
    BY StepHandshake DEF Accounts
<1>2. CASE AddJob \/ InsertSignal \/ InsertSync
    <2>1. ListShape' /\ Pairs' /\ Counters' /\ ~Submitted'
        BY <1>2, BuildShape DEF Accounts
    <2> QED BY <1>1, <2>1, OutOfUse DEF Accounts
<1>3. CASE UNCHANGED vars
    BY <1>3, StutterAccounts
<1>4. CASE DropJob \/ Finished
    <2>1. UNCHANGED vars
        BY <1>4 DEF DropJob, Finished, vars, ownerVars
    <2> QED BY <2>1, StutterAccounts
<1>5. CASE SubmitEmpty \/ WaitEmpty \/ WaitClear
    BY <1>1, <1>5, EmptySteps
<1>6. CASE \E n \in 0 .. NumThreads : Submit(n)
    BY <1>1, <1>6, SubmitAccounts
<1>7. CASE HandOver \/ SubmitReturns \/ WaitForCount \/ WaitIncrementVersion
    BY <1>1, <1>7, FrameAccounts
<1>8. CASE \E w \in Executors : Executor(w)
    BY <1>8, ExecutorAccounts
<1> QED BY <1>2, <1>3, <1>4, <1>5, <1>6, <1>7, <1>8 DEF Next, Owner

-----------------------------------------------------------------------------
(* What the accounts are good for.                                           *)

LEMMA AccountsHold ==
    ASSUME PairedSyncs PROVE Spec => []Accounts
<1>1. Accounts /\ [Next]_vars => Accounts'
    BY StepAccounts
<1> QED BY InitAccounts, <1>1, PTL DEF Spec

\* When the done guard of a submission is down (ParallelJobList.cpp, 610), every
\* entry its owner added is executed, and a list chained behind it may start.
THEOREM GuardTrue ==
    ASSUME PairedSyncs PROVE Spec => []GuardMeansExecuted
<1>1. Accounts => GuardMeansExecuted
    <2> SUFFICES ASSUME Accounts, ~done, Num > 0,
                        doneGuards[currentDoneGuard] <= 0,
                        NEW i \in 1 .. Num - 1
                 PROVE  status[i] = "executed"
        BY DEF GuardMeansExecuted
    <2> USE DEF Accounts
    <2>1. TypeOK /\ Submitted
        BY DEF Handshake, Phases, Submitted
    <2>2. Count(LastGroup) <= 0
        BY <2>1 DEF Gates
    <2>3. i - 1 \in 0 .. Num - 2 /\ (i - 1) + 1 = i
        BY <2>1, SignalsHere
    <2>4. status[(i - 1) + 1] = "executed"
        BY <2>1, <2>2, <2>3, AllExecuted
    <2> QED BY <2>3, <2>4
<1> QED BY <1>1, AccountsHold, PTL

\* The refinement: what the owner sees of the list.
OwnerItems == SubSeq(jobList, 1, OwnerLength)
OwnerStatus == SubSeq(status, 1, OwnerLength)

LEMMA WholeSeq ==
    ASSUME NEW S, NEW s \in Seq(S) PROVE SubSeq(s, 1, Len(s)) = s
OBVIOUS

LEMMA FrontSeq ==
    ASSUME NEW S, NEW s \in Seq(S), NEW e \in S
    PROVE  SubSeq(Append(s, e), 1, Len(s)) = s
OBVIOUS

LEMMA PrefixSeq ==
    ASSUME NEW S, NEW s \in Seq(S), NEW n \in 0 .. Len(s)
    PROVE  /\ SubSeq(s, 1, n) \in Seq(S) /\ Len(SubSeq(s, 1, n)) = n
           /\ DOMAIN SubSeq(s, 1, n) = 1 .. n
           /\ \A i \in 1 .. n : SubSeq(s, 1, n)[i] = s[i]
OBVIOUS

\* An assignment to an element shows in a prefix only if the element does.
LEMMA PrefixExcept ==
    ASSUME NEW S, NEW s \in Seq(S), NEW n \in 0 .. Len(s), NEW e \in S,
           NEW k \in 1 .. Len(s)
    PROVE  SubSeq([s EXCEPT ![k] = e], 1, n) =
               IF k <= n THEN [SubSeq(s, 1, n) EXCEPT ![k] = e]
               ELSE SubSeq(s, 1, n)
<1> DEFINE t == [s EXCEPT ![k] = e]
<1>1. t \in Seq(S) /\ Len(t) = Len(s)
    OBVIOUS
<1>2. \A r \in Seq(S) : n \in 0 .. Len(r) =>
          SubSeq(r, 1, n) = [i \in 1 .. n |-> r[i]]
    OBVIOUS
<1>3. SubSeq(t, 1, n) = [i \in 1 .. n |-> t[i]]
    BY <1>1, <1>2
<1>4. SubSeq(s, 1, n) = [i \in 1 .. n |-> s[i]]
    BY <1>2
<1>5. \A i \in 1 .. n : t[i] = IF i = k THEN e ELSE s[i]
    OBVIOUS
<1> HIDE DEF t
<1>6. CASE k <= n
    <2>1. [i \in 1 .. n |-> t[i]] = [[i \in 1 .. n |-> s[i]] EXCEPT ![k] = e]
        BY <1>5, <1>6
    <2> QED BY <1>3, <1>4, <1>6, <2>1 DEF t
<1>7. CASE ~(k <= n)
    <2>1. [i \in 1 .. n |-> t[i]] = [i \in 1 .. n |-> s[i]]
        BY <1>5, <1>7
    <2> QED BY <1>3, <1>4, <1>7, <2>1 DEF t
<1> QED BY <1>6, <1>7

\* DONE is behind what the owner sees of a submitted list, and nothing before.
LEMMA OwnerView ==
    ASSUME Accounts
    PROVE  /\ ~Submitted => /\ OwnerLength = Num
                            /\ OwnerItems = jobList /\ OwnerStatus = status
           /\ Submitted => OwnerLength = Num - 1
<1>1. /\ jobList \in Seq(Kinds) /\ Num = Len(jobList) /\ Num \in Nat
      /\ status \in Seq({"todo", "running", "executed"}) /\ Len(status) = Num
    BY DEF Accounts, Handshake, TypeOK, ListTypeOK, Num
<1>2. \A i \in 0 .. Num - 1 : At(i) = "done" <=> Submitted /\ i = Num - 1
    BY DEF Accounts, ListShape
<1>3. Num > 0 => (jobList[Num] = "done" <=> Submitted)
    <2> SUFFICES ASSUME Num > 0 PROVE jobList[Num] = "done" <=> Submitted
        OBVIOUS
    <2>1. Num - 1 \in 0 .. Num - 1 /\ (Num - 1) + 1 = Num
        BY <1>1
    <2>2. At(Num - 1) = "done" <=> Submitted
        BY <1>2, <2>1
    <2> QED BY <2>1, <2>2 DEF At
<1>4. ~Submitted => OwnerLength = Num
    BY <1>1, <1>3 DEF OwnerLength
<1>5. Submitted => OwnerLength = Num - 1
    BY <1>1, <1>3 DEF OwnerLength, Submitted
<1>6. SubSeq(jobList, 1, Num) = jobList /\ SubSeq(status, 1, Num) = status
    BY <1>1, WholeSeq
<1> QED BY <1>4, <1>5, <1>6 DEF OwnerItems, OwnerStatus

\* Whoever has passed every sync point up to an entry may start it.
LEMMA StartReleased ==
    ASSUME Accounts, Submitted, NEW n \in 0 .. Num - 2, Passed(n + 1)
    PROVE  Promise!Released(n + 1)
<1> USE DEF Accounts
<1>0. TypeOK /\ Num \in Nat
    BY SignalsHere DEF Handshake
<1>1. /\ DOMAIN OwnerItems = 1 .. Num - 1
      /\ \A i \in 1 .. Num - 1 : /\ OwnerItems[i] = jobList[i]
                                 /\ OwnerStatus[i] = status[i]
    <2>1. OwnerLength = Num - 1
        BY OwnerView
    <2>2. /\ jobList \in Seq(Kinds) /\ Num = Len(jobList)
          /\ status \in Seq({"todo", "running", "executed"}) /\ Len(status) = Num
          /\ Num - 1 \in 0 .. Num
        BY <1>0 DEF TypeOK, ListTypeOK, Num, Submitted
    <2>3. /\ DOMAIN SubSeq(jobList, 1, Num - 1) = 1 .. Num - 1
          /\ \A i \in 1 .. Num - 1 : SubSeq(jobList, 1, Num - 1)[i] = jobList[i]
        BY <2>2, PrefixSeq
    <2>4. \A i \in 1 .. Num - 1 : SubSeq(status, 1, Num - 1)[i] = status[i]
        BY <2>2, PrefixSeq
    <2> QED BY <2>1, <2>3, <2>4 DEF OwnerItems, OwnerStatus
<1>2. SUFFICES ASSUME NEW j \in 1 .. Num - 1, NEW k \in 1 .. Num - 1,
                      NEW s \in 1 .. Num - 1, j < k, k < s, s <= n + 1,
                      jobList[k] = "signal", jobList[s] = "sync"
               PROVE  status[j] = "executed"
    BY <1>1 DEF Promise!Released, OwnerItems, OwnerStatus
<1>3. /\ j - 1 \in 0 .. Num - 1 /\ (j - 1) + 1 = j /\ j \in 0 .. k - 1
      /\ k - 1 \in Nat /\ (k - 1) + 1 = k /\ k - 1 \in 0 .. k
      /\ s - 1 \in 0 .. Num - 1 /\ (s - 1) + 1 = s /\ s - 1 \in Nat
      /\ k \in 0 .. s - 1 /\ s - 1 \in 0 .. n /\ j - 1 # Num - 1
      /\ s \in 0 .. n + 1
    BY <1>0, <1>2
<1>4. At(k - 1) = "signal" /\ At(s - 1) = "sync"
    BY <1>2, <1>3 DEF At
<1>5. Passed(s)
    BY <1>0, <1>3 DEF Passed
<1>6. Group(j - 1) \in 0 .. SignalsBefore(s - 1) - 1
    <2>1. Group(j - 1) = SignalsBefore(j)
        BY <1>3 DEF Group
    <2>2. /\ SignalsBefore(j) \in Nat /\ SignalsBefore(k) \in Nat
          /\ SignalsBefore(k - 1) \in Nat /\ SignalsBefore(s - 1) \in Nat
          /\ SignalsBefore(j) <= SignalsBefore(k - 1)
          /\ SignalsBefore(k) <= SignalsBefore(s - 1)
        BY <1>0, <1>3, SignalsHere
    <2>3. SignalsBefore(k) = SignalsBefore(k - 1) + 1
        <3>1. Group(k - 1) = SignalsBefore(k - 1) + 1
            BY <1>0, <1>3, <1>4, SignalsHere
        <3> QED BY <1>3, <3>1 DEF Group
    <2> QED BY <2>1, <2>2, <2>3
<1>7. Count(Group(j - 1)) <= 0
    BY <1>0, <1>3, <1>4, <1>5, <1>6, BehindSync
<1>8. At(j - 1) # "done"
    BY <1>3 DEF ListShape
<1>9. status[(j - 1) + 1] = "executed"
    BY <1>0, <1>3, <1>7, <1>8, GroupExecuted
<1> QED BY <1>3, <1>9

\* A job that starts or ends is the owner's entry, or the DONE behind them.
LEMMA RunsEntry ==
    ASSUME Accounts, NEW w \in Executors, StartJob(w) \/ FinishJob(w)
    PROVE  Promise!Next \/ UNCHANGED Promise!vars
<1> USE DEF Accounts
<1>0. TypeOK /\ pc[w] \in {"run", "running"}
    BY DEF Handshake, StartJob, FinishJob
<1>1. Submitted /\ Num \in Nat /\ ~done
    BY <1>0, SignalsHere, InsideSubmitted
       DEF Inside, Labels, Handshake, Phases, Submitted
<1>2. PICK n : n = st[w].nextJobIndex
    OBVIOUS
<1>3. /\ n \in 0 .. Num - 1 /\ st[w].lastJobIndex = n + 1
      /\ st[w] \in States /\ Owns(w, n)
    BY <1>0, <1>1, <1>2 DEF Fetches, Working, Owns, TypeOK, ThreadTypeOK,
                            CounterTypeOK, States
<1>4. status[n + 1] = IF pc[w] = "running" THEN "running" ELSE "todo"
    BY <1>0, <1>1, <1>3 DEF Statuses
<1>5. Passed(n + 1)
    <2>1. Reading(st[w])
        BY <1>0, InsideSubmitted DEF Scans, Inside, Labels
    <2> QED BY <1>3, <2>1 DEF Reading
<1>6. /\ OwnerLength = Num - 1 /\ OwnerLength' = OwnerLength
      /\ OwnerItems' = OwnerItems /\ done' = done
    BY <1>1, OwnerView DEF StartJob, FinishJob, ownerVars, OwnerLength, OwnerItems, Num
<1>7. PICK e \in {"running", "executed"} :
          /\ status' = [status EXCEPT ![n + 1] = e]
          /\ pc[w] = "run" => e = "running"
          /\ pc[w] = "running" => e = "executed"
    BY <1>2 DEF StartJob, FinishJob
<1>8. OwnerStatus' = IF n + 1 <= Num - 1
                     THEN [OwnerStatus EXCEPT ![n + 1] = e] ELSE OwnerStatus
    <2>1. /\ status \in Seq({"todo", "running", "executed"})
          /\ Num - 1 \in 0 .. Len(status) /\ n + 1 \in 1 .. Len(status)
          /\ e \in {"todo", "running", "executed"}
        BY <1>0, <1>1, <1>3 DEF TypeOK, ListTypeOK, Num, Submitted
    <2>2. SubSeq([status EXCEPT ![n + 1] = e], 1, Num - 1) =
               IF n + 1 <= Num - 1
               THEN [SubSeq(status, 1, Num - 1) EXCEPT ![n + 1] = e]
               ELSE SubSeq(status, 1, Num - 1)
        BY <2>1, PrefixExcept
    <2> QED BY <1>6, <1>7, <2>2 DEF OwnerStatus
<1>9. CASE n + 1 <= Num - 1
    <2>1. /\ n + 1 \in DOMAIN OwnerItems /\ OwnerStatus[n + 1] = status[n + 1]
        <3>1. /\ jobList \in Seq(Kinds) /\ Num = Len(jobList)
              /\ status \in Seq({"todo", "running", "executed"})
              /\ Len(status) = Num
              /\ Num - 1 \in 0 .. Num /\ n + 1 \in 1 .. Num - 1
            BY <1>0, <1>1, <1>3, <1>9 DEF TypeOK, ListTypeOK, Num, Submitted
        <3>2. DOMAIN SubSeq(jobList, 1, Num - 1) = 1 .. Num - 1
            BY <3>1, PrefixSeq
        <3>3. SubSeq(status, 1, Num - 1)[n + 1] = status[n + 1]
            BY <3>1, PrefixSeq
        <3> QED BY <1>6, <3>1, <3>2, <3>3 DEF OwnerItems, OwnerStatus
    <2>2. CASE pc[w] = "run"
        <3>1. n \in 0 .. Num - 2
            BY <1>1, <1>3, <1>9
        <3>2. Promise!Released(n + 1)
            BY <1>1, <1>5, <3>1, StartReleased
        <3>3. OwnerStatus' = [OwnerStatus EXCEPT ![n + 1] = "running"]
            BY <1>7, <1>8, <1>9, <2>2
        <3>4. Promise!Start(n + 1)
            BY <1>1, <1>4, <1>6, <2>1, <2>2, <3>2, <3>3
               DEF Promise!Start, OwnerItems, OwnerStatus
        <3> QED BY <2>1, <3>4 DEF Promise!Next, OwnerItems
    <2>3. CASE pc[w] = "running"
        <3>1. OwnerStatus' = [OwnerStatus EXCEPT ![n + 1] = "executed"]
            BY <1>7, <1>8, <1>9, <2>3
        <3>2. Promise!Finish(n + 1)
            BY <1>1, <1>4, <1>6, <2>1, <2>3, <3>1
               DEF Promise!Finish, OwnerItems, OwnerStatus
        <3> QED BY <2>1, <3>2 DEF Promise!Next, OwnerItems
    <2> QED BY <1>0, <2>2, <2>3
<1>10. CASE ~(n + 1 <= Num - 1)
    BY <1>6, <1>8, <1>10 DEF Promise!vars, OwnerItems, OwnerStatus
<1> QED BY <1>9, <1>10

\* An entry that is added, a list that is submitted.
LEMMA OwnerAdds ==
    ASSUME Accounts, NEW kind \in Kinds, Push(kind), ~Submitted, done,
           (kind # "done" /\ done' = done) \/ (kind = "done" /\ ~done' /\ done' \in BOOLEAN)
    PROVE  Promise!Next
<1> USE DEF Accounts
<1>0. /\ TypeOK /\ jobList \in Seq(Kinds) /\ Num = Len(jobList) /\ Num \in Nat
      /\ status \in Seq({"todo", "running", "executed"}) /\ Len(status) = Num
      /\ "todo" \in {"todo", "running", "executed"}
    BY DEF Handshake, TypeOK, ListTypeOK, Num
<1>1. /\ OwnerItems = jobList /\ OwnerStatus = status
    BY OwnerView
<1> DEFINE longer == Append(jobList, kind)
           statuses == Append(status, "todo")
<1>2. /\ Len(longer) = Num + 1 /\ longer[Num + 1] = kind
      /\ Len(statuses) = Num + 1
      /\ SubSeq(longer, 1, Num + 1) = longer /\ SubSeq(longer, 1, Num) = jobList
      /\ SubSeq(statuses, 1, Num + 1) = statuses
      /\ SubSeq(statuses, 1, Num) = status
    <2>1. longer \in Seq(Kinds) /\ Len(longer) = Num + 1 /\ longer[Num + 1] = kind
        BY <1>0
    <2>2. statuses \in Seq({"todo", "running", "executed"})
          /\ Len(statuses) = Num + 1
        BY <1>0
    <2>3. SubSeq(longer, 1, Len(longer)) = longer
        BY <2>1, WholeSeq
    <2>4. SubSeq(statuses, 1, Len(statuses)) = statuses
        BY <2>2, WholeSeq
    <2>5. SubSeq(longer, 1, Len(jobList)) = jobList
        BY <1>0, FrontSeq
    <2>6. SubSeq(statuses, 1, Len(status)) = status
        BY <1>0, FrontSeq
    <2> QED BY <1>0, <2>1, <2>2, <2>3, <2>4, <2>5, <2>6
<1> HIDE DEF longer, statuses
<1>3. jobList' = longer /\ status' = statuses
    BY DEF Push, longer, statuses
<1>4. OwnerLength' = IF kind = "done" THEN Num ELSE Num + 1
    BY <1>0, <1>2, <1>3 DEF OwnerLength, Num
<1>5. CASE kind # "done"
    <2>1. OwnerItems' = longer /\ OwnerStatus' = statuses
        BY <1>2, <1>3, <1>4, <1>5 DEF OwnerItems, OwnerStatus
    <2>2. kind \in Promise!Kinds
        BY <1>5 DEF Kinds, Promise!Kinds
    <2>3. Promise!Add(kind)
        BY <1>1, <1>5, <2>1
           DEF Promise!Add, OwnerItems, OwnerStatus, longer, statuses
    <2> QED BY <2>2, <2>3 DEF Promise!Next
<1>6. CASE kind = "done"
    <2>1. OwnerItems' = jobList /\ OwnerStatus' = status
        BY <1>2, <1>3, <1>4, <1>6 DEF OwnerItems, OwnerStatus
    <2>2. done' = FALSE
        BY <1>6
    <2>3. Promise!Submit
        BY <1>1, <2>1, <2>2 DEF Promise!Submit, OwnerItems, OwnerStatus
    <2> QED BY <2>3 DEF Promise!Next
<1> QED BY <1>5, <1>6

\* Every step is one of the promise, or stutters.
LEMMA StepPromise ==
    ASSUME PairedSyncs, Accounts, [Next]_vars
    PROVE  Promise!Next \/ UNCHANGED Promise!vars
<1> USE DEF Accounts
<1>0. TypeOK /\ (done <=> mpc = "build") /\ Num \in Nat
    BY SignalsHere DEF Handshake, Phases
<1>1. mpc = "build" => ~Submitted
    BY DEF Submitted
<1>2. CASE AddJob
    BY <1>0, <1>1, <1>2, OwnerAdds DEF AddJob, MayAdd, Kinds
<1>3. CASE InsertSignal
    BY <1>0, <1>1, <1>3, OwnerAdds DEF InsertSignal, MayAdd, Kinds
<1>4. CASE InsertSync
    BY <1>0, <1>1, <1>4, OwnerAdds DEF InsertSync, Kinds
<1>5. CASE \E n \in 0 .. NumThreads : Submit(n)
    BY <1>0, <1>1, <1>5, OwnerAdds DEF Submit, Kinds
<1>6. CASE SubmitEmpty
    <2>1. /\ done /\ done' = FALSE /\ jobList' = jobList /\ status' = status
        BY <1>0, <1>6 DEF SubmitEmpty, threadVars
    <2>2. OwnerItems' = OwnerItems /\ OwnerStatus' = OwnerStatus
        BY <2>1 DEF OwnerItems, OwnerStatus, OwnerLength, Num
    <2> QED BY <2>1, <2>2
            DEF Promise!Next, Promise!Submit, OwnerItems, OwnerStatus
<1>7. CASE WaitEmpty \/ WaitClear
    <2>1. /\ ~done /\ done' = TRUE
        BY <1>0, <1>7 DEF WaitEmpty, WaitClear
    <2>2. jobList' = <<>> /\ status' = <<>>
        BY <1>0, <1>7
           DEF WaitEmpty, WaitClear, threadVars, Num, TypeOK, ListTypeOK
    <2>3. OwnerItems' = <<>> /\ OwnerStatus' = <<>>
        <3>1. Num' = 0
            BY <2>2 DEF Num
        <3>2. OwnerLength' = 0
            BY <3>1 DEF OwnerLength
        <3> QED BY <2>2, <3>2 DEF OwnerItems, OwnerStatus
    <2>4. \A i \in DOMAIN OwnerItems : OwnerStatus[i] = "executed"
        <3>1. CASE Num = 0
            <4>1. jobList = <<>> /\ ~Submitted
                BY <1>0, <3>1 DEF Num, TypeOK, ListTypeOK, Submitted
            <4>2. OwnerItems = <<>>
                BY <4>1, OwnerView
            <4> QED BY <4>2
        <3>2. CASE Num # 0
            <4>1. mpc = "drain" /\ Submitted /\ Count(LastGroup) <= 0
                BY <1>0, <1>7, <3>2 DEF WaitEmpty, WaitClear, Submitted, Gates
            <4>2. OwnerLength = Num - 1
                BY <4>1, OwnerView
            <4>3. /\ jobList \in Seq(Kinds) /\ Num = Len(jobList)
                  /\ status \in Seq({"todo", "running", "executed"})
                  /\ Len(status) = Num /\ Num - 1 \in 0 .. Num
                BY <1>0, <3>2 DEF TypeOK, ListTypeOK, Num
            <4>4. DOMAIN SubSeq(jobList, 1, Num - 1) = 1 .. Num - 1
                BY <4>3, PrefixSeq
            <4>5. \A i \in 1 .. Num - 1 :
                      SubSeq(status, 1, Num - 1)[i] = status[i]
                BY <4>3, PrefixSeq
            <4>6. ASSUME NEW i \in 1 .. Num - 1 PROVE status[i] = "executed"
                <5>1. i - 1 \in 0 .. Num - 2 /\ (i - 1) + 1 = i
                    BY <1>0
                <5>2. status[(i - 1) + 1] = "executed"
                    BY <1>0, <4>1, <5>1, AllExecuted
                <5> QED BY <5>1, <5>2
            <4> QED BY <4>2, <4>4, <4>5, <4>6 DEF OwnerItems, OwnerStatus
        <3> QED BY <3>1, <3>2
    <2> QED BY <2>1, <2>3, <2>4
            DEF Promise!Next, Promise!Return, OwnerItems, OwnerStatus
<1>8. ASSUME jobList' = jobList, status' = status, done' = done
      PROVE  UNCHANGED Promise!vars
    BY <1>8 DEF Promise!vars, OwnerLength, Num
<1>9. CASE DropJob \/ HandOver \/ SubmitReturns \/ WaitForCount
           \/ WaitIncrementVersion \/ Finished \/ UNCHANGED vars
    BY <1>8, <1>9
       DEF DropJob, HandOver, SubmitReturns, WaitForCount,
           WaitIncrementVersion, Finished, vars, ownerVars, threadVars
<1>10. ASSUME NEW w \in Executors, Executor(w)
       PROVE  Promise!Next \/ UNCHANGED Promise!vars
    <2>1. CASE StartJob(w) \/ FinishJob(w)
        BY <2>1, RunsEntry
    <2>2. CASE ~(StartJob(w) \/ FinishJob(w))
        BY <1>8, <1>10, <2>2
           DEF Executor, Enter, CheckVersion, Skip, SkipEnd, SkipCount, Lock,
               Fetch, Scan, DecrementGuard, GiveBack, UnlockStalled, Unlock,
               CountJob, Leave, ownerVars
    <2> QED BY <2>1, <2>2
<1> QED BY <1>2, <1>3, <1>4, <1>5, <1>6, <1>7, <1>9, <1>10 DEF Next, Owner

\* A list whose owner closes every SIGNAL with its SYNCHRONIZE keeps its
\* promise (ParallelJobList.h), whatever the threads and their interleaving:
\* RunJobs runs every entry once and none before the sync points ahead of it
\* allow, and Wait returns when all of them are executed.
THEOREM PromiseKept ==
    ASSUME PairedSyncs PROVE Spec => KeepsPromise
<1>1. Init => Promise!Init
    BY DEF Init, Promise!Init, OwnerLength, Num
<1>2. Accounts /\ [Next]_vars => [Promise!Next]_(Promise!vars)
    BY StepPromise
<1> QED BY <1>1, <1>2, AccountsHold, PTL DEF Spec, Promise!Spec, KeepsPromise

-----------------------------------------------------------------------------
(* Jobs run inline: the owner is alone with the list it has just submitted.  *)

Alone ==
    /\ mpc # "inline" => pc[Inline] = "idle" /\ held[Inline] = {}
    /\ mpc = "inline" =>
        /\ \A w \in Threads : \A e \in held[w] \cup {st[w]} :
               e.version < version
        /\ held[Inline] # {} => /\ pc[Inline] = "idle"
                                /\ held[Inline] = {NewState(version)}
        /\ pc[Inline] # "idle" =>
               /\ st[Inline].version = version /\ ~single[Inline]
               /\ pc[Inline] \notin {"giveBack", "unlockKeep", "leaveKeep"}
        /\ pc[Inline] = "leaveDone" \/ (pc[Inline] = "idle" /\ held[Inline] = {})
               => Count(LastGroup) <= 0

LEMMA InitAlone == Init => Alone
BY DEF Init, Alone, Executors

\* Another thread's step leaves the owner alone.
LEMMA OthersAlone ==
    ASSUME Accounts, Alone, NEW w \in Threads, Executor(w)
    PROVE  Alone'
<1> USE DEF Accounts
<1>0. /\ TypeOK /\ w \in Executors /\ Inline \in Executors \ {w}
      /\ version \in Nat
    BY DEF Handshake, TypeOK, CounterTypeOK, Executors, Threads, Inline
<1>1. /\ mpc' = mpc /\ version' = version
      /\ pc'[Inline] = pc[Inline] /\ st'[Inline] = st[Inline]
      /\ held'[Inline] = held[Inline]
    BY <1>0, ExecutorFrame DEF ownerVars
<1>2. single'[Inline] = single[Inline]
    BY <1>0 DEF TypeOK, ThreadTypeOK, Executor, Enter, CheckVersion, Skip,
           SkipEnd, SkipCount, Lock, Fetch, Scan, DecrementGuard, GiveBack,
           UnlockStalled, Unlock, StartJob, FinishJob, CountJob, Leave
<1>3. ASSUME mpc = "inline", NEW v \in Threads, NEW e \in held'[v] \cup {st'[v]}
      PROVE  e.version < version
    <2>1. v \in Executors
        BY DEF Executors
    <2>2. CASE e = NoState
        BY <1>0, <2>2 DEF NoState, NewState
    <2>3. CASE \E d \in held[v] \cup {st[v]} : d.version = e.version
        BY <1>3, <2>3 DEF Alone
    <2> QED BY <1>0, <2>1, <2>2, <2>3, ExecutorEntries
<1>4. mpc = "inline" /\ Count(LastGroup) <= 0 => Count(LastGroup)' <= 0
    <2>1. mpc = "inline" => Submitted
        BY DEF Handshake, Phases, Submitted
    <2> QED BY <1>0, <2>1, LastCount
<1> QED BY <1>1, <1>2, <1>3, <1>4 DEF Alone

\* What the owner finds at a marker: everything ahead of it is counted.
LEMMA AloneCounted ==
    ASSUME Accounts, Alone, mpc = "inline", pc[Inline] \in {"scan", "skipCount"},
           st[Inline].lastJobIndex < Num,
           pc[Inline] = "scan" =>
               st[Inline].lastJobIndex <= st[Inline].nextJobIndex,
           NEW k \in 0 .. st[Inline].lastJobIndex - 1
    PROVE  ~Uncounted(k)
<1> USE DEF Accounts
<1>0. /\ TypeOK /\ Inline \in Executors /\ st[Inline] \in States
      /\ currentJob \in Int
    BY DEF Handshake, TypeOK, ThreadTypeOK, CounterTypeOK, Executors, Inline
<1>1. pc[Inline] \in Choosing => st[Inline].nextJobIndex = currentJob - 1
    BY <1>0 DEF Fetches
<1>2. pc[Inline] = "skipCount" => Reached(st[Inline].lastJobIndex + 1)
    BY <1>0 DEF Markers
<1>3. k < currentJob /\ ~Owns(Inline, k)
    <2>1. CASE pc[Inline] = "scan"
        BY <1>0, <1>1, <2>1 DEF Choosing, Owns, States
    <2>2. CASE pc[Inline] = "skipCount"
        BY <1>0, <1>2, <2>2 DEF Choosing, Working, Owns, Reached, States
    <2> QED BY <2>1, <2>2
<1>4. ASSUME NEW w \in Executors PROVE ~Owns(w, k)
    <2>1. CASE w = Inline
        BY <1>3, <2>1
    <2>2. CASE w \in Threads
        <3>1. st[w].version < version
            BY <2>2 DEF Alone
        <3>2. st[w].version \in Int /\ version \in Int
            BY <1>0 DEF TypeOK, ThreadTypeOK, States, CounterTypeOK
        <3>3. pc[w] \notin Inside
            BY <3>1, <3>2 DEF Handshake, InsideCurrent
        <3> QED BY <3>3 DEF Owns, Choosing, Working, Inside, Labels
    <2> QED BY <2>1, <2>2 DEF Executors
<1> QED BY <1>0, <1>3, <1>4 DEF Uncounted

\* So it never stops at one.
LEMMA AloneUnblocked ==
    ASSUME Accounts, Alone, mpc = "inline", pc[Inline] \in {"scan", "skipCount"},
           st[Inline].lastJobIndex < Num,
           pc[Inline] = "scan" =>
               st[Inline].lastJobIndex <= st[Inline].nextJobIndex,
           Entry(Inline) \in {"sync", "done"},
           NEW blocked \in Blocked(Inline)
    PROVE  ~blocked
<1> USE DEF Accounts
<1>0. /\ TypeOK /\ Inline \in Executors /\ Submitted /\ Num \in Nat
      /\ Reading(st[Inline])
    <2>1. TypeOK /\ Inline \in Executors /\ pc[Inline] \in Inside
        BY DEF Handshake, Executors, Inline, Inside, Labels
    <2> QED BY <2>1, InsideSubmitted, SignalsHere DEF Scans
<1>1. PICK i : i = st[Inline].lastJobIndex
    OBVIOUS
<1>2. /\ i \in 0 .. Num - 1 /\ st[Inline].signalIndex = SignalsBefore(i)
      /\ Entry(Inline) = At(i)
    BY <1>0, <1>1 DEF Reading, Entry
<1>3. \A k \in 0 .. i - 1 : ~Uncounted(k)
    BY <1>1, AloneCounted
<1>4. /\ LastGroup = SignalsBefore(Num) /\ LastGroup \in Nat
    BY <1>0, GroupRange
<1>5. \A g \in 0 .. LastGroup : Left(g) = {} => Count(g) <= 0
    <2> SUFFICES ASSUME NEW g \in 0 .. LastGroup, Left(g) = {}
                 PROVE  Count(g) <= 0
        OBVIOUS
    <2>1. Cardinality(Left(g)) = 0
        BY FS_EmptySet
    <2>2. Count(g) = 0 - (IF Submitted /\ g = LastGroup /\ ~Uncounted(Num - 1)
                          THEN 1 ELSE 0)
        BY <2>1, Zenon DEF Counters
    <2> QED BY <2>2
<1>6. CASE At(i) = "done"
    <2>1. i = Num - 1
        BY <1>0, <1>2, <1>6 DEF ListShape
    <2>2. Left(LastGroup) = {}
        BY <1>0, <1>3, <1>6, <2>1 DEF Left
    <2>3. LastGroup \in 0 .. LastGroup
        BY <1>4
    <2>4. Count(LastGroup) <= 0
        BY <1>5, <2>2, <2>3
    <2>5. Count(LastGroup) \in Int
        BY <1>0, <2>3 DEF TypeOK, CounterTypeOK, Count, LastGroup
    <2>6. ~(Count(LastGroup) > 0)
        BY <2>4, <2>5
    <2> QED BY <1>2, <1>6, <2>6, Zenon DEF Blocked
<1>7. CASE At(i) = "sync"
    <2>1. PICK g : g = SignalsBefore(i) - 1
        OBVIOUS
    <2>2. /\ SignalsBefore(i) >= 1 /\ SignalsBefore(i) \in Nat
          /\ SignalsBefore(i) <= SignalsBefore(Num)
        <3>1. i \in Nat /\ i \in 0 .. Num
            BY <1>0, <1>2
        <3> QED BY <1>0, <1>2, <1>7, <3>1, SignalsHere DEF Pairs
    <2>3. g \in 0 .. LastGroup
        BY <1>4, <2>1, <2>2
    <2>4. \A k \in i .. Num - 1 : Group(k) # g
        <3> SUFFICES ASSUME NEW k \in i .. Num - 1 PROVE Group(k) # g
            OBVIOUS
        <3>1. k + 1 \in Nat /\ i \in 0 .. k + 1
            BY <1>0, <1>2
        <3>2. SignalsBefore(i) <= SignalsBefore(k + 1) /\ SignalsBefore(k + 1) \in Nat
            BY <1>0, <3>1, SignalsHere
        <3> QED BY <2>1, <2>2, <3>2 DEF Group
    <2>5. Left(g) = {}
        BY <1>0, <1>2, <1>3, <2>4 DEF Left
    <2>6. Count(g) <= 0
        BY <1>5, <2>3, <2>5
    <2>7. Count(g) \in Int
        BY <1>0, <1>4, <2>3 DEF TypeOK, CounterTypeOK, Count, LastGroup
    <2>8. ~(Count(st[Inline].signalIndex - 1) > 0) /\ st[Inline].signalIndex > 0
        BY <1>2, <2>1, <2>2, <2>6, <2>7
    <2>9. Blocked(Inline) = {Count(st[Inline].signalIndex - 1) > 0}
        BY <1>2, <1>7, <2>8 DEF Blocked
    <2> QED BY <2>8, <2>9, Zenon
<1> QED BY <1>2, <1>6, <1>7

\* The owner's own way through RunJobs: nothing holds it up, and it leaves when
\* the last counter is at zero.
LEMMA InlineAlone ==
    ASSUME Accounts, Accounts', Alone, Executor(Inline)
    PROVE  Alone'
<1> USE DEF Accounts
<1>0. /\ TypeOK /\ TypeOK' /\ Inline \in Executors /\ version \in Nat
      /\ Inline \notin Threads
    BY DEF Handshake, TypeOK, CounterTypeOK, Executors, Threads, Inline
<1>1. mpc = "inline"
    BY <1>0 DEF Alone, Executor, Enter, CheckVersion, Skip,
           SkipEnd, SkipCount, Lock, Fetch, Scan, DecrementGuard, GiveBack,
           UnlockStalled, Unlock, StartJob, FinishJob, CountJob, Leave
<1>2. /\ mpc' = mpc /\ version' = version /\ Submitted
      /\ \A v \in Threads : st'[v] = st[v] /\ held'[v] = held[v]
    BY <1>0, <1>1, ExecutorFrame
       DEF ownerVars, Handshake, Phases, Submitted, Executors
<1>3. \A w \in Threads : \A e \in held'[w] \cup {st'[w]} : e.version < version
    BY <1>1, <1>2 DEF Alone
<1>4. /\ held[Inline] # {} => /\ pc[Inline] = "idle"
                              /\ held[Inline] = {NewState(version)}
      /\ pc[Inline] # "idle" =>
             /\ st[Inline].version = version /\ ~single[Inline]
             /\ pc[Inline] \notin {"giveBack", "unlockKeep", "leaveKeep"}
      /\ pc[Inline] = "leaveDone" \/ (pc[Inline] = "idle" /\ held[Inline] = {})
             => Count(LastGroup) <= 0
    BY <1>1, Zenon DEF Alone
<1>5. CASE Enter(Inline)
    <2>1. PICK e \in held[Inline] : st' = [st EXCEPT ![Inline] = e]
                                /\ held' = [held EXCEPT ![Inline] = @ \ {e}]
        BY <1>5 DEF Enter
    <2>2. held'[Inline] = {} /\ st'[Inline].version = version
        BY <1>0, <1>4, <2>1 DEF TypeOK, ThreadTypeOK, NewState
    <2>3. ~single'[Inline] /\ pc'[Inline] = "check"
        BY <1>0, <1>5 DEF Enter, SingleChoice, Goto, TypeOK, ThreadTypeOK
    <2> QED BY <1>1, <1>2, <1>3, <2>2, <2>3 DEF Alone
<1>6. CASE Leave(Inline)
    <2>1. pc[Inline] = "leaveDone" /\ held[Inline] = {}
        BY <1>4, <1>6 DEF Leave
    <2>2. pc'[Inline] = "idle" /\ held'[Inline] = {}
        BY <1>0, <1>6, <2>1 DEF Leave, Goto, TypeOK, ThreadTypeOK
    <2>3. Count(LastGroup)' <= 0
        BY <1>0, <1>2, <1>4, <2>1, LastCount
    <2> QED BY <1>1, <1>2, <1>3, <2>2, <2>3 DEF Alone
<1>7. CASE ~Enter(Inline) /\ ~Leave(Inline)
    <2>1. /\ held'[Inline] = {} /\ single' = single /\ pc[Inline] # "idle"
          /\ st'[Inline].version = st[Inline].version
        <3>1. held' = held /\ single' = single /\ pc[Inline] # "idle"
            BY <1>7
               DEF Executor, CheckVersion, Skip, SkipEnd, SkipCount, Lock,
                   Fetch, Scan, DecrementGuard, GiveBack, UnlockStalled,
                   Unlock, StartJob, FinishJob, CountJob
        <3>2. st'[Inline].version = st[Inline].version
            BY <1>0, <1>7
               DEF TypeOK, ThreadTypeOK, PassEntry, PassSignal, States,
                   Executor, CheckVersion, Skip, SkipEnd, SkipCount, Lock,
                   Fetch, Scan, DecrementGuard, GiveBack, UnlockStalled,
                   Unlock, StartJob, FinishJob, CountJob
        <3> QED BY <1>4, <3>1, <3>2
    <2>2. pc'[Inline] \notin {"giveBack", "unlockKeep", "leaveKeep", "idle"}
          /\ (pc'[Inline] = "leaveDone" => Count(LastGroup)' <= 0)
        <3> DEFINE goes == pc'[Inline]
        <3>0. pc \in [Executors -> Labels]
            BY <1>0 DEF TypeOK, ThreadTypeOK
        <3>1. CASE CheckVersion(Inline)
            BY <1>0, <1>4, <2>1, <3>0, <3>1 DEF CheckVersion, Outdated, Goto
        <3>2. CASE Skip(Inline) \/ SkipEnd(Inline) \/ Fetch(Inline)
                   \/ DecrementGuard(Inline) \/ StartJob(Inline)
                   \/ FinishJob(Inline)
            BY <1>0, <3>0, <3>2
               DEF Skip, SkipEnd, Fetch, DecrementGuard, StartJob, FinishJob,
                   Goto
        <3>3. CASE SkipCount(Inline)
            <4>1. /\ pc[Inline] = "skipCount"
                  /\ st[Inline].lastJobIndex < Num
                  /\ Entry(Inline) \in {"sync", "done"}
                BY <1>0, <3>3 DEF SkipCount, Markers
            <4>2. \A blocked \in Blocked(Inline) : ~blocked
                BY <1>1, <4>1, AloneUnblocked, Zenon
            <4>3. Goto(Inline, "skip")
                BY <3>3, <4>2, Zenon DEF SkipCount
            <4> QED BY <1>0, <3>0, <4>3 DEF Goto
        <3>4. CASE Scan(Inline)
            <4>1. /\ pc[Inline] = "scan"
                  /\ st[Inline].lastJobIndex <= st[Inline].nextJobIndex
                  /\ st[Inline].lastJobIndex < Num
                BY <3>4 DEF Scan
            <4>2. Entry(Inline) \in {"sync", "done"} =>
                      \A blocked \in Blocked(Inline) : ~blocked
                BY <1>1, <4>1, AloneUnblocked, Zenon
            <4>3. UNCHANGED pc \/ Goto(Inline, "guard")
                BY <3>4, <4>2, Zenon DEF Scan
            <4> QED BY <1>0, <3>0, <4>1, <4>3 DEF Goto
        <3>5. CASE Lock(Inline)
            <4>1. LockUsers = {}
                <5>1. \A w \in Threads : pc[w] \notin Inside
                    <6> SUFFICES ASSUME NEW w \in Threads PROVE pc[w] \notin Inside
                        OBVIOUS
                    <6>1. st[w].version < version /\ w \in Executors
                        BY <1>1 DEF Alone, Executors
                    <6>2. st[w].version \in Int
                        BY <1>0, <6>1 DEF TypeOK, ThreadTypeOK, States
                    <6> QED BY <1>0, <1>1, <6>1, <6>2 DEF Handshake, InsideCurrent
                <5>2. pc[Inline] = "lock"
                    BY <3>5 DEF Lock
                <5> QED BY <5>1, <5>2
                        DEF LockUsers, Executors, Fetching, Inside, Labels
            <4>2. fetchLock = 0
                BY <4>1, FS_EmptySet DEF Handshake, Counted
            <4>3. Goto(Inline, "fetch")
                BY <3>5, <4>2 DEF Lock, Taken
            <4> QED BY <1>0, <3>0, <4>3 DEF Goto
        <3>6. CASE GiveBack(Inline) \/ UnlockStalled(Inline)
            BY <1>4, <3>6 DEF GiveBack, UnlockStalled
        <3>7. CASE Unlock(Inline)
            <4>1. pc[Inline] = "scan" /\ Reading(st[Inline])
                BY <1>0, <3>7, InsideSubmitted DEF Unlock, Scans, Inside, Labels
            <4>2. PastEnd(Inline) => Count(LastGroup)' <= 0
                <5> SUFFICES ASSUME PastEnd(Inline) PROVE Count(LastGroup)' <= 0
                    OBVIOUS
                <5>1. st[Inline] \in States /\ Num \in Nat
                    BY <1>0, SignalsHere DEF TypeOK, ThreadTypeOK
                <5>2. st[Inline].lastJobIndex = Num
                    BY <3>7, <4>1, <5>1 DEF Unlock, PastEnd, Reading, States
                <5>3. Count(LastGroup) <= 0
                    BY <4>1, <5>2 DEF Reading
                <5> QED BY <1>0, <1>2, <5>3, LastCount
            <4>3. Goto(Inline, IF PastEnd(Inline) THEN "leaveDone" ELSE "run")
                BY <3>7 DEF Unlock
            <4> QED BY <1>0, <3>0, <4>2, <4>3 DEF Goto
        <3>8. CASE CountJob(Inline)
            <4>1. PICK g : g = st[Inline].signalIndex
                OBVIOUS
            <4>2. /\ pc[Inline] = "count" /\ ~single[Inline]
                  /\ signalJobCount' = [signalJobCount EXCEPT ![g + 1] = @ - 1]
                  /\ pc' = [pc EXCEPT ![Inline] =
                              IF Count(g) = 1 /\ g = LastGroup
                              THEN "leaveDone" ELSE "skip"]
                BY <1>4, <2>1, <3>8, <4>1 DEF CountJob, Goto
            <4>3. ASSUME Count(g) = 1, g = LastGroup PROVE Count(LastGroup)' <= 0
                <5>1. /\ signalJobCount \in Seq(Int)
                      /\ LastGroup \in Nat
                      /\ LastGroup + 1 \in 1 .. Len(signalJobCount)
                    BY <1>0, <1>2, GroupRange
                       DEF TypeOK, CounterTypeOK, LastGroup
                <5>2. signalJobCount'[g + 1] = Count(g) - 1
                    BY <4>2, <4>3, <5>1 DEF Count
                <5>3. LastGroup' = g
                    BY <1>0, <4>3, ExecutorList
                <5> QED BY <4>3, <5>2, <5>3 DEF Count
            <4> QED BY <1>0, <3>0, <4>2, <4>3
        <3> QED BY <1>7, <3>1, <3>2, <3>3, <3>4, <3>5, <3>6, <3>7, <3>8
                DEF Executor
    <2> QED BY <1>1, <1>2, <1>3, <1>4, <2>1, <2>2 DEF Alone
<1> QED BY <1>5, <1>6, <1>7

LEMMA OwnerAlone ==
    ASSUME Accounts, Alone, Owner
    PROVE  Alone'
<1> USE DEF Accounts
<1>0. /\ TypeOK /\ Inline \in Executors /\ Inline \notin Threads
      /\ version \in Nat
    BY DEF Handshake, TypeOK, CounterTypeOK, Executors, Threads, Inline
<1>1. CASE \E n \in 0 .. NumThreads : Submit(n)
    <2>1. PICK n \in 0 .. NumThreads : Submit(n)
        BY <1>1
    <2>2. /\ pc' = pc /\ st' = st /\ version' = version
          /\ held'[Inline] = IF n = 0 THEN {NewState(version)} ELSE {}
          /\ \A w \in Threads : held'[w] = held[w]
          /\ mpc' = IF n = 0 THEN "inline" ELSE "handover"
        BY <1>0, <2>1 DEF Submit, TypeOK, ThreadTypeOK, Executors
    <2>3. pc[Inline] = "idle" /\ Withdrawn
        BY <2>1 DEF Alone, Submit, Withdrawn
    <2>4. \A w \in Threads : \A e \in held[w] \cup {st[w]} : e.version < version
        BY <2>3 DEF Handshake, Versions, Executors
    <2> QED BY <2>2, <2>3, <2>4 DEF Alone
<1>2. CASE HandOver
    <2>1. Head(toNotify) \in Threads
        BY <1>0, <1>2 DEF HandOver, TypeOK, OwnerTypeOK
    <2>2. held'[Inline] = held[Inline]
        BY <1>0, <1>2, <2>1 DEF HandOver, TypeOK, ThreadTypeOK, Executors
    <2> QED BY <1>2, <2>2 DEF Alone, HandOver
<1>3. CASE ~HandOver /\ ~(\E n \in 0 .. NumThreads : Submit(n))
    <2>1. /\ pc' = pc /\ held' = held
          /\ mpc' # "inline"
          /\ mpc = "inline" => pc[Inline] = "idle" /\ held[Inline] = {}
        BY <1>3
           DEF Owner, AddJob, DropJob, InsertSignal, InsertSync, MayAdd,
               SubmitEmpty, SubmitReturns, WaitEmpty, WaitForCount,
               WaitIncrementVersion, WaitClear, threadVars
    <2> QED BY <2>1 DEF Alone
<1> QED BY <1>1, <1>2, <1>3

LEMMA StutterAlone ==
    ASSUME Alone, UNCHANGED vars
    PROVE  Alone'
BY DEF Alone, vars, ownerVars, threadVars, Count, LastGroup

LEMMA AloneHolds ==
    ASSUME PairedSyncs PROVE Spec => [](Accounts /\ Alone)
<1>1. ASSUME Accounts, Alone, [Next]_vars PROVE Accounts' /\ Alone'
    <2>1. Accounts'
        BY <1>1, StepAccounts
    <2>2. Alone'
        <3>1. CASE Owner
            BY <1>1, <3>1, OwnerAlone
        <3>2. CASE \E w \in Executors : Executor(w)
            BY <1>1, <2>1, <3>2, OthersAlone, InlineAlone DEF Executors
        <3>3. CASE UNCHANGED vars
            BY <1>1, <3>3, StutterAlone
        <3> QED BY <1>1, <3>1, <3>2, <3>3 DEF Next, Finished
    <2> QED BY <2>1, <2>2
<1> QED BY InitAccounts, InitAlone, <1>1, PTL DEF Spec

\* Submit without threads returns when all jobs are over (ParallelJobList.cpp,
\* 1359): the inline call of RunJobs never finds a marker that holds it up, nor
\* the fetch lock taken.
THEOREM InlineFinishes ==
    ASSUME PairedSyncs PROVE Spec => InlineCompletes
<1>1. ASSUME Alone, [Next]_vars
      PROVE  [mpc = "inline" /\ mpc' = "submitted" => Count(LastGroup) <= 0]_vars
    <2> SUFFICES ASSUME mpc = "inline", mpc' = "submitted", Next
                 PROVE  Count(LastGroup) <= 0
        BY <1>1
    <2>1. SubmitReturns
        BY DEF Next, Owner, AddJob, DropJob, InsertSignal, InsertSync, MayAdd,
               Submit, SubmitEmpty, HandOver, WaitEmpty, WaitForCount,
               WaitIncrementVersion, WaitClear, Finished, Executor,
               Enter, CheckVersion, Skip, SkipEnd, SkipCount, Lock, Fetch,
               Scan, DecrementGuard, GiveBack, UnlockStalled, Unlock,
               StartJob, FinishJob, CountJob, Leave, ownerVars
    <2> QED BY <1>1, <2>1 DEF SubmitReturns, Alone
<1> QED BY <1>1, AloneHolds, PTL DEF Spec, InlineCompletes

=============================================================================
