-------------------------- MODULE ParallelJobList --------------------------
(***************************************************************************)
(* One idParallelJobList_Threads of src/idlib/ParallelJobList.cpp, its      *)
(* owner and the job threads that serve it.                                 *)
(*                                                                          *)
(* Every access to an idSysInterlockedInteger is a step of its own, so that *)
(* all interleavings of the lock-free part are behaviours.  The list, its   *)
(* length and the number of counters are plain data in the code: the owner  *)
(* may change them only when no thread reads them, which is what the        *)
(* invariants are about.  Indices count from 0 as in the code.              *)
(***************************************************************************)
EXTENDS Integers, Sequences, FiniteSets

CONSTANTS
    NumThreads,     \* job threads of the manager (maxThreads)
    MaxJobs,        \* the capacity the list was allocated with (maxJobs)
    PairedSyncs,    \* the owner submits no SIGNAL that lacks its SYNCHRONIZE
    MaxItems,       \* bound: items of each submission
    MaxVersion      \* bound: submissions of the list

ASSUME ConstantsAssumption ==
    /\ NumThreads \in Nat
    /\ MaxJobs \in Nat
    /\ PairedSyncs \in BOOLEAN
    /\ MaxVersion \in Nat

ASSUME BoundsAssumption ==
    MaxItems \in [0 .. MaxVersion - 1 -> Nat]

VARIABLES
    \* the owner and the fields only it writes
    mpc, done, hasSignal, numSyncs, lastSignalJob, jobList, currentDoneGuard,
    toNotify,               \* threads that Submit has yet to give the list to
    \* the interlocked integers
    version, signalJobCount, currentJob, fetchLock, numThreadsExecuting,
    doneGuards,
    \* the job threads
    pc, single,
    st,                     \* the threadJobListState_t a thread is running
    held,                   \* the others it has been given and not dropped
    status                  \* of each entry of jobList (executed, and running)

ownerVars == <<mpc, done, hasSignal, numSyncs, lastSignalJob, jobList,
               currentDoneGuard, toNotify>>
threadVars == <<pc, single, st, held, status>>
vars == <<ownerVars, version, signalJobCount, currentJob, fetchLock,
          numThreadsExecuting, doneGuards, threadVars>>

Threads == 1 .. NumThreads
Inline == 0                         \* RunJobs called by the owner's Submit
Executors == Threads \cup {Inline}
NumDoneGuards == 4
DoneGuards == 0 .. NumDoneGuards - 1

Kinds == {"job", "signal", "sync", "done"}

Num == Len(jobList)
At(i) == jobList[i + 1]
LastGroup == Len(signalJobCount) - 1
Count(group) == signalJobCount[group + 1]

NewState(v) ==
    [version |-> v, signalIndex |-> 0, lastJobIndex |-> 0, nextJobIndex |-> -1]
NoState == NewState(-1)

Init ==
    /\ mpc = "build"
    /\ done = TRUE
    /\ hasSignal = FALSE
    /\ numSyncs = 0
    /\ lastSignalJob = 0
    /\ jobList = <<>>
    /\ currentDoneGuard = 0
    /\ toNotify = <<>>
    /\ version = 0
    /\ signalJobCount = <<>>
    /\ currentJob = 0
    /\ fetchLock = 0
    /\ numThreadsExecuting = 0
    /\ doneGuards = [g \in DoneGuards |-> 0]
    /\ pc = [w \in Executors |-> "idle"]
    /\ single = [w \in Executors |-> FALSE]
    /\ st = [w \in Executors |-> NoState]
    /\ held = [w \in Executors |-> {}]
    /\ status = <<>>

-----------------------------------------------------------------------------
(* The owner: AddJob, InsertSyncPoint, Submit, Wait, TryWait.               *)

MayAdd == mpc = "build" /\ version < MaxVersion /\ Num < MaxItems[version]

Push(kind) ==
    /\ jobList' = Append(jobList, kind)
    /\ status' = Append(status, "todo")

AddJob ==
    /\ MayAdd
    /\ Num # MaxJobs
    /\ Push("job")
    /\ UNCHANGED <<mpc, done, hasSignal, numSyncs, lastSignalJob,
                   currentDoneGuard, toNotify, version,
                   signalJobCount, currentJob, fetchLock, numThreadsExecuting,
                   doneGuards, pc, single, st, held>>

\* The capacity test compares for equality and counts the dummy entries; a job
\* it refuses is lost with a warning.
DropJob ==
    /\ mpc = "build"
    /\ version < MaxVersion
    /\ Num = MaxJobs
    /\ UNCHANGED <<mpc, done, hasSignal, numSyncs, lastSignalJob, jobList,
                   currentDoneGuard, toNotify, version, signalJobCount,
                   currentJob, fetchLock, numThreadsExecuting, doneGuards,
                   threadVars>>

\* The entries since the last signal: what the next counter starts from.
GroupSizeWithDone == Num + 1 - lastSignalJob
GroupSize == Num - lastSignalJob

\* The bound leaves room for the SYNCHRONIZE.
InsertSignal ==
    /\ MayAdd /\ Num + 1 < MaxItems[version]
    /\ ~hasSignal
    /\ Num > 0
    /\ signalJobCount' = Append(signalJobCount, GroupSize)
    /\ lastSignalJob' = Num
    /\ Push("signal")
    /\ hasSignal' = TRUE
    /\ UNCHANGED <<mpc, done, numSyncs, currentDoneGuard, toNotify,
                   version, currentJob, fetchLock, numThreadsExecuting,
                   doneGuards, pc, single, st, held>>

InsertSync ==
    /\ mpc = "build" /\ version < MaxVersion
    /\ hasSignal
    /\ Push("sync")
    /\ hasSignal' = FALSE
    /\ numSyncs' = numSyncs + 1
    /\ UNCHANGED <<mpc, done, lastSignalJob, currentDoneGuard, toNotify,
                   version, signalJobCount, currentJob, fetchLock,
                   numThreadsExecuting, doneGuards, pc, single, st, held>>

\* An empty list is marked submitted and nobody is told.
SubmitEmpty ==
    /\ mpc = "build"
    /\ version < MaxVersion
    /\ Num = 0
    /\ done' = FALSE
    /\ currentJob' = 0
    /\ mpc' = "submitted"
    /\ UNCHANGED <<hasSignal, numSyncs, lastSignalJob, jobList,
                   currentDoneGuard, toNotify, version,
                   signalJobCount, fetchLock, numThreadsExecuting, doneGuards,
                   threadVars>>

\* n is the number of threads the manager settles on; 0 runs the jobs inline.
Submit(n) ==
    /\ mpc = "build"
    /\ version < MaxVersion
    /\ Num > 0
    /\ PairedSyncs => ~hasSignal
    /\ done' = FALSE
    /\ currentJob' = 0
    /\ currentDoneGuard' = (currentDoneGuard + 1) % NumDoneGuards
    /\ doneGuards' = [doneGuards EXCEPT ![currentDoneGuard'] = 1]
    /\ signalJobCount' = Append(signalJobCount, GroupSize)
    /\ Push("done")
    /\ toNotify' = [k \in 1 .. n |-> k]
    /\ held' = [held EXCEPT ![Inline] =
                    IF n = 0 THEN {NewState(version)} ELSE {}]
    /\ mpc' = IF n = 0 THEN "inline" ELSE "handover"
    /\ UNCHANGED <<hasSignal, numSyncs, lastSignalJob, version,
                   fetchLock, numThreadsExecuting, pc, single, st>>

\* idJobThread::AddJobList: the entry carries the version of this moment.
HandOver ==
    /\ mpc = "handover"
    /\ toNotify # <<>>
    /\ held' = [held EXCEPT ![Head(toNotify)] = @ \cup {NewState(version)}]
    /\ toNotify' = Tail(toNotify)
    /\ UNCHANGED <<mpc, done, hasSignal, numSyncs, lastSignalJob, jobList,
                   currentDoneGuard, version, signalJobCount,
                   currentJob, fetchLock, numThreadsExecuting, doneGuards, pc,
                   single, st, status>>

SubmitReturns ==
    /\ \/ mpc = "handover" /\ toNotify = <<>>
       \/ mpc = "inline" /\ pc[Inline] = "idle" /\ held[Inline] = {}
    /\ mpc' = "submitted"
    /\ UNCHANGED <<done, hasSignal, numSyncs, lastSignalJob, jobList,
                   currentDoneGuard, toNotify, version,
                   signalJobCount, currentJob, fetchLock, numThreadsExecuting,
                   doneGuards, threadVars>>

\* Wait on a list with nothing in it: no counter is touched.
WaitEmpty ==
    /\ mpc = "submitted"
    /\ Num = 0
    /\ done' = TRUE
    /\ mpc' = "build"
    /\ UNCHANGED <<hasSignal, numSyncs, lastSignalJob, jobList,
                   currentDoneGuard, toNotify, version,
                   signalJobCount, currentJob, fetchLock, numThreadsExecuting,
                   doneGuards, threadVars>>

\* The first loop of Wait ends; TryWait calls Wait under the same condition
\* and otherwise returns with nothing changed.
WaitForCount ==
    /\ mpc = "submitted"
    /\ Num > 0
    /\ Count(LastGroup) <= 0
    /\ mpc' = "counted"
    /\ UNCHANGED <<done, hasSignal, numSyncs, lastSignalJob, jobList,
                   currentDoneGuard, toNotify, version,
                   signalJobCount, currentJob, fetchLock, numThreadsExecuting,
                   doneGuards, threadVars>>

WaitIncrementVersion ==
    /\ mpc = "counted"
    /\ version' = version + 1
    /\ mpc' = "drain"
    /\ UNCHANGED <<done, hasSignal, numSyncs, lastSignalJob, jobList,
                   currentDoneGuard, toNotify, signalJobCount,
                   currentJob, fetchLock, numThreadsExecuting, doneGuards,
                   threadVars>>

\* No thread is inside RunJobs: the list is cleared and is the owner's again.
\* hasSignal keeps its value.
DrainedAtOnce == TRUE
Drained == numThreadsExecuting <= 0

WaitClear ==
    /\ mpc = "drain"
    /\ Drained
    /\ jobList' = <<>>
    /\ status' = <<>>
    /\ signalJobCount' = <<>>
    /\ numSyncs' = 0
    /\ lastSignalJob' = 0
    /\ done' = TRUE
    /\ mpc' = "build"
    /\ UNCHANGED <<hasSignal, currentDoneGuard, toNotify, version, currentJob,
                   fetchLock, numThreadsExecuting, doneGuards, pc, single, st,
                   held>>

Owner ==
    \/ AddJob \/ DropJob \/ InsertSignal \/ InsertSync
    \/ SubmitEmpty \/ (\E n \in 0 .. NumThreads : Submit(n))
    \/ HandOver \/ SubmitReturns
    \/ WaitEmpty \/ WaitForCount \/ WaitIncrementVersion \/ WaitClear

-----------------------------------------------------------------------------
(* A job thread inside RunJobs.  Each action is one access to a shared       *)
(* counter, with the private work up to the next one.                        *)

Goto(w, label) == pc' = [pc EXCEPT ![w] = label]

\* Advance the thread over the entry at lastJobIndex.
PassEntry(w) == st' = [st EXCEPT ![w].lastJobIndex = @ + 1]
PassSignal(w) == st' = [st EXCEPT ![w].lastJobIndex = @ + 1,
                                  ![w].signalIndex = @ + 1]

\* The kind of the entry the thread looks at.
Entry(w) == At(st[w].lastJobIndex)

\* The outcomes of the test "signalJobCount[...] > 0" at a marker.  A
\* SYNCHRONIZE that no SIGNAL precedes reads in front of the array.
BlockedIfMany(w) == {Count(LastGroup) > 1}
BlockedAtZero(w) ==
    {Count(IF Entry(w) = "sync" THEN st[w].signalIndex - 1 ELSE LastGroup) >= 0}
BlockedByOwnGroup(w) == {Count(st[w].signalIndex) > 1}
Blocked(w) ==
    CASE Entry(w) = "done" -> {Count(LastGroup) > 0}
      [] Entry(w) = "sync" /\ st[w].signalIndex > 0 ->
             {Count(st[w].signalIndex - 1) > 0}
      [] OTHER -> BOOLEAN

\* Run picks a list of its local table (which one is JobThread's subject) and
\* enters RunJobs.
\* The values of singleJob: a matter of priority, except for the inline call.
AnyChoice(w) == BOOLEAN
SingleChoice(w) == IF w = Inline THEN {FALSE} ELSE BOOLEAN

Enter(w) ==
    /\ pc[w] = "idle"
    /\ \E e \in held[w], one \in SingleChoice(w) :
        /\ st' = [st EXCEPT ![w] = e]
        /\ held' = [held EXCEPT ![w] = @ \ {e}]
        /\ single' = [single EXCEPT ![w] = one]
    /\ numThreadsExecuting' = numThreadsExecuting + 1
    /\ Goto(w, "check")
    /\ UNCHANGED <<ownerVars, version, signalJobCount, currentJob, fetchLock,
                   doneGuards, status>>

Outdated(w) == st[w].version # version

CheckVersion(w) ==
    /\ pc[w] = "check"
    /\ Goto(w, IF Outdated(w) THEN "leaveDone" ELSE "skip")
    /\ UNCHANGED <<ownerVars, version, signalJobCount, currentJob, fetchLock,
                   numThreadsExecuting, doneGuards, single, st, held, status>>

\* The first loop, outside the fetch lock: every turn reads currentJob.
Skip(w) ==
    /\ pc[w] = "skip"
    /\ st[w].lastJobIndex < currentJob
    /\ st[w].lastJobIndex < Num
    /\ \/ Entry(w) = "job" /\ PassEntry(w) /\ UNCHANGED pc
       \/ Entry(w) = "signal" /\ PassSignal(w) /\ UNCHANGED pc
       \/ Entry(w) \in {"sync", "done"} /\ Goto(w, "skipCount") /\ UNCHANGED st
    /\ UNCHANGED <<ownerVars, version, signalJobCount, currentJob, fetchLock,
                   numThreadsExecuting, doneGuards, single, held, status>>

SkipEnd(w) ==
    /\ pc[w] = "skip"
    /\ st[w].lastJobIndex >= currentJob \/ st[w].lastJobIndex >= Num
    /\ Goto(w, "lock")
    /\ UNCHANGED <<ownerVars, version, signalJobCount, currentJob, fetchLock,
                   numThreadsExecuting, doneGuards, single, st, held, status>>

SkipCount(w) ==
    /\ pc[w] = "skipCount"
    /\ \E blocked \in Blocked(w) :
        \/ blocked /\ Goto(w, "leaveKeep") /\ UNCHANGED st
        \/ ~blocked /\ Goto(w, "skip") /\ PassEntry(w)
    /\ UNCHANGED <<ownerVars, version, signalJobCount, currentJob, fetchLock,
                   numThreadsExecuting, doneGuards, single, held, status>>

\* fetchLock.Increment() == 1 takes the lock; any other value is contention.
TakenByTwo(value) == value <= 2
Taken(value) == value = 1

Lock(w) ==
    /\ pc[w] = "lock"
    /\ fetchLock' = fetchLock + 1
    /\ Goto(w, IF Taken(fetchLock') THEN "fetch" ELSE "unlockKeep")
    /\ UNCHANGED <<ownerVars, version, signalJobCount, currentJob,
                   numThreadsExecuting, doneGuards, single, st, held, status>>

\* What the fetch leaves in currentJob.
Fetched == currentJob + 1

Fetch(w) ==
    /\ pc[w] = "fetch"
    /\ currentJob' = Fetched
    /\ st' = [st EXCEPT ![w].nextJobIndex = currentJob]
    /\ Goto(w, "scan")
    /\ UNCHANGED <<ownerVars, version, signalJobCount, fetchLock,
                   numThreadsExecuting, doneGuards, single, held, status>>

\* The second loop, inside the fetch lock.
Scan(w) ==
    /\ pc[w] = "scan"
    /\ st[w].lastJobIndex <= st[w].nextJobIndex
    /\ st[w].lastJobIndex < Num
    /\ \/ Entry(w) = "job" /\ PassEntry(w) /\ UNCHANGED pc
       \/ Entry(w) = "signal" /\ PassSignal(w) /\ UNCHANGED pc
       \/ /\ Entry(w) \in {"sync", "done"}
          /\ \E blocked \in Blocked(w) :
              \/ blocked /\ Goto(w, "giveBack") /\ UNCHANGED st
              \/ ~blocked /\ Entry(w) = "sync" /\ PassEntry(w) /\ UNCHANGED pc
              \/ ~blocked /\ Entry(w) = "done" /\ Goto(w, "guard")
                          /\ UNCHANGED st
    /\ UNCHANGED <<ownerVars, version, signalJobCount, currentJob, fetchLock,
                   numThreadsExecuting, doneGuards, single, held, status>>

DecrementGuard(w) ==
    /\ pc[w] = "guard"
    /\ doneGuards' = [doneGuards EXCEPT ![currentDoneGuard] = @ - 1]
    /\ PassEntry(w)
    /\ Goto(w, "scan")
    /\ UNCHANGED <<ownerVars, version, signalJobCount, currentJob, fetchLock,
                   numThreadsExecuting, single, held, status>>

\* Stalled inside the lock: the fetched index returns to the list.
GiveBack(w) ==
    /\ pc[w] = "giveBack"
    /\ currentJob' = currentJob - 1
    /\ Goto(w, "unlockKeep")
    /\ UNCHANGED <<ownerVars, version, signalJobCount, fetchLock,
                   numThreadsExecuting, doneGuards, single, st, held, status>>

\* Stalled, on a marker or on the lock itself.
UnlockStalled(w) ==
    /\ pc[w] = "unlockKeep"
    /\ fetchLock' = fetchLock - 1
    /\ Goto(w, "leaveKeep")
    /\ UNCHANGED <<ownerVars, version, signalJobCount, currentJob,
                   numThreadsExecuting, doneGuards, single, st, held, status>>

PastEnd(w) == st[w].nextJobIndex >= Num

Unlock(w) ==
    /\ pc[w] = "scan"
    /\ st[w].lastJobIndex > st[w].nextJobIndex \/ st[w].lastJobIndex >= Num
    /\ fetchLock' = fetchLock - 1
    /\ Goto(w, IF PastEnd(w) THEN "leaveDone" ELSE "run")
    /\ UNCHANGED <<ownerVars, version, signalJobCount, currentJob,
                   numThreadsExecuting, doneGuards, single, st, held, status>>

StartJob(w) ==
    /\ pc[w] = "run"
    /\ status' = [status EXCEPT ![st[w].nextJobIndex + 1] = "running"]
    /\ Goto(w, "running")
    /\ UNCHANGED <<ownerVars, version, signalJobCount, currentJob, fetchLock,
                   numThreadsExecuting, doneGuards, single, st, held>>

FinishJob(w) ==
    /\ pc[w] = "running"
    /\ status' = [status EXCEPT ![st[w].nextJobIndex + 1] = "executed"]
    /\ Goto(w, "count")
    /\ UNCHANGED <<ownerVars, version, signalJobCount, currentJob, fetchLock,
                   numThreadsExecuting, doneGuards, single, st, held>>

\* The thread that brings the last counter to zero is done with the list.
CountJob(w) ==
    /\ pc[w] = "count"
    /\ LET group == st[w].signalIndex IN
        /\ signalJobCount' = [signalJobCount EXCEPT ![group + 1] = @ - 1]
        /\ Goto(w, IF Count(group) = 1 /\ group = LastGroup THEN "leaveDone"
                   ELSE IF single[w] THEN "leaveKeep" ELSE "skip")
    /\ UNCHANGED <<ownerVars, version, currentJob, fetchLock,
                   numThreadsExecuting, doneGuards, single, st, held, status>>

\* RUN_DONE takes the list off the thread's table; the state of an inline
\* call is a local variable of Submit and is gone in any case.
Leave(w) ==
    /\ pc[w] \in {"leaveDone", "leaveKeep"}
    /\ numThreadsExecuting' = numThreadsExecuting - 1
    /\ held' = [held EXCEPT ![w] =
                    IF pc[w] = "leaveKeep" /\ w # Inline
                    THEN @ \cup {st[w]} ELSE @]
    /\ st' = [st EXCEPT ![w] = NoState]
    /\ Goto(w, "idle")
    /\ UNCHANGED <<ownerVars, version, signalJobCount, currentJob, fetchLock,
                   doneGuards, single, status>>

Executor(w) ==
    \/ Enter(w) \/ CheckVersion(w)
    \/ Skip(w) \/ SkipEnd(w) \/ SkipCount(w)
    \/ Lock(w) \/ Fetch(w) \/ Scan(w) \/ DecrementGuard(w) \/ GiveBack(w)
    \/ UnlockStalled(w) \/ Unlock(w)
    \/ StartJob(w) \/ FinishJob(w) \/ CountJob(w) \/ Leave(w)

\* The owner has no more work for the list.
Finished ==
    /\ version = MaxVersion
    /\ mpc = "build"
    /\ \A w \in Executors : pc[w] = "idle" /\ held[w] = {}
    /\ UNCHANGED vars

Next == Owner \/ (\E w \in Executors : Executor(w)) \/ Finished

Spec == Init /\ [][Next]_vars

-----------------------------------------------------------------------------
(* Properties.                                                              *)

Labels == {"idle", "check", "skip", "skipCount", "lock", "fetch", "scan",
           "guard", "giveBack", "unlockKeep", "run", "running", "count",
           "leaveDone", "leaveKeep"}

States == [version : Int, signalIndex : Int, lastJobIndex : Int,
           nextJobIndex : Int]

OwnerPhases == {"build", "inline", "handover", "submitted", "counted", "drain"}

OwnerTypeOK ==
    /\ mpc \in OwnerPhases
    /\ done \in BOOLEAN /\ hasSignal \in BOOLEAN
    /\ numSyncs \in Nat /\ lastSignalJob \in Nat
    /\ currentDoneGuard \in DoneGuards
    /\ toNotify \in Seq(Threads)

ListTypeOK ==
    /\ jobList \in Seq(Kinds)
    /\ status \in Seq({"todo", "running", "executed"})
    /\ Len(status) = Len(jobList)

CounterTypeOK ==
    /\ version \in Nat
    /\ signalJobCount \in Seq(Int)
    /\ currentJob \in Int /\ fetchLock \in Int /\ numThreadsExecuting \in Int
    /\ doneGuards \in [DoneGuards -> Int]

ThreadTypeOK ==
    /\ pc \in [Executors -> Labels]
    /\ single \in [Executors -> BOOLEAN]
    /\ st \in [Executors -> States]
    /\ held \in [Executors -> SUBSET States]

\* Every variable has its type.
TypeOK == OwnerTypeOK /\ ListTypeOK /\ CounterTypeOK /\ ThreadTypeOK

\* Between the version test and the end of RunJobsInternal a thread reads the
\* job list, its length and its counters.
Inside == Labels \ {"idle", "check", "leaveDone", "leaveKeep"}

Fetching == {"fetch", "scan", "guard", "giveBack"}

\* The fetch lock admits one thread (ParallelJobList.cpp, 582).
FetchMutex ==
    \A v, w \in Executors :
        pc[v] \in Fetching /\ pc[w] \in Fetching => v = w

\* While the owner fills or clears the list, no thread works on it: a thread
\* that was given an older version finds out before it reads anything
\* (ParallelJobList.cpp, 445 and 545).
Quiescent ==
    \A w \in Executors : pc[w] \in Inside => ~done /\ Num > 0

\* A job list chained behind this one may start when the guard is down: then
\* every entry the owner added is executed (ParallelJobList.cpp, 610).
GuardMeansExecuted ==
    ~done /\ Num > 0 /\ doneGuards[currentDoneGuard] <= 0
        => \A i \in 1 .. Num - 1 : status[i] = "executed"

\* Jobs run inline are over when Submit returns, without the help of Wait.
InlineCompletes ==
    [][mpc = "inline" /\ mpc' = "submitted" => Count(LastGroup) <= 0]_vars

\* The counters of the fetch lock and of RunJobs count threads, at every step
\* in between their increments and decrements.
LockUsers == {w \in Executors : pc[w] \in Fetching \cup {"unlockKeep"}}
RunningThreads == {w \in Executors : pc[w] \in Labels \ {"idle"}}
Counted ==
    /\ fetchLock = Cardinality(LockUsers)
    /\ numThreadsExecuting = Cardinality(RunningThreads)

Phases ==
    /\ done <=> mpc = "build"
    /\ mpc \in {"inline", "handover", "counted", "drain"} => Num > 0

\* No thread holds an entry for a version to come, nor, once the owner has
\* withdrawn the list, for the present one.
Withdrawn == mpc \in {"build", "drain"} \/ Num = 0
Versions ==
    \A w \in Executors : \A e \in held[w] \cup {st[w]} :
        e.version <= version /\ (Withdrawn => e.version < version)

InsideCurrent ==
    \A w \in Executors : pc[w] \in Inside =>
        /\ mpc # "build" /\ Num > 0
        /\ mpc = "drain" \/ st[w].version = version

\* The inductive invariant behind FetchMutex and Quiescent.
Handshake ==
    /\ TypeOK
    /\ Counted
    /\ FetchMutex
    /\ Phases
    /\ Versions
    /\ InsideCurrent

\* The list as its owner sees it: DONE is not an entry of the owner's.
OwnerLength == IF Num > 0 /\ jobList[Num] = "done" THEN Num - 1 ELSE Num

Promise == INSTANCE JobListPromise WITH
    items <- SubSeq(jobList, 1, OwnerLength),
    status <- SubSeq(status, 1, OwnerLength),
    done <- done

\* Every entry runs once, in the order the sync points ask for, before Wait
\* returns.
KeepsPromise == Promise!Spec
-----------------------------------------------------------------------------
(* Progress.                                                                *)

\* Every thread is scheduled, and the owner of a submitted list waits for it.
Fairness ==
    /\ WF_vars(HandOver \/ SubmitReturns \/ WaitEmpty \/ WaitForCount
               \/ WaitIncrementVersion \/ WaitClear)
    /\ \A w \in Executors : WF_vars(Executor(w))

FairSpec == Spec /\ Fairness

\* Threads that fail to take the fetch lock may keep it from ever being free, each
\* counting it up before the other has counted it down.  Nothing in the code
\* excludes it but timing, which this assumption stands for: where it is tried again
\* and again, somebody gets it again and again.  It says nothing of threads that
\* do not come to try.
FetchLockGranted ==
    []<>(\E w \in Executors : pc[w] = "lock") => []<>(\E w \in Executors : pc[w] = "fetch")

\* A submitted list comes back to its owner: no sync point, stale entry or
\* returned job leaves the threads without anything to do while jobs remain.
WaitReturns == FetchLockGranted => (mpc # "build" ~> mpc = "build")
=============================================================================
