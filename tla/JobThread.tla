------------------------------ MODULE JobThread ------------------------------
(***************************************************************************)
(* The job threads (idJobThread) with the ring of submitted lists each one   *)
(* reads, and the job manager that fills the rings and frees lists           *)
(* (src/idlib/ParallelJobList.cpp, 918-1081 and 1241-1368).                  *)
(*                                                                          *)
(* A job list is reduced to what its threads and its owner see of it:        *)
(* ParallelJobList models the inside.  Of the worker thread the flags        *)
(* moreWorkToDo and signalWorkerDone are kept: WorkerThread models the rest. *)
(***************************************************************************)
EXTENDS Integers, Sequences, SequencesExt

CONSTANTS
    Lists,              \* job lists, one owner each
    None,               \* no list
    NumThreads,         \* job threads
    Capacity,           \* MAX_JOBLISTS, of the rings and the local tables
    CounterSize,        \* the ring counters are unsigned: 2^32
    NumDoneGuards,
    Priority,           \* of each list: 1 low, 2 medium, 3 high
    WaitsFor,           \* the list each list is chained to, or None
    MaxJobs,            \* bound: jobs of a list
    MaxVersion          \* bound: submissions of a list

Threads == 1 .. NumThreads

ASSUME JobThreadAssumption ==
    /\ None \notin Lists
    /\ NumThreads \in Nat
    /\ Capacity \in Nat \ {0}
    /\ CounterSize \in Nat /\ CounterSize % Capacity = 0
    /\ CounterSize > Capacity
    /\ NumDoneGuards \in Nat \ {0}
    /\ Priority \in [Lists -> 1 .. 3]
    /\ WaitsFor \in [Lists -> Lists \cup {None}]
    /\ MaxJobs \in Nat \ {0}
    /\ MaxVersion \in Nat

VARIABLES
    version,            \* of a list: submissions its owner has waited for
    left,               \* entries nobody took: 0 is JOB_LIST_DONE, -1 the end
    busy,               \* entries being executed
    doneGuards, currentDoneGuard, waitForGuard,
    opc,                \* where the owner of each list is
    todo,               \* threads the owner has still to serve, in order
    slots,              \* jobLists of each thread, with version
    firstJobList, lastJobList,
    moreWorkToDo, workerDone,
    tpc, table,         \* where a thread is; its local threadJobListState
    stalled, current,   \* lastStalledJobList, currentJobList (0 is none)
    single,
    added               \* the entries put in each ring and not yet fetched

listVars == <<version, left, busy, doneGuards, currentDoneGuard,
              waitForGuard>>
ownerVars == <<opc, todo>>
ringVars == <<slots, firstJobList, lastJobList, added>>
workVars == <<moreWorkToDo, workerDone>>
threadVars == <<tpc, table, stalled, current, single>>
vars == <<listVars, ownerVars, ringVars, workVars, threadVars>>

NoEntry == [list |-> None, version |-> 0]

Init ==
    /\ version = [l \in Lists |-> 0]
    /\ left = [l \in Lists |-> -1]
    /\ busy = [l \in Lists |-> 0]
    /\ doneGuards = [l \in Lists |-> [g \in 0 .. NumDoneGuards - 1 |-> 0]]
    /\ currentDoneGuard = [l \in Lists |-> 0]
    /\ waitForGuard = [l \in Lists |-> <<>>]
    /\ opc = [l \in Lists |-> "idle"]
    /\ todo = [l \in Lists |-> <<>>]
    /\ slots = [t \in Threads |-> [i \in 0 .. Capacity - 1 |-> NoEntry]]
    /\ firstJobList = [t \in Threads |-> 0]
    /\ lastJobList = [t \in Threads |-> 0]
    /\ added = [t \in Threads |-> <<>>]
    /\ moreWorkToDo = [t \in Threads |-> FALSE]
    /\ workerDone = [t \in Threads |-> TRUE]
    /\ tpc = [t \in Threads |-> "asleep"]
    /\ table = [t \in Threads |-> <<>>]
    /\ stalled = [t \in Threads |-> 0]
    /\ current = [t \in Threads |-> 0]
    /\ single = [t \in Threads |-> TRUE]

-----------------------------------------------------------------------------
(* The owner of a list: Submit, Wait, FreeJobList.                           *)

OwnerGoto(l, label) == opc' = [opc EXCEPT ![l] = label]

\* n jobs, handed to the first k threads.  Without threads the owner runs the
\* jobs in place; the last of them ends the run before JOB_LIST_DONE is taken.
\* A chained list is submitted when the submission it waits for has been made.
Submit(l, n, k) ==
    /\ opc[l] = "idle"
    /\ version[l] < MaxVersion
    /\ WaitsFor[l] # None => opc[WaitsFor[l]] \in {"idle", "submitted", "drain"}
    /\ waitForGuard' = [waitForGuard EXCEPT ![l] =
           IF WaitsFor[l] = None THEN <<>>
           ELSE <<WaitsFor[l], currentDoneGuard[WaitsFor[l]]>>]
    /\ currentDoneGuard' =
           [currentDoneGuard EXCEPT ![l] = (@ + 1) % NumDoneGuards]
    /\ doneGuards' = [doneGuards EXCEPT ![l][currentDoneGuard'[l]] = 1]
    /\ left' = [left EXCEPT ![l] = IF k = 0 THEN 0 ELSE n]
    /\ todo' = [todo EXCEPT ![l] = [i \in 1 .. k |-> i]]
    /\ OwnerGoto(l, IF k = 0 THEN "submitted" ELSE "lock")
    /\ UNCHANGED <<version, busy, ringVars, workVars, threadVars>>

\* AddJobList for the next thread: addJobMutex is taken, then the owner spins
\* until the ring has room.
HoldsMutex(l, t) ==
    opc[l] \in {"room", "publish"} /\ Head(todo[l]) = t

AddLock(l) ==
    /\ opc[l] = "lock"
    /\ \A m \in Lists : ~HoldsMutex(m, Head(todo[l]))
    /\ OwnerGoto(l, "room")
    /\ UNCHANGED <<listVars, todo, ringVars, workVars, threadVars>>

Minus(a, b) == (a - b) % CounterSize
RoomForOneMore(t) == Minus(lastJobList[t], firstJobList[t]) <= Capacity
RoomFor(t) == Minus(lastJobList[t], firstJobList[t]) < Capacity

AddWrite(l) ==
    LET t == Head(todo[l]) IN
    /\ opc[l] = "room"
    /\ RoomFor(t)
    /\ slots' = [slots EXCEPT ![t][lastJobList[t] % Capacity] =
                     [list |-> l, version |-> version[l]]]
    /\ OwnerGoto(l, "publish")
    /\ UNCHANGED <<listVars, todo, firstJobList, lastJobList, added, workVars,
                   threadVars>>

AddPublish(l) ==
    LET t == Head(todo[l]) IN
    /\ opc[l] = "publish"
    /\ lastJobList' = [lastJobList EXCEPT ![t] = (@ + 1) % CounterSize]
    /\ added' = [added EXCEPT ![t] =
                     Append(@, [list |-> l, version |-> version[l]])]
    /\ OwnerGoto(l, "signal")
    /\ UNCHANGED <<listVars, todo, slots, firstJobList, workVars, threadVars>>

SignalWork(l) ==
    LET t == Head(todo[l]) IN
    /\ opc[l] = "signal"
    /\ moreWorkToDo' = [moreWorkToDo EXCEPT ![t] = TRUE]
    /\ workerDone' = [workerDone EXCEPT ![t] = FALSE]
    /\ todo' = [todo EXCEPT ![l] = Tail(@)]
    /\ OwnerGoto(l, IF Len(todo[l]) = 1 THEN "submitted" ELSE "lock")
    /\ UNCHANGED <<listVars, ringVars, threadVars>>

\* Threads inside RunJobs of a list.
Inside(l) ==
    {t \in Threads : tpc[t] \in {"inside", "job"} /\ table[t][current[t]].list = l}

WaitVersion(l) ==
    /\ opc[l] = "submitted"
    /\ left[l] <= 0
    /\ busy[l] = 0
    /\ version' = [version EXCEPT ![l] = @ + 1]
    /\ OwnerGoto(l, "drain")
    /\ UNCHANGED <<left, busy, doneGuards, currentDoneGuard, waitForGuard,
                   todo, ringVars, workVars, threadVars>>

WaitClear(l) ==
    /\ opc[l] = "drain"
    /\ Inside(l) = {}
    /\ left' = [left EXCEPT ![l] = -1]
    /\ OwnerGoto(l, "idle")
    /\ UNCHANGED <<version, busy, doneGuards, currentDoneGuard, waitForGuard,
                   todo, ringVars, workVars, threadVars>>

AllThreads == [i \in 1 .. NumThreads |-> i]

\* FreeJobList waits for one worker after the other, then deletes the list.
Free(l) ==
    /\ opc[l] = "idle"
    /\ \A m \in Lists : WaitsFor[m] # l
    /\ todo' = [todo EXCEPT ![l] = AllThreads]
    /\ OwnerGoto(l, "freeing")
    /\ UNCHANGED <<listVars, ringVars, workVars, threadVars>>

NotWaited(t) == TRUE
WorkDone(t) == workerDone[t]

WaitForThread(l) ==
    /\ opc[l] = "freeing"
    /\ todo[l] # <<>>
    /\ WorkDone(Head(todo[l]))
    /\ todo' = [todo EXCEPT ![l] = Tail(@)]
    /\ UNCHANGED <<listVars, opc, ringVars, workVars, threadVars>>

Delete(l) ==
    /\ opc[l] = "freeing"
    /\ todo[l] = <<>>
    /\ OwnerGoto(l, "freed")
    /\ UNCHANGED <<listVars, todo, ringVars, workVars, threadVars>>

Goes(l) ==
    \/ AddLock(l) \/ AddWrite(l) \/ AddPublish(l) \/ SignalWork(l)
    \/ WaitVersion(l) \/ WaitClear(l) \/ WaitForThread(l) \/ Delete(l)

Owner(l) ==
    \/ \E n \in 1 .. MaxJobs, k \in 0 .. NumThreads : Submit(l, n, k)
    \/ Free(l)
    \/ Goes(l)

-----------------------------------------------------------------------------
(* idJobThread::Run, called by the worker loop whenever there is work.       *)

Goto(t, label) == tpc' = [tpc EXCEPT ![t] = label]

TakeWork(t) ==
    /\ tpc[t] \in {"asleep", "returned"}
    /\ moreWorkToDo[t]
    /\ moreWorkToDo' = [moreWorkToDo EXCEPT ![t] = FALSE]
    /\ stalled' = [stalled EXCEPT ![t] = 0]
    /\ Goto(t, "fetch")
    /\ UNCHANGED <<listVars, ownerVars, ringVars, workerDone, table, current,
                   single>>

ReportIdle(t) ==
    /\ tpc[t] = "returned"
    /\ ~moreWorkToDo[t]
    /\ workerDone' = [workerDone EXCEPT ![t] = TRUE]
    /\ Goto(t, "asleep")
    /\ UNCHANGED <<listVars, ownerVars, ringVars, moreWorkToDo, table, stalled,
                   current, single>>

\* The comparison of the counters is plain: it fails when they wrap around.
NotEmptyButOne(t) == firstJobList[t] + 1 < lastJobList[t]
NotEmpty(t) == firstJobList[t] < lastJobList[t]

Fetch(t) ==
    /\ tpc[t] = "fetch"
    /\ Goto(t, IF Len(table[t]) < Capacity /\ NotEmpty(t) THEN "copy"
               ELSE IF table[t] = <<>> THEN "returned" ELSE "choose")
    /\ UNCHANGED <<listVars, ownerVars, ringVars, workVars, table, stalled,
                   current, single>>

Copy(t) ==
    /\ tpc[t] = "copy"
    /\ table' = [table EXCEPT ![t] =
                     Append(@, slots[t][firstJobList[t] % Capacity])]
    /\ Goto(t, "advance")
    /\ UNCHANGED <<listVars, ownerVars, ringVars, workVars, stalled, current,
                   single>>

Advance(t) ==
    /\ tpc[t] = "advance"
    /\ firstJobList' = [firstJobList EXCEPT ![t] = (@ + 1) % CounterSize]
    /\ added' = [added EXCEPT ![t] = Tail(@)]
    /\ Goto(t, "choose")
    /\ UNCHANGED <<listVars, ownerVars, slots, lastJobList, workVars, table,
                   stalled, current, single>>

WaitForOtherJobList(l) ==
    waitForGuard[l] # <<>> /\ doneGuards[waitForGuard[l][1]][waitForGuard[l][2]] > 0

PriorityOf(t, i) == Priority[table[t][i].list]
Ready(t) ==
    {i \in 1 .. Len(table[t]) : ~WaitForOtherJobList(table[t][i].list)}

\* The first ready list of the highest priority; all lists waiting, the first
\* list there is, with no priority.
FirstBest(t) ==
    IF Ready(t) = {} THEN 1
    ELSE CHOOSE i \in Ready(t) : \A j \in Ready(t) \ {i} :
             \/ PriorityOf(t, i) > PriorityOf(t, j)
             \/ PriorityOf(t, i) = PriorityOf(t, j) /\ i < j

\* After a stall: the last ready list of the highest priority that is not below
\* that of the stalled list; without one, the stalled list.
Relief(t) ==
    {i \in Ready(t) \ {stalled[t]} :
         PriorityOf(t, i) >= PriorityOf(t, stalled[t])}
LastRelief(t) ==
    IF Relief(t) = {} THEN stalled[t]
    ELSE CHOOSE i \in Relief(t) : \A j \in Relief(t) \ {i} :
             \/ PriorityOf(t, i) > PriorityOf(t, j)
             \/ PriorityOf(t, i) = PriorityOf(t, j) /\ i > j

Choose(t) ==
    /\ tpc[t] = "choose"
    /\ current' = [current EXCEPT ![t] =
                       IF stalled[t] = 0 THEN FirstBest(t) ELSE LastRelief(t)]
    /\ single' = [single EXCEPT ![t] =
                      \/ stalled[t] = 0 /\ Ready(t) = {}
                      \/ PriorityOf(t, current'[t]) < 3]
    /\ Goto(t, "enter")
    /\ UNCHANGED <<listVars, ownerVars, ringVars, workVars, table, stalled>>

-----------------------------------------------------------------------------
(* RunJobs on the chosen list, and what Run does with the result.            *)

CurrentList(t) == table[t][current[t]].list

\* RUN_DONE: the list leaves the local table.
KeepCurrent(t) == UNCHANGED table
RemoveCurrent(t) ==
    table' = [table EXCEPT ![t] = RemoveAt(@, current[t])]

DoneKeepStalled(t) ==
    /\ RemoveCurrent(t)
    /\ Goto(t, "fetch")
    /\ UNCHANGED stalled
Done(t) ==
    /\ RemoveCurrent(t)
    /\ stalled' = [stalled EXCEPT ![t] = 0]
    /\ Goto(t, "fetch")

Outdated(t) ==
    /\ tpc[t] = "enter"
    /\ table[t][current[t]].version # version[CurrentList(t)]
    /\ Done(t)
    /\ UNCHANGED <<listVars, ownerVars, ringVars, workVars, current, single>>

Enter(t) ==
    /\ tpc[t] = "enter"
    /\ table[t][current[t]].version = version[CurrentList(t)]
    /\ Goto(t, "inside")
    /\ UNCHANGED <<listVars, ownerVars, ringVars, workVars, table, stalled,
                   current, single>>

\* RUN_STALLED: JOB_LIST_DONE is next and jobs are still running, or another
\* thread has the fetch lock.
Stall(t) ==
    LET l == CurrentList(t) IN
    /\ tpc[t] = "inside"
    /\ \/ left[l] = 0 /\ busy[l] > 0
       \/ Inside(l) # {t}
    /\ stalled' = [stalled EXCEPT ![t] = current[t]]
    /\ Goto(t, "fetch")
    /\ UNCHANGED <<listVars, ownerVars, ringVars, workVars, table, current,
                   single>>

TakeJob(t) ==
    LET l == CurrentList(t) IN
    /\ tpc[t] = "inside"
    /\ left[l] > 0
    /\ left' = [left EXCEPT ![l] = @ - 1]
    /\ busy' = [busy EXCEPT ![l] = @ + 1]
    /\ Goto(t, "job")
    /\ UNCHANGED <<version, doneGuards, currentDoneGuard, waitForGuard,
                   ownerVars, ringVars, workVars, table, stalled, current,
                   single>>

FinishJob(t) ==
    LET l == CurrentList(t) IN
    /\ tpc[t] = "job"
    /\ busy' = [busy EXCEPT ![l] = @ - 1]
    /\ IF left[l] = 0 /\ busy[l] = 1 THEN Done(t)
       ELSE /\ Goto(t, IF single[t] THEN "fetch" ELSE "inside")
            /\ stalled' = [stalled EXCEPT ![t] = IF single[t] THEN 0 ELSE @]
            /\ UNCHANGED table
    /\ UNCHANGED <<version, left, doneGuards, currentDoneGuard, waitForGuard,
                   ownerVars, ringVars, workVars, current, single>>

\* JOB_LIST_DONE takes the guard down and runs as a job of its own.
TakeDone(t) ==
    LET l == CurrentList(t) IN
    /\ tpc[t] = "inside"
    /\ left[l] = 0
    /\ busy[l] = 0
    /\ left' = [left EXCEPT ![l] = -1]
    /\ doneGuards' = [doneGuards EXCEPT ![l][currentDoneGuard[l]] = @ - 1]
    /\ Goto(t, IF single[t] THEN "fetch" ELSE "inside")
    /\ stalled' = [stalled EXCEPT ![t] = IF single[t] THEN 0 ELSE @]
    /\ UNCHANGED <<version, busy, currentDoneGuard, waitForGuard, ownerVars,
                   ringVars, workVars, table, current, single>>

PastEnd(t) ==
    /\ tpc[t] = "inside"
    /\ left[CurrentList(t)] = -1
    /\ Done(t)
    /\ UNCHANGED <<listVars, ownerVars, ringVars, workVars, current, single>>

Granted(t) == TakeJob(t) \/ TakeDone(t) \/ PastEnd(t)

JobThread(t) ==
    \/ TakeWork(t) \/ ReportIdle(t) \/ Fetch(t) \/ Copy(t) \/ Advance(t)
    \/ Choose(t) \/ Outdated(t) \/ Enter(t) \/ Stall(t) \/ FinishJob(t)
    \/ Granted(t)

\* The program is over; a list that others are chained to may be left.
AllOver ==
    /\ \A l \in Lists :
           \/ opc[l] = "freed"
           \/ /\ opc[l] = "idle"
              /\ \E m \in Lists : WaitsFor[m] = l
    /\ UNCHANGED vars

Next ==
    \/ \E l \in Lists : Owner(l)
    \/ \E t \in Threads : JobThread(t)
    \/ AllOver

\* Threads run and owners go on with what they began; a thread that asks for
\* the fetch lock again and again gets it.
Fairness ==
    /\ \A l \in Lists : WF_vars(Goes(l))
    /\ \A t \in Threads : WF_vars(JobThread(t)) /\ SF_vars(Granted(t))

Spec == Init /\ [][Next]_vars
FairSpec == Spec /\ Fairness

-----------------------------------------------------------------------------
(* Properties.                                                               *)

Entry == [list : Lists, version : Nat]
OwnerLabels == {"idle", "lock", "room", "publish", "signal", "submitted",
                "drain", "freeing", "freed"}
ThreadLabels == {"asleep", "returned", "fetch", "copy", "advance", "choose",
                 "enter", "inside", "job"}

ListTypeOK ==
    /\ version \in [Lists -> Nat]
    /\ left \in [Lists -> Int]
    /\ busy \in [Lists -> Int]
    /\ doneGuards \in [Lists -> [0 .. NumDoneGuards - 1 -> Int]]
    /\ currentDoneGuard \in [Lists -> 0 .. NumDoneGuards - 1]
    /\ waitForGuard \in
           [Lists -> {<<>>} \cup (Lists \X (0 .. NumDoneGuards - 1))]
    /\ opc \in [Lists -> OwnerLabels]
    /\ todo \in [Lists -> Seq(Threads)]

RingTypeOK ==
    /\ slots \in [Threads -> [0 .. Capacity - 1 -> Entry \cup {NoEntry}]]
    /\ firstJobList \in [Threads -> 0 .. CounterSize - 1]
    /\ lastJobList \in [Threads -> 0 .. CounterSize - 1]
    /\ added \in [Threads -> Seq(Entry)]

ThreadTypeOK ==
    /\ moreWorkToDo \in [Threads -> BOOLEAN]
    /\ workerDone \in [Threads -> BOOLEAN]
    /\ tpc \in [Threads -> ThreadLabels]
    /\ table \in [Threads -> Seq(Entry)]
    /\ stalled \in [Threads -> Nat]
    /\ current \in [Threads -> Nat]
    /\ single \in [Threads -> BOOLEAN]

\* Every variable has its type.
TypeOK == ListTypeOK /\ RingTypeOK /\ ThreadTypeOK

\* The ring is a queue of at most Capacity entries: no entry is overwritten
\* before its thread has copied it, and the counters delimit what was added.
RingIntact ==
    \A t \in Threads :
        /\ Len(added[t]) <= Capacity
        /\ Minus(lastJobList[t], firstJobList[t]) = Len(added[t])
        /\ \A i \in 1 .. Len(added[t]) :
               slots[t][(firstJobList[t] + i - 1) % Capacity] = added[t][i]

\* What a ring or a local table refers to.
Known(t) ==
    {added[t][i].list : i \in 1 .. Len(added[t])}
        \cup {table[t][i].list : i \in 1 .. Len(table[t])}

\* The indices Run keeps across iterations name entries of the local table.
IndicesInTable(t) ==
    /\ Len(table[t]) <= Capacity
    /\ stalled[t] <= Len(table[t])
    /\ tpc[t] \in {"enter", "inside", "job"} => current[t] \in 1 .. Len(table[t])

\* No thread refers to a list that was deleted, in its ring or in its table, nor to
\* an entry that is no longer in the table.
NoUseAfterFree ==
    \A t \in Threads : IndicesInTable(t) /\ \A l \in Known(t) : opc[l] # "freed"

\* Every submission is carried through, the wait for room in a ring included.
SubmissionEnds ==
    \A l \in Lists : opc[l] = "lock" ~> opc[l] = "idle"

\* FreeJobList returns.
FreeEnds ==
    \A l \in Lists : opc[l] = "freeing" ~> opc[l] = "freed"
=============================================================================
