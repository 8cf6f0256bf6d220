---------------------------- MODULE WorkerThread ----------------------------
(***************************************************************************)
(* An idSysThread started as a worker (src/idlib/Thread.cpp), the signals   *)
(* it sleeps on (src/idlib/sys/posix/posix_thread.cpp), the owner that      *)
(* starts and stops it and the clients that signal work and wait for it.    *)
(*                                                                          *)
(* A section under signalMutex is one step: each signal is touched once in  *)
(* it, and nobody else reads the flags without the mutex but isTerminating, *)
(* which the worker reads in a step of its own.                             *)
(***************************************************************************)
EXTENDS Naturals

CONSTANTS
    Clients,            \* threads that call SignalWork and WaitForThread
    SpuriousWakeups,    \* pthread_cond_wait may return without a signal
    MaxSignals,         \* bound: SignalWork calls of a client between starts
    MaxStarts           \* bound: StartWorkerThread calls that start a thread

ASSUME WorkerAssumption ==
    /\ SpuriousWakeups \in BOOLEAN
    /\ MaxSignals \in Nat
    /\ MaxStarts \in Nat

VARIABLES
    isRunning, isTerminating, moreWorkToDo,
    workerDone,         \* signalWorkerDone.signaled (manual reset)
    moreWork,           \* signalMoreWorkToDo.signaled (automatic reset)
    wpc,                \* where the worker is in ThreadProc
    opc, cpc,           \* where the owner and the clients are
    starts,
    issued,             \* SignalWork calls of each client since the start
    begun,              \* of these, the ones the present Run can see
    served              \* of these, the ones a finished Run has seen

flags == <<isRunning, isTerminating, moreWorkToDo, workerDone, moreWork>>
work == <<issued, begun, served>>
workerVars == <<flags, wpc, opc, cpc, starts, work>>

WorkerInit ==
    /\ isRunning = FALSE
    /\ isTerminating = FALSE
    /\ moreWorkToDo = FALSE
    /\ workerDone = FALSE
    /\ moreWork = FALSE
    /\ wpc = "ended"
    /\ opc = "stopped"
    /\ cpc = [c \in Clients |-> "away"]
    /\ starts = 0
    /\ issued = [c \in Clients |-> 0]
    /\ begun = issued
    /\ served = issued

-----------------------------------------------------------------------------
(* Sys_SignalRaise, Sys_SignalWait.                                          *)

WakeTheOwner ==
    opc' = CASE opc = "startBlocked" -> "startWoken"
             [] opc = "stopBlocked" -> "stopWoken"
             [] OTHER -> opc

\* Raising a manual-reset signal wakes everybody who waits on it; the mutated
\* form wakes one client, as pthread_cond_signal would.
RaiseDoneToOne ==
    /\ workerDone' = TRUE
    /\ \/ \E c \in Clients : /\ cpc[c] = "blocked"
                              /\ cpc' = [cpc EXCEPT ![c] = "woken"]
       \/ (\A c \in Clients : cpc[c] # "blocked") /\ UNCHANGED cpc
    /\ WakeTheOwner
RaiseDone ==
    /\ workerDone' = TRUE
    /\ cpc' = [c \in Clients |-> IF cpc[c] = "blocked" THEN "woken" ELSE cpc[c]]
    /\ WakeTheOwner

\* Raising an automatic signal releases the waiting thread, or is remembered;
\* the mutated form forgets it, as a bare condition variable would.
RaiseMoreForgotten ==
    wpc' = (IF wpc = "asleep" THEN "woken" ELSE wpc) /\ UNCHANGED moreWork
RaiseMore ==
    IF wpc \in {"asleep", "woken"}
    THEN wpc' = "woken" /\ UNCHANGED moreWork
    ELSE moreWork' = TRUE /\ UNCHANGED wpc

-----------------------------------------------------------------------------
(* ThreadProc.                                                               *)

TakeWork ==
    /\ wpc = "loop"
    /\ moreWorkToDo
    /\ moreWorkToDo' = FALSE
    /\ moreWork' = FALSE
    /\ wpc' = "check"
    /\ UNCHANGED <<isRunning, isTerminating, workerDone, opc, cpc, starts,
                   work>>

ReportIdle ==
    /\ wpc = "loop"
    /\ ~moreWorkToDo
    /\ RaiseDone
    /\ wpc' = "wait"
    /\ UNCHANGED <<isRunning, isTerminating, moreWorkToDo, moreWork, starts,
                   work>>

\* signalMoreWorkToDo.Wait: a remembered signal is used up, or the worker
\* sleeps.
WaitForWork ==
    /\ wpc = "wait"
    /\ wpc' = IF moreWork THEN "loop" ELSE "asleep"
    /\ moreWork' = FALSE
    /\ UNCHANGED <<isRunning, isTerminating, moreWorkToDo, workerDone, opc,
                   cpc, starts, work>>

WakeWorker ==
    /\ wpc = "woken" \/ (SpuriousWakeups /\ wpc = "asleep")
    /\ wpc' = "loop"
    /\ UNCHANGED <<flags, opc, cpc, starts, work>>

\* Work that was signalled before Run is called is in its reach.
BeginRun ==
    /\ wpc = "check"
    /\ ~isTerminating
    /\ wpc' = "run"
    /\ begun' = issued
    /\ UNCHANGED <<flags, opc, cpc, starts, issued, served>>

EndRun ==
    /\ wpc = "run"
    /\ wpc' = "loop"
    /\ served' = begun
    /\ UNCHANGED <<flags, opc, cpc, starts, issued, begun>>

BreakLoop ==
    /\ wpc = "check"
    /\ isTerminating
    /\ wpc' = "break"
    /\ UNCHANGED <<flags, opc, cpc, starts, work>>

\* The raise behind the loop, for whoever waits in StopThread.
ExitSilently ==
    /\ wpc = "break"
    /\ wpc' = "exit"
    /\ UNCHANGED <<flags, opc, cpc, starts, work>>
LastRaise ==
    /\ wpc = "break"
    /\ RaiseDone
    /\ wpc' = "exit"
    /\ UNCHANGED <<isRunning, isTerminating, moreWorkToDo, moreWork, starts,
                   work>>

EndThread ==
    /\ wpc = "exit"
    /\ isRunning' = FALSE
    /\ wpc' = "ended"
    /\ UNCHANGED <<isTerminating, moreWorkToDo, workerDone, moreWork, opc,
                   cpc, starts, work>>

Worker ==
    \/ TakeWork \/ ReportIdle \/ WaitForWork \/ WakeWorker
    \/ BeginRun \/ EndRun \/ BreakLoop \/ LastRaise \/ EndThread

-----------------------------------------------------------------------------
(* The clients.  They call only between StartWorkerThread and StopThread.    *)

\* The done signal in SignalWork and StopThread; the mutated form keeps it.
KeepDone == UNCHANGED workerDone
ClearDone == workerDone' = FALSE

SignalWork(c) ==
    /\ opc = "running"
    /\ cpc[c] = "away"
    /\ issued[c] < MaxSignals
    /\ moreWorkToDo' = TRUE
    /\ ClearDone
    /\ RaiseMore
    /\ issued' = [issued EXCEPT ![c] = @ + 1]
    /\ UNCHANGED <<isRunning, isTerminating, opc, cpc, starts, begun, served>>

\* WaitForThread, and IsWorkDone where it answers yes.
WaitForThread(c) ==
    /\ opc = "running"
    /\ cpc[c] = "away"
    /\ cpc' = [cpc EXCEPT ![c] = IF workerDone THEN "returned" ELSE "blocked"]
    /\ UNCHANGED <<flags, wpc, opc, starts, work>>

\* Sys_SignalWait does not look at the signal again when it wakes up.
WakeClient(c) ==
    /\ cpc[c] = "woken" \/ (SpuriousWakeups /\ cpc[c] = "blocked")
    /\ cpc' = [cpc EXCEPT ![c] = "returned"]
    /\ UNCHANGED <<flags, wpc, opc, starts, work>>

Leave(c) ==
    /\ cpc[c] = "returned"
    /\ cpc' = [cpc EXCEPT ![c] = "away"]
    /\ UNCHANGED <<flags, wpc, opc, starts, work>>

Client(c) == SignalWork(c) \/ WaitForThread(c) \/ WakeClient(c) \/ Leave(c)

-----------------------------------------------------------------------------
(* The owner.                                                                *)

\* StartThread joins an earlier thread, clears isTerminating and creates one.
\* Work signalled before a stop is not owed after it: the counts start anew.
StartWorkerThread ==
    /\ opc = "stopped"
    /\ ~isRunning
    /\ starts < MaxStarts
    /\ wpc = "ended"
    /\ isTerminating' = FALSE
    /\ wpc' = "loop"
    /\ starts' = starts + 1
    /\ opc' = "created"
    /\ issued' = [c \in Clients |-> 0]
    /\ begun' = issued'
    /\ served' = issued'
    /\ UNCHANGED <<isRunning, moreWorkToDo, workerDone, moreWork, cpc>>

\* isRunning is set by the starter, while the thread runs.
MarkRunning ==
    /\ opc = "created"
    /\ isRunning' = TRUE
    /\ opc' = "starting"
    /\ UNCHANGED <<isTerminating, moreWorkToDo, workerDone, moreWork, wpc,
                   cpc, starts, work>>

WaitForStart ==
    /\ opc = "starting"
    /\ opc' = IF workerDone THEN "running" ELSE "startBlocked"
    /\ UNCHANGED <<flags, wpc, cpc, starts, work>>

StopThread ==
    /\ opc = "running"
    /\ \A c \in Clients : cpc[c] = "away"
    /\ isRunning
    /\ moreWorkToDo' = TRUE
    /\ ClearDone
    /\ isTerminating' = TRUE
    /\ RaiseMore
    /\ opc' = "stopping"
    /\ UNCHANGED <<isRunning, cpc, starts, work>>

WaitForStop ==
    /\ opc = "stopping"
    /\ opc' = IF workerDone THEN "stopped" ELSE "stopBlocked"
    /\ UNCHANGED <<flags, wpc, cpc, starts, work>>

WakeOwner ==
    /\ \/ /\ opc = "startWoken" \/ (SpuriousWakeups /\ opc = "startBlocked")
          /\ opc' = "running"
       \/ /\ opc = "stopWoken" \/ (SpuriousWakeups /\ opc = "stopBlocked")
          /\ opc' = "stopped"
    /\ UNCHANGED <<flags, wpc, cpc, starts, work>>

Owner ==
    \/ StartWorkerThread \/ MarkRunning \/ WaitForStart
    \/ StopThread \/ WaitForStop \/ WakeOwner

\* The program is over: the worker has ended and is not started again.
Finished ==
    /\ opc = "stopped"
    /\ wpc = "ended"
    /\ starts = MaxStarts
    /\ UNCHANGED workerVars

WorkerNext == Worker \/ (\E c \in Clients : Client(c)) \/ Owner \/ Finished

\* Every thread is scheduled, and the owner completes what it started; nobody
\* has to signal work, to wait for it or to stop the worker.
Fairness ==
    /\ WF_workerVars(Worker)
    /\ \A c \in Clients : WF_workerVars(WakeClient(c) \/ Leave(c))
    /\ WF_workerVars(MarkRunning \/ WaitForStart \/ WaitForStop \/ WakeOwner)

WorkerSpec == WorkerInit /\ [][WorkerNext]_workerVars
WorkerFairSpec == WorkerSpec /\ Fairness

-----------------------------------------------------------------------------
(* Properties.                                                               *)

WorkerLabels == {"loop", "wait", "asleep", "woken", "check", "run", "break",
                 "exit", "ended"}
OwnerLabels == {"stopped", "created", "starting", "startBlocked",
                "startWoken", "running", "stopping", "stopBlocked",
                "stopWoken"}
ClientLabels == {"away", "blocked", "woken", "returned"}

\* Every variable has its type.
WorkerTypeOK ==
    /\ isRunning \in BOOLEAN /\ isTerminating \in BOOLEAN
    /\ moreWorkToDo \in BOOLEAN /\ workerDone \in BOOLEAN
    /\ moreWork \in BOOLEAN
    /\ wpc \in WorkerLabels
    /\ opc \in OwnerLabels
    /\ cpc \in [Clients -> ClientLabels]
    /\ starts \in Nat
    /\ issued \in [Clients -> Nat]
    /\ begun \in [Clients -> Nat]
    /\ served \in [Clients -> Nat]

\* When WaitForThread returns, everything the caller signalled before is done
\* (Thread.h, 187: "wait for the worker thread to finish").
WaitMeansServed ==
    \A c \in Clients : cpc[c] = "returned" => served[c] = issued[c]

\* After StopThread( true ) has returned, Run is not called any more.
StoppedMeansOver ==
    opc = "stopped" => wpc \in {"exit", "ended"}

\* A worker sleeps only when there is nothing to do: no signal is lost between
\* its look at moreWorkToDo and its wait.
NoLostSignal ==
    wpc = "asleep" => ~moreWorkToDo

\* Of the calls of a client, a Run has seen no more than were issued.
Counters ==
    \A c \in Clients : served[c] <= begun[c] /\ begun[c] <= issued[c]

\* The owner's labels from start to stop.
Live == {"created", "starting", "startBlocked", "startWoken", "running"}

\* While the worker lives, the work of every client is still to be taken, is
\* being done or is done; signalWorkerDone is up only in the last case.
Accounted ==
    \A c \in Clients :
        /\ cpc[c] # "away" => opc = "running"
        /\ opc \in Live =>
              /\ \/ moreWorkToDo
                 \/ wpc = "check"
                 \/ wpc = "run" /\ begun[c] = issued[c]
                 \/ served[c] = issued[c]
              /\ workerDone => served[c] = issued[c]
        /\ cpc[c] \in {"woken", "returned"} => served[c] = issued[c]

Gone == {"exit", "ended"}

\* A running worker is not about to end; a worker that is being stopped has
\* the order to stop ahead of it.
StopOrder ==
    /\ opc \in Live => ~isTerminating /\ wpc \notin Gone \cup {"break"}
    /\ opc \in {"stopping", "stopBlocked"} =>
           /\ isTerminating
           /\ moreWorkToDo \/ wpc \in Gone \cup {"check", "break"}
           /\ workerDone => wpc \in Gone
    /\ opc \in {"stopWoken", "stopped"} => wpc \in Gone

\* A signal sent between the worker's look and its wait is remembered.
Remembered ==
    /\ wpc = "wait" /\ moreWorkToDo => moreWork
    /\ NoLostSignal

\* The inductive invariant behind the three safety properties.
Protocol == WorkerTypeOK /\ Counters /\ Accounted /\ StopOrder /\ Remembered

\* Whoever waits for the worker is released.
WaitEnds ==
    \A c \in Clients : cpc[c] = "blocked" ~> cpc[c] = "returned"

\* A stop is carried out, whatever the worker was doing.
StopEnds == opc = "stopping" ~> opc = "stopped"
=============================================================================
