----------------------------- MODULE ThreadProofs -----------------------------
(***************************************************************************)
(* Theorems about the threads of the program.  First the worker thread, for *)
(* any set of clients and any number of signals and restarts: what the end  *)
(* of a wait and of a stop mean where no wake-up is spurious.  Then the     *)
(* frame loop, for any number of frames, errors, changes of com_smp and     *)
(* reloads: the types, the rest of the frontend thread between frames, the  *)
(* separation of the two command buffers, and the fate of errors.  Two      *)
(* inductive invariants carry them: Pipeline (threads and buffers) and, on  *)
(* top of it, Settling (errors).                                            *)
(***************************************************************************)
EXTENDS WorkerThread, FrameLoop, TLAPS

-----------------------------------------------------------------------------
(* The worker thread.                                                      *)

\* The labels of the clients after signalWorkerDone is raised.
LEMMA RaiseDoneType ==
    ASSUME WorkerTypeOK, RaiseDone
    PROVE  cpc' \in [Clients -> ClientLabels] /\ opc' \in OwnerLabels
BY DEF WorkerTypeOK, RaiseDone, WakeTheOwner, ClientLabels, OwnerLabels

\* The Boolean variables; the other ones follow.
BooleansOK ==
    /\ isRunning \in BOOLEAN /\ isTerminating \in BOOLEAN
    /\ moreWorkToDo \in BOOLEAN /\ workerDone \in BOOLEAN
    /\ moreWork \in BOOLEAN

LEMMA StepBooleans == WorkerTypeOK /\ [WorkerNext]_workerVars => BooleansOK'
BY Zenon
   DEF WorkerTypeOK, BooleansOK, WorkerNext, Worker, TakeWork, ReportIdle, WaitForWork,
       WakeWorker, BeginRun, EndRun, BreakLoop, LastRaise, EndThread, Client,
       SignalWork, Leave, WaitForThread, WakeClient, Owner, StartWorkerThread,
       MarkRunning, WaitForStart, StopThread, WaitForStop, WakeOwner,
       Finished, RaiseDone, RaiseMore, ClearDone, workerVars, flags

LEMMA StepWorkerLabel == WorkerTypeOK /\ [WorkerNext]_workerVars => wpc' \in WorkerLabels
BY DEF WorkerTypeOK, WorkerNext, Worker, TakeWork, ReportIdle, WaitForWork,
       WakeWorker, BeginRun, EndRun, BreakLoop, LastRaise, EndThread, Client,
       SignalWork, Leave, WaitForThread, WakeClient, Owner, StartWorkerThread,
       MarkRunning, WaitForStart, StopThread, WaitForStop, WakeOwner,
       Finished, RaiseMore, workerVars, WorkerLabels

LEMMA StepOwnerLabel == WorkerTypeOK /\ [WorkerNext]_workerVars => opc' \in OwnerLabels
BY RaiseDoneType
   DEF WorkerTypeOK, WorkerNext, Worker, TakeWork, ReportIdle, WaitForWork,
       WakeWorker, BeginRun, EndRun, BreakLoop, LastRaise, EndThread, Client,
       SignalWork, Leave, WaitForThread, WakeClient, Owner, StartWorkerThread,
       MarkRunning, WaitForStart, StopThread, WaitForStop, WakeOwner,
       Finished, workerVars, OwnerLabels

LEMMA StepClientLabel ==
    WorkerTypeOK /\ [WorkerNext]_workerVars => cpc' \in [Clients -> ClientLabels]
<1> SUFFICES ASSUME WorkerTypeOK, [WorkerNext]_workerVars PROVE cpc' \in [Clients -> ClientLabels]
    OBVIOUS
<1>1. ASSUME NEW c \in Clients, NEW l \in ClientLabels,
             cpc' = [cpc EXCEPT ![c] = l]
      PROVE  cpc' \in [Clients -> ClientLabels]
    BY <1>1 DEF WorkerTypeOK
<1>2. CASE RaiseDone
    BY <1>2, RaiseDoneType
<1>3. CASE UNCHANGED cpc
    BY <1>3 DEF WorkerTypeOK
<1> QED BY <1>1, <1>2, <1>3
        DEF WorkerNext, Worker, TakeWork, ReportIdle, WaitForWork, WakeWorker,
            BeginRun, EndRun, BreakLoop, LastRaise, EndThread, Client,
            SignalWork, Leave, WaitForThread, WakeClient, Owner,
            StartWorkerThread, MarkRunning, WaitForStart, StopThread,
            WaitForStop, WakeOwner, Finished, workerVars, ClientLabels

LEMMA StepWork ==
    ASSUME WorkerTypeOK, [WorkerNext]_workerVars
    PROVE  /\ starts' \in Nat
           /\ issued' \in [Clients -> Nat]
           /\ begun' \in [Clients -> Nat]
           /\ served' \in [Clients -> Nat]
BY DEF WorkerTypeOK, WorkerNext, Worker, TakeWork, ReportIdle, WaitForWork,
       WakeWorker, BeginRun, EndRun, BreakLoop, LastRaise, EndThread, Client,
       SignalWork, Leave, WaitForThread, WakeClient, Owner, StartWorkerThread,
       MarkRunning, WaitForStart, StopThread, WaitForStop, WakeOwner,
       Finished, workerVars, work

LEMMA StepType == WorkerTypeOK /\ [WorkerNext]_workerVars => WorkerTypeOK'
BY StepBooleans, StepWorkerLabel, StepOwnerLabel, StepClientLabel, StepWork
   DEF WorkerTypeOK, BooleansOK

LEMMA InitProtocol == WorkerInit => Protocol
<1> SUFFICES ASSUME WorkerInit PROVE Protocol
    OBVIOUS
<1>1. BooleansOK
    BY Zenon DEF WorkerInit, BooleansOK
<1>2. WorkerTypeOK
    BY <1>1 DEF WorkerInit, WorkerTypeOK, BooleansOK, WorkerLabels, OwnerLabels,
                ClientLabels
<1>3. Counters
  <2> SUFFICES ASSUME NEW c \in Clients
               PROVE  served[c] <= begun[c] /\ begun[c] <= issued[c]
      BY DEF Counters
  <2>1. issued[c] = 0 /\ begun[c] = 0 /\ served[c] = 0
      BY DEF WorkerInit
  <2> QED BY <2>1
<1>4. Accounted
    BY DEF WorkerInit, Accounted
<1>5. StopOrder /\ Remembered
    BY DEF WorkerInit, StopOrder, Gone, Live, Remembered, NoLostSignal
<1> QED BY <1>2, <1>3, <1>4, <1>5 DEF Protocol

LEMMA StepCounters == WorkerTypeOK /\ Counters /\ [WorkerNext]_workerVars => Counters'
BY DEF WorkerTypeOK, Counters, WorkerNext, Worker, TakeWork, ReportIdle, WaitForWork,
       WakeWorker, BeginRun, EndRun, BreakLoop, LastRaise, EndThread, Client,
       SignalWork, Leave, WaitForThread, WakeClient, Owner, StartWorkerThread,
       MarkRunning, WaitForStart, StopThread, WaitForStop, WakeOwner,
       Finished, workerVars, work

LEMMA StepRemembered == WorkerTypeOK /\ Remembered /\ [WorkerNext]_workerVars => Remembered'
BY DEF WorkerTypeOK, Remembered, NoLostSignal, WorkerNext, Worker, TakeWork, ReportIdle,
       WaitForWork, WakeWorker, BeginRun, EndRun, BreakLoop, LastRaise,
       EndThread, Client, SignalWork, Leave, WaitForThread, WakeClient, Owner,
       StartWorkerThread, MarkRunning, WaitForStart, StopThread, WaitForStop,
       WakeOwner, Finished, RaiseMore, workerVars, flags

-----------------------------------------------------------------------------
(* Without spurious wake-ups a stop is carried out in order, and a client    *)
(* returns only when its work is done.                                       *)

LEMMA StepStopOrder ==
    ASSUME ~SpuriousWakeups, WorkerTypeOK, StopOrder, [WorkerNext]_workerVars
    PROVE  StopOrder'
<1>1. CASE Worker
    BY <1>1 DEF WorkerTypeOK, StopOrder, Gone, Worker, TakeWork, ReportIdle,
        WaitForWork, WakeWorker, BeginRun, EndRun, BreakLoop, LastRaise,
        EndThread, RaiseDone, WakeTheOwner, ClearDone, Live, flags, OwnerLabels,
        WorkerLabels
<1>2. ASSUME NEW c \in Clients, Client(c)
      PROVE  StopOrder'
    BY <1>2 DEF WorkerTypeOK, StopOrder, Gone, Client, SignalWork, Leave,
        WaitForThread, WakeClient, RaiseMore, ClearDone, Live, flags,
        OwnerLabels, WorkerLabels
<1>3. CASE Owner
    BY <1>3 DEF WorkerTypeOK, StopOrder, Gone, Owner, StartWorkerThread,
        MarkRunning, WaitForStart, StopThread, WaitForStop, WakeOwner,
        RaiseMore, ClearDone, Live, flags, OwnerLabels, WorkerLabels
<1>4. CASE UNCHANGED workerVars
    BY <1>4 DEF StopOrder, Gone, Live, workerVars, flags
<1> QED BY <1>1, <1>2, <1>3, <1>4 DEF WorkerNext, Finished

\* What Accounted says of one client.
ClientAccounted(c) ==
    /\ cpc[c] # "away" => opc = "running"
    /\ opc \in Live =>
          /\ \/ moreWorkToDo
             \/ wpc = "check"
             \/ wpc = "run" /\ begun[c] = issued[c]
             \/ served[c] = issued[c]
          /\ workerDone => served[c] = issued[c]
    /\ cpc[c] \in {"woken", "returned"} => served[c] = issued[c]

LEMMA StepAccounted ==
    ASSUME ~SpuriousWakeups, WorkerTypeOK, Counters, Accounted, StopOrder,
           [WorkerNext]_workerVars
    PROVE  Accounted'
<1> SUFFICES ASSUME NEW c \in Clients PROVE ClientAccounted(c)'
    BY DEF Accounted, ClientAccounted
<1>0. ClientAccounted(c)
    BY DEF Accounted, ClientAccounted
<1>o. /\ opc \in Live => ~isTerminating /\ wpc \notin Gone \cup {"break"}
      /\ "running" \in Live
    BY DEF StopOrder, Live
<1>1. CASE Worker
  <2>1. CASE RaiseDone /\ (ReportIdle \/ LastRaise)
    <3>1. /\ workerDone'
          /\ cpc'[c] = IF cpc[c] = "blocked" THEN "woken" ELSE cpc[c]
          /\ opc = "running" => opc' = "running"
          /\ opc' \in Live => opc \in Live
        BY <2>1 DEF RaiseDone, WakeTheOwner, Live
    <3>2. /\ UNCHANGED moreWorkToDo /\ UNCHANGED issued
          /\ UNCHANGED begun /\ UNCHANGED served
          /\ wpc \in {"loop", "break"}
          /\ wpc = "loop" => ~moreWorkToDo
        BY <2>1 DEF ReportIdle, LastRaise, work
    <3>3. opc \in Live => served[c] = issued[c]
        BY <1>0, <1>o, <3>2 DEF ClientAccounted
    <3>4. cpc'[c] # "away" => opc' = "running" /\ opc = "running"
        BY <1>0, <3>1 DEF ClientAccounted
    <3> QED BY <1>o, <3>1, <3>2, <3>3, <3>4 DEF ClientAccounted
  <2>2. CASE TakeWork
    BY <1>0, <2>2 DEF ClientAccounted, TakeWork, work
  <2>3. CASE WaitForWork \/ WakeWorker
    BY <1>0, <2>3 DEF ClientAccounted, WaitForWork, WakeWorker, flags, work
  <2>4. CASE BeginRun
    BY <1>0, <2>4 DEF ClientAccounted, BeginRun, flags, work
  <2>5. CASE EndRun
    <3>1. /\ served[c] <= begun[c] /\ begun[c] <= issued[c]
          /\ served[c] \in Nat /\ begun[c] \in Nat /\ issued[c] \in Nat
        BY DEF Counters, WorkerTypeOK
    <3>2. /\ wpc = "run" /\ wpc' = "loop" /\ served' = begun
          /\ begun' = begun /\ issued' = issued /\ cpc' = cpc
          /\ opc' = opc /\ workerDone' = workerDone
          /\ moreWorkToDo' = moreWorkToDo
        BY <2>5 DEF EndRun, flags
    <3>3. served[c] = issued[c] => begun[c] = issued[c]
        BY <3>1
    <3> QED BY <1>0, <3>2, <3>3 DEF ClientAccounted
  <2>6. CASE BreakLoop \/ EndThread
    BY <1>0, <1>o, <2>6
       DEF ClientAccounted, BreakLoop, EndThread, flags, work, Gone
  <2> QED BY <1>1, <2>1, <2>2, <2>3, <2>4, <2>5, <2>6
          DEF Worker, ReportIdle, LastRaise
<1>2. ASSUME NEW d \in Clients, Client(d)
      PROVE  ClientAccounted(c)'
    BY <1>0, <1>o, <1>2 DEF WorkerTypeOK, ClientAccounted, Client, SignalWork, Leave,
        WaitForThread, WakeClient, RaiseMore, ClearDone, flags, work,
        ClientLabels
<1>3. CASE Owner
  <2>1. CASE StartWorkerThread
    <3>1. /\ issued'[c] = 0 /\ served'[c] = 0
          /\ opc = "stopped" /\ opc' = "created" /\ cpc' = cpc
        BY <2>1 DEF StartWorkerThread
    <3> QED BY <1>0, <3>1 DEF ClientAccounted
  <2>2. CASE MarkRunning \/ WaitForStart
    BY <1>0, <2>2 DEF ClientAccounted, MarkRunning, WaitForStart, Live, flags,
        work
  <2>3. CASE StopThread
    <3>1. /\ opc' = "stopping" /\ cpc' = cpc /\ cpc[c] = "away"
        BY <2>3 DEF StopThread
    <3> QED BY <3>1 DEF ClientAccounted, Live
  <2>4. CASE WaitForStop \/ WakeOwner
    BY <1>0, <2>4 DEF ClientAccounted, WaitForStop, WakeOwner, Live, flags,
        work
  <2> QED BY <1>3, <2>1, <2>2, <2>3, <2>4 DEF Owner
<1>4. CASE UNCHANGED workerVars
    BY <1>0, <1>4 DEF ClientAccounted, workerVars, flags, work
<1> QED BY <1>1, <1>2, <1>3, <1>4 DEF WorkerNext, Finished

LEMMA StepProtocol ==
    ~SpuriousWakeups /\ Protocol /\ [WorkerNext]_workerVars => Protocol'
BY StepType, StepCounters, StepAccounted, StepStopOrder, StepRemembered
   DEF Protocol

\* The inductive invariant of the protocol between worker, owner and clients
\* (ThreadProc, SignalWork, WaitForThread, StopThread) holds for any number of
\* clients, calls and restarts.
THEOREM ProtocolHolds == ~SpuriousWakeups => (WorkerSpec => []Protocol)
<1> SUFFICES ASSUME ~SpuriousWakeups PROVE WorkerSpec => []Protocol
    OBVIOUS
<1>1. WorkerInit => Protocol
    BY InitProtocol
<1>2. Protocol /\ [WorkerNext]_workerVars => Protocol'
    BY StepProtocol
<1> QED BY <1>1, <1>2, PTL DEF WorkerSpec

\* A client whose WaitForThread has returned finds its work done.
THEOREM WaitServes == ~SpuriousWakeups => (WorkerSpec => []WaitMeansServed)
<1> SUFFICES ASSUME ~SpuriousWakeups PROVE WorkerSpec => []WaitMeansServed
    OBVIOUS
<1>1. Protocol => WaitMeansServed
    BY DEF Protocol, Accounted, WaitMeansServed
<1> QED BY <1>1, ProtocolHolds, PTL

\* StopThread( true ) returns only when Run is not called any more.
THEOREM StopStops == ~SpuriousWakeups => (WorkerSpec => []StoppedMeansOver)
<1> SUFFICES ASSUME ~SpuriousWakeups PROVE WorkerSpec => []StoppedMeansOver
    OBVIOUS
<1>1. Protocol => StoppedMeansOver
    BY DEF Protocol, StopOrder, Gone, StoppedMeansOver
<1> QED BY <1>1, ProtocolHolds, PTL

\* No signal falls between the worker's look at moreWorkToDo and its wait,
\* spurious wake-ups or not.
THEOREM SignalsKept == WorkerSpec => []NoLostSignal
<1>1. WorkerInit => WorkerTypeOK /\ Remembered
    BY InitProtocol DEF Protocol
<1>2. WorkerTypeOK /\ Remembered /\ [WorkerNext]_workerVars => WorkerTypeOK' /\ Remembered'
    BY StepType, StepRemembered
<1>3. Remembered => NoLostSignal
    BY DEF Remembered
<1> QED BY <1>1, <1>2, <1>3, PTL DEF WorkerSpec

-----------------------------------------------------------------------------
(* The frame loop.                                                         *)

\* The type invariant in the parts the steps disturb together.
BooleanTypes ==
    /\ com_smp \in BOOLEAN /\ guiActive \in BOOLEAN
    /\ frontendActiveNow \in BOOLEAN /\ shutdownFrontend \in BOOLEAN
    /\ errorIndirection \in BOOLEAN

BufferTypes ==
    /\ smpFrame \in Buffers
    /\ frameData \in Buffers /\ backendFrameData \in Buffers
    /\ chain \in [Buffers -> SUBSET Commands]
    /\ shown \subseteq Commands

ErrorTypes ==
    /\ frontendException \in Codes \cup {NoError}
    /\ com_errorEntered \in Codes \cup {NoError}
    /\ code \in [Ends -> Codes \cup {NoError}]
    /\ caught \in Codes \cup {NoError}

LabelTypes == mpc \in MainLabels /\ fpc \in FrontendLabels

CounterTypes ==
    /\ frame \in 0 .. MaxFrames /\ steady \in 0 .. Settled
    /\ errors \in Nat /\ switches \in Nat /\ reloads \in Nat

LEMMA TypeParts ==
    TypeOK <=> /\ BooleanTypes /\ BufferTypes /\ ErrorTypes
               /\ LabelTypes /\ CounterTypes
BY DEF TypeOK, BooleanTypes, BufferTypes, ErrorTypes, LabelTypes, CounterTypes

LEMMA InitTypeOK == Init => TypeOK
<1> SUFFICES ASSUME Init PROVE TypeOK
    OBVIOUS
<1>1. BooleanTypes
    BY Zenon DEF Init, BooleanTypes
<1>2. BufferTypes
    <2>1. frameData \in Buffers
        BY DEF Init, Buffers
    <2>2. chain \in [Buffers -> SUBSET Commands]
        BY DEF Init
    <2> QED
        BY <2>1, <2>2 DEF Init, BufferTypes, Buffers
<1>3. ErrorTypes
    BY DEF Init, ErrorTypes
<1>4. LabelTypes
    BY DEF Init, LabelTypes, MainLabels, FrontendLabels
<1>5. CounterTypes
    BY FrameAssumption DEF Init, CounterTypes, Settled, FrameAssumption
<1> QED
    BY <1>1, <1>2, <1>3, <1>4, <1>5, TypeParts

\* A toggle moves both indices within smpFrameData and empties one chain.
LEMMA ToggleTypes ==
    ASSUME TypeOK, Toggle
    PROVE  /\ smpFrame' \in Buffers /\ frameData' \in Buffers
           /\ backendFrameData' \in Buffers
           /\ chain' \in [Buffers -> SUBSET Commands]
BY DEF TypeOK, Toggle, NextParity, NextBackend, Buffers

\* A command of a frame that has begun fits its buffer.
LEMMA EmitTypes ==
    ASSUME TypeOK, NEW n \in 1 .. MaxFrames, NEW part \in {"set", "draw"},
           Emit(n, part)
    PROVE  chain' \in [Buffers -> SUBSET Commands]
BY DEF TypeOK, Emit, Commands, Buffers

\* The code of an error is one of Codes.
LEMMA FailsTypes ==
    ASSUME TypeOK, NEW t \in Ends, NEW source, Fails(t, source)
    PROVE  /\ code' \in [Ends -> Codes \cup {NoError}]
           /\ errors' \in Nat
BY DEF TypeOK, Fails, ErrorCode, Codes

-----------------------------------------------------------------------------
(* Every step keeps the types.                                              *)

USE DEF Next, Request, MainStep, FrontendStep, Terminated, SwitchSmp, TryReload,
        MainFails, Quit, BeginFrame, Purge, PurgeAgain, Restart, Joined,
        ActivateFrontend, SerialTics, IssueRenderCommands, BackendFails,
        WaitForFrontendCompletion, EndFrame, ThrowMain, CatchWait, DoDrop,
        DoFatal, MainKilled, Killed, FrontendWakes, FrontendDraws,
        FrontendFails, ThrowFrontend, FrontendKilled, FrontendDone,
        vars, bufferVars, signalVars, errorVars, boundVars

LEMMA BooleanStep == BooleanTypes /\ [Next]_vars => BooleanTypes'
BY ZenonT(30) DEF BooleanTypes, ActiveAfterTics

LEMMA LabelStep == LabelTypes /\ [Next]_vars => LabelTypes'
BY DEF LabelTypes, MainLabels, FrontendLabels

LEMMA CounterStep == CounterTypes /\ [Next]_vars => CounterTypes'
BY FrameAssumption DEF FrameAssumption, CounterTypes, Settled, Fails

LEMMA BufferStep ==
    TypeOK /\ Order /\ Begun /\ [Next]_vars => BufferTypes'
<1> SUFFICES ASSUME TypeOK, Order, Begun, [Next]_vars PROVE BufferTypes'
    OBVIOUS
<1> USE DEF BufferTypes
<1>1. CASE Purge("purge") \/ Purge("purgeRestart") \/ PurgeAgain \/ EndFrame
    <2>1. Toggle /\ shown' = shown
        BY <1>1
    <2> QED
        BY <2>1, ToggleTypes DEF TypeOK
<1>2. CASE BeginFrame
    <2>1. frame + 1 \in 1 .. MaxFrames
        BY <1>2, FrameAssumption DEF TypeOK, FrameAssumption
    <2>2. chain' \in [Buffers -> SUBSET Commands]
        BY <1>2, <2>1, EmitTypes
    <2> QED
        BY <1>2, <2>2 DEF TypeOK
<1>3. CASE SerialTics \/ (FrontendStep /\ FrontendDraws)
    <2>1. frame \in 1 .. MaxFrames
        BY <1>3, FrameAssumption
           DEF TypeOK, FrameAssumption, Order, Begun, InEndFrame, Over
    <2>2. Emit(frame, "draw") \/ chain' = chain
        BY <1>3
    <2>3. chain' \in [Buffers -> SUBSET Commands]
        BY <2>1, <2>2, EmitTypes DEF TypeOK
    <2> QED
        BY <1>3, <2>3 DEF TypeOK
<1>4. CASE IssueRenderCommands
    BY <1>4 DEF TypeOK
<1>5. CASE UNCHANGED <<bufferVars, shown>>
    BY <1>5 DEF TypeOK
<1> QED
    BY <1>1, <1>2, <1>3, <1>4, <1>5

LEMMA ErrorStep == TypeOK /\ [Next]_vars => ErrorTypes'
<1> SUFFICES ASSUME TypeOK, [Next]_vars PROVE ErrorTypes'
    OBVIOUS
<1>1. code' \in [Ends -> Codes \cup {NoError}]
    <2>1. CASE code' = code
        BY <2>1 DEF TypeOK
    <2>2. CASE \E t \in Ends, source \in {"main", "frontend", "backend"} :
                    Fails(t, source)
        BY <2>2, FailsTypes
    <2>3. CASE DoDrop
        BY <2>3
    <2> QED
        BY <2>1, <2>2, <2>3 DEF Ends
<1>2. com_errorEntered' \in Codes \cup {NoError}
    BY DEF TypeOK, ErrorCode, Codes, EnteredAfterDrop, Ends
<1>3. /\ frontendException' \in Codes \cup {NoError}
      /\ caught' \in Codes \cup {NoError}
    BY DEF TypeOK, AfterRethrow, Ends
<1> QED
    BY <1>1, <1>2, <1>3 DEF ErrorTypes

LEMMA TypeStep == TypeOK /\ Order /\ Begun /\ [Next]_vars => TypeOK'
<1> SUFFICES ASSUME TypeOK, Order, Begun, [Next]_vars PROVE TypeOK'
    OBVIOUS
<1>1. BooleanTypes' /\ LabelTypes' /\ CounterTypes'
    BY BooleanStep, LabelStep, CounterStep, TypeParts
<1>2. BufferTypes' /\ ErrorTypes'
    BY BufferStep, ErrorStep
<1>3. TypeOK' <=> /\ BooleanTypes' /\ BufferTypes' /\ ErrorTypes'
                  /\ LabelTypes' /\ CounterTypes'
    BY DEF TypeOK, BooleanTypes, BufferTypes, ErrorTypes, LabelTypes,
           CounterTypes
<1> QED
    BY <1>1, <1>2, <1>3

-----------------------------------------------------------------------------
(* Every step keeps the rest of the invariant.                              *)

LEMMA OrderStep == TypeOK /\ Order /\ [Next]_vars => Order'
<1> SUFFICES ASSUME TypeOK, Order, [Next]_vars, ~Over'
             PROVE  Order'
    BY DEF Order
<1> USE DEF Order, Over, InEndFrame
<1>0. ~Over
    OBVIOUS
<1>1. frontendActiveNow' => com_smp' /\ mpc' \in InEndFrame
    <2> SUFFICES ASSUME frontendActiveNow'
                 PROVE  com_smp' /\ mpc' \in InEndFrame
        OBVIOUS
    <2>1. CASE ActivateFrontend
        BY <2>1
    <2>2. CASE WaitForFrontendCompletion \/ CatchWait
        BY <2>2 DEF FrontendIdle
    <2>3. CASE ThrowMain
        BY <2>3
    <2>4. CASE FrontendStep
        <3>1. frontendActiveNow /\ com_smp' = com_smp
            BY <2>4, Zenon DEF ActiveAfterTics
        <3>2. mpc' = mpc
            BY <2>4
        <3> QED
            BY <3>1, <3>2
    <2>5. CASE Request \/ Terminated \/ UNCHANGED vars
        BY <2>5
    <2>6. CASE \/ PurgeAgain \/ Restart \/ Joined \/ SerialTics
               \/ IssueRenderCommands \/ BackendFails \/ EndFrame
               \/ DoDrop \/ DoFatal \/ MainKilled
        BY <2>6
    <2> QED
        BY <2>1, <2>2, <2>3, <2>4, <2>5, <2>6
<1>2. fpc' \in {"tics", "error", "done"} => frontendActiveNow'
    <2> SUFFICES ASSUME fpc' \in {"tics", "error", "done"}
                 PROVE  frontendActiveNow'
        OBVIOUS
    <2>1. CASE FrontendStep
        <3>1. CASE FrontendWakes
            BY <3>1 DEF Wakes
        <3>2. CASE FrontendDraws \/ FrontendFails \/ ThrowFrontend
            BY <3>2
        <3>3. CASE FrontendKilled \/ FrontendDone
            BY <3>3
        <3> QED
            BY <2>1, <3>1, <3>2, <3>3
    <2>2. CASE Request \/ Terminated \/ UNCHANGED vars
        BY <2>2
    <2>3. CASE MainStep
        BY <2>3
    <2> QED
        BY <2>1, <2>2, <2>3
<1>3. shutdownFrontend' => mpc' \in {"restart", "shutdown"}
    OBVIOUS
<1>4. fpc' = "gone" => mpc' \in {"restart", "shutdown"}
    OBVIOUS
<1>5. mpc' \in InEndFrame \cup {"activate"} => errorIndirection'
    OBVIOUS
<1> QED
    BY <1>1, <1>2, <1>3, <1>4, <1>5

LEMMA BegunStep == TypeOK /\ Begun /\ [Next]_vars => Begun'
BY FrameAssumption DEF TypeOK, Begun, InEndFrame, FrameAssumption

LEMMA ParityStep == TypeOK /\ Parity /\ [Next]_vars => Parity'
<1> SUFFICES ASSUME TypeOK, Parity, [Next]_vars PROVE Parity'
    OBVIOUS
<1>1. Toggle /\ com_smp => /\ smpFrame' = 1 - smpFrame
                           /\ frameData' = smpFrame'
                           /\ backendFrameData' = frameData
    BY DEF Toggle, NextParity, NextBackend, TypeOK, Buffers
<1>2. CASE Purge("purge") \/ Purge("purgeRestart")
    <2>1. Toggle /\ com_smp' = com_smp /\ steady' = steady
        BY <1>2
    <2> QED
        BY <1>1, <2>1 DEF Parity, TypeOK, Buffers, Settled
<1>3. CASE PurgeAgain
    <2>1. /\ Toggle /\ com_smp' = com_smp /\ steady' = 2
          /\ mpc \in {"purge", "purgeRestart"}
        BY <1>3
    <2> QED
        BY <1>1, <2>1 DEF Parity, TypeOK, Buffers
<1>4. CASE EndFrame
    <2>1. /\ Toggle /\ com_smp' = com_smp
          /\ steady' = IF steady < Settled THEN steady + 1 ELSE Settled
          /\ mpc' = "frame"
        BY <1>4
    <2> QED
        BY <1>1, <2>1 DEF Parity, TypeOK, Buffers, Settled
<1>5. CASE SwitchSmp
    BY <1>5 DEF Parity
<1>6. CASE /\ UNCHANGED <<com_smp, steady, smpFrame, frameData, backendFrameData>>
           /\ mpc' \in {"purge", "purgeRestart"} => mpc' = mpc
    BY <1>6 DEF Parity
<1> QED
    BY <1>2, <1>3, <1>4, <1>5, <1>6

HIDE DEF Next, vars

LEMMA InvariantStep == Pipeline /\ [Next]_vars => Pipeline'
BY TypeStep, OrderStep, ParityStep, BegunStep DEF Pipeline

LEMMA InitInvariant == Init => Pipeline
<1> SUFFICES ASSUME Init PROVE Pipeline
    OBVIOUS
<1>1. Order
    BY Zenon DEF Init, Order, InEndFrame, Over
<1>2. Parity
    BY DEF Init, Parity
<1>3. Begun
    BY DEF Init, Begun, InEndFrame
<1> QED
    BY <1>1, <1>2, <1>3, InitTypeOK DEF Pipeline

\* The invariant holds of every behaviour.
LEMMA Invariant == Spec => []Pipeline
BY InitInvariant, InvariantStep, PTL DEF Spec

-----------------------------------------------------------------------------
(* Every step keeps the invariant about errors.                             *)

LEMMA PendingStep ==
    ASSUME Pipeline, Pending, [Next]_vars, reloads' = 0, ~Over'
    PROVE  Pending'
<1> USE DEF Next, vars, Over, InEndFrame
<1>0. reloads = 0 /\ ~Over /\ Order /\ ~TryReload
    BY DEF Pipeline, TypeOK
<1>1. errorIndirection' => mpc' \in InEndFrame \cup {"activate"}
    <2> SUFFICES ASSUME errorIndirection'
                 PROVE  mpc' \in InEndFrame \cup {"activate"}
        OBVIOUS
    <2>1. CASE Request \/ Terminated \/ UNCHANGED vars
        BY <1>0, <2>1 DEF Pending
    <2>2. CASE FrontendStep
        <3>1. errorIndirection /\ mpc' = mpc
            BY <1>0, <2>2, Zenon DEF Fails
        <3> QED
            BY <1>0, <3>1 DEF Pending
    <2>3. CASE WaitForFrontendCompletion \/ CatchWait
        BY <2>3
    <2>4. CASE ThrowMain
        BY <2>4
    <2>5. CASE \/ PurgeAgain \/ Restart \/ Joined \/ EndFrame \/ DoDrop
               \/ DoFatal
        BY <1>0, <2>5 DEF Pending
    <2>6. CASE \/ ActivateFrontend \/ SerialTics \/ IssueRenderCommands
               \/ BackendFails \/ MainKilled
        BY <2>6
    <2> QED
        BY <2>1, <2>2, <2>3, <2>4, <2>5, <2>6
<1>2. frontendException' # NoError => com_smp' /\ mpc' \in InEndFrame
    BY <1>0 DEF Pending, Pipeline, Order
<1>3. com_errorEntered' # NoError =>
          \/ mpc' \in {"catch", "raise", "shutdown"}
          \/ mpc' \in {"issue", "wait", "inside"}
             /\ frontendException' # NoError
    <2> SUFFICES ASSUME com_errorEntered' # NoError
                 PROVE  \/ mpc' \in {"catch", "raise", "shutdown"}
                        \/ /\ mpc' \in {"issue", "wait", "inside"}
                           /\ frontendException' # NoError
        OBVIOUS
    <2>1. CASE FrontendStep /\ ThrowFrontend
        <3>1. frontendActiveNow /\ mpc \in InEndFrame
            BY <1>0, <2>1 DEF Order
        <3>2. errorIndirection
            BY <1>0, <3>1 DEF Order
        <3>3. mpc' = mpc /\ frontendException' = code["frontend"]
            BY <2>1, <3>2
        <3>4. com_errorEntered' = code["frontend"]
            BY <2>1
        <3> QED
            BY <3>1, <3>3, <3>4
    <2>2. CASE FrontendStep /\ ~ThrowFrontend
        <3>1. /\ com_errorEntered' = com_errorEntered
              /\ frontendException' = frontendException /\ mpc' = mpc
            BY <2>2
        <3> QED
            BY <1>0, <3>1 DEF Pending
    <2>3. CASE ThrowMain
        BY <2>3
    <2>4. CASE WaitForFrontendCompletion
        <3>1. frontendException # NoError => com_smp
            BY <1>0 DEF Pending
        <3> QED
            BY <1>0, <2>4, <3>1 DEF Pending
    <2>5. CASE CatchWait \/ DoFatal
        BY <2>5
    <2>6. CASE DoDrop
        BY <2>6 DEF EnteredAfterDrop
    <2>7. CASE Request \/ Terminated \/ UNCHANGED vars
        BY <1>0, <2>7 DEF Pending
    <2>8. CASE \/ PurgeAgain \/ Restart \/ Joined \/ EndFrame
               \/ ActivateFrontend \/ SerialTics \/ MainKilled
        BY <1>0, <2>8 DEF Pending
    <2>9. CASE IssueRenderCommands \/ BackendFails
        BY <1>0, <2>9 DEF Pending
    <2> QED
        BY <2>1, <2>2, <2>3, <2>4, <2>5, <2>6, <2>7, <2>8, <2>9
<1> QED
    BY <1>1, <1>2, <1>3 DEF Pending

\* An error gets a code on the thread it is raised on, and on no other.
LEMMA FailsCode ==
    ASSUME TypeOK, NEW t \in Ends, NEW source, Fails(t, source)
    PROVE  /\ code'[t] # NoError
           /\ \A u \in Ends \ {t} : code'[u] = code[u]
<1>1. PICK kind \in Codes : code' = [code EXCEPT ![t] = ErrorCode(kind)]
    BY DEF Fails
<1>2. ErrorCode(kind) # NoError
    BY DEF ErrorCode, NoError
<1> QED
    BY <1>1, <1>2 DEF TypeOK

\* Only a handler forgets the codes; a failing thread records its own.
LEMMA CodeStep ==
    ASSUME TypeOK, [Next]_vars, ~DoDrop, NEW t \in Ends, code[t] # NoError
    PROVE  code'[t] # NoError
<1>1. CASE code' = code
    BY <1>1
<1>2. CASE \E u \in Ends, source \in {"main", "frontend", "backend"} :
               Fails(u, source)
    BY <1>2, FailsCode
<1> QED
    BY <1>1, <1>2 DEF Next, vars, Ends

LEMMA BlameStep ==
    ASSUME Pipeline, Pending, Blame, [Next]_vars, reloads' = 0, ~Over'
    PROVE  Blame'
<1> USE DEF Next, vars, Over, InEndFrame
<1>0. reloads = 0 /\ ~Over /\ Order /\ ~TryReload /\ TypeOK
    BY DEF Pipeline, TypeOK
<1>1. mpc' \in {"inside", "outside"} => code'["main"] # NoError
    <2> SUFFICES ASSUME mpc' \in {"inside", "outside"}
                 PROVE  code'["main"] # NoError
        OBVIOUS
    <2>1. CASE mpc \in {"inside", "outside"}
        <3>1. ~DoDrop /\ code["main"] # NoError
            BY <1>0, <2>1 DEF Blame
        <3> QED
            BY <1>0, <3>1, CodeStep DEF Ends
    <2>2. CASE mpc \notin {"inside", "outside"}
        <3>1. \E source \in {"main", "frontend", "backend"} :
                  Fails("main", source)
            BY <2>2
        <3> QED
            BY <1>0, <3>1, FailsCode DEF Ends
    <2> QED
        BY <2>1, <2>2
<1>2. fpc' = "error" => code'["frontend"] # NoError
    <2> SUFFICES ASSUME fpc' = "error" PROVE code'["frontend"] # NoError
        OBVIOUS
    <2>1. CASE fpc = "error"
        <3>1. ~DoDrop /\ code["frontend"] # NoError
            BY <1>0, <2>1 DEF Blame, Order
        <3> QED
            BY <1>0, <3>1, CodeStep DEF Ends
    <2>2. CASE fpc # "error"
        <3>1. Fails("frontend", "frontend")
            BY <2>2
        <3> QED
            BY <1>0, <3>1, FailsCode DEF Ends
    <2> QED
        BY <2>1, <2>2
<1>3. frontendException' # NoError => code'["frontend"] # NoError
    <2> SUFFICES ASSUME frontendException' # NoError
                 PROVE  code'["frontend"] # NoError
        OBVIOUS
    <2>1. CASE frontendException # NoError
        <3>1. ~DoDrop /\ code["frontend"] # NoError
            BY <1>0, <2>1 DEF Blame, Pending
        <3> QED
            BY <1>0, <3>1, CodeStep DEF Ends
    <2>2. CASE frontendException = NoError
        <3>1. fpc = "error" /\ ~DoDrop
            BY <2>2 DEF AfterRethrow
        <3>2. code["frontend"] # NoError
            BY <1>0, <3>1 DEF Blame
        <3> QED
            BY <1>0, <3>1, <3>2, CodeStep DEF Ends
    <2> QED
        BY <2>1, <2>2
<1>4. mpc' = "catch" /\ code'["main"] = NoError =>
          frontendException' = NoError /\ ~frontendActiveNow'
    <2> SUFFICES ASSUME mpc' = "catch", code'["main"] = NoError
                 PROVE  frontendException' = NoError /\ ~frontendActiveNow'
        OBVIOUS
    <2>1. ~DoDrop /\ code["main"] = NoError
        BY <1>0, CodeStep DEF Ends
    <2>2. CASE WaitForFrontendCompletion
        <3>1. com_smp /\ ~frontendActiveNow /\ frontendException' = NoError
            BY <2>2 DEF FrontendIdle, AfterRethrow
        <3>2. frontendActiveNow' = frontendActiveNow
            BY <2>2
        <3> QED
            BY <3>1, <3>2
    <2>3. CASE mpc = "catch"
        <3>1. frontendException = NoError /\ ~frontendActiveNow
            BY <1>0, <2>1, <2>3 DEF Blame
        <3>2. ~shutdownFrontend /\ fpc \notin {"tics", "error", "done"}
            BY <1>0, <2>3, <3>1 DEF Order
        <3>3. ~FrontendStep
            BY <3>1, <3>2 DEF Wakes
        <3>4. UNCHANGED <<frontendException, frontendActiveNow>>
            BY <2>3, <3>3
        <3> QED
            BY <3>1, <3>4
    <2>4. CASE ThrowMain
        <3>1. mpc = "inside"
            BY <2>4
        <3> QED
            BY <1>0, <2>1, <3>1 DEF Blame
    <2> QED
        BY <2>2, <2>3, <2>4
<1> QED
    BY <1>1, <1>2, <1>3, <1>4 DEF Blame

\* Both ways to an exception nobody catches take an error of each thread.
LEMMA CaughtStep ==
    ASSUME Pipeline, Pending, Blame, OneErrorIsCaught, [Next]_vars
    PROVE  OneErrorIsCaught'
<1> USE DEF Next, vars, Over, InEndFrame
<1> SUFFICES ASSUME mpc' = "dead", reloads' = 0, NEW t \in Ends
             PROVE  code'[t] # NoError
    BY DEF OneErrorIsCaught
<1>0. reloads = 0 /\ Order /\ ~DoDrop /\ TypeOK
    BY DEF Pipeline, TypeOK
<1>1. CASE mpc = "dead"
    BY <1>0, <1>1, CodeStep DEF OneErrorIsCaught
<1>2. CASE ~Over /\ CatchWait
    <2>1. frontendException # NoError
        BY <1>2
    <2>2. code["frontend"] # NoError /\ code["main"] # NoError
        BY <1>0, <1>2, <2>1 DEF Blame
    <2> QED
        BY <1>0, <2>2, CodeStep DEF Ends
<1>3. CASE ~Over /\ ThrowMain
    <2>1. mpc = "outside" /\ errorIndirection
        BY <1>3
    <2> QED
        BY <1>0, <1>3, <2>1 DEF Pending
<1>4. CASE ~Over /\ FrontendStep
    <2>1. fpc = "error" /\ ~errorIndirection
        BY <1>4
    <2>2. mpc \in InEndFrame
        BY <1>0, <1>4, <2>1 DEF Order
    <2> QED
        BY <1>0, <1>4, <2>1, <2>2 DEF Order
<1> QED
    BY <1>1, <1>2, <1>3, <1>4

LEMMA InitSettling == Init => Settling
<1> SUFFICES ASSUME Init PROVE Settling
    OBVIOUS
<1>1. Pending
    BY Zenon DEF Init, Pending, InEndFrame, NoError
<1>2. Blame
    BY DEF Init, Blame
<1>3. OneErrorIsCaught
    BY DEF Init, OneErrorIsCaught
<1> QED
    BY <1>1, <1>2, <1>3, InitInvariant DEF Settling

LEMMA SettlingStep == Settling /\ [Next]_vars => Settling'
<1> SUFFICES ASSUME Settling, [Next]_vars PROVE Settling'
    OBVIOUS
<1>1. Pipeline'
    BY InvariantStep DEF Settling
<1>2. Pending'
    BY PendingStep DEF Settling, Pending
<1>3. Blame'
    BY BlameStep DEF Settling, Blame
<1>4. OneErrorIsCaught'
    BY CaughtStep DEF Settling
<1> QED
    BY <1>1, <1>2, <1>3, <1>4 DEF Settling

\* The invariant about errors holds of every behaviour.
LEMMA AlwaysSettling == Spec => []Settling
BY InitSettling, SettlingStep, PTL DEF Spec

-----------------------------------------------------------------------------
(* Where the commands of a frame are until they are shown, while no error    *)
(* has cut a frame short.                                                    *)

Whole(n) == {<<n, "set">>, <<n, "draw">>}

\* No error is on its way.
NoneFailed ==
    /\ mpc \notin {"inside", "outside", "catch", "raise", "dead"}
    /\ fpc # "error" /\ frontendException = NoError
    /\ mpc = "restart" => steady <= 2

\* Without com_smp there is one buffer, from the first toggle on.
OneBuffer ==
    ~com_smp /\ (steady >= 1 \/ mpc \in {"purge", "purgeRestart"}) =>
        frameData = 0 /\ backendFrameData = 0

\* The toggles have put the buffers where com_smp wants them.
Separated == (com_smp /\ steady >= 2) \/ (~com_smp /\ steady >= 1)

\* The frontend, or the main thread in its place, has finished the frame.
Drawn ==
    \/ mpc = "issue" /\ ~frontendActiveNow
    \/ fpc = "done"
    \/ com_smp /\ mpc \in {"wait", "after"} /\ ~frontendActiveNow

\* The frame that is being made: its commands are in the frontend's buffer, or on
\* the screen already where the backend has the same buffer.
Making ==
    Separated =>
        /\ \/ mpc \in {"activate", "issue"}
           \/ com_smp /\ mpc \in {"wait", "after"}
           => <<frame, "set">> \in chain[frameData]
        /\ Drawn => <<frame, "draw">> \in chain[frameData]
        /\ ~com_smp /\ mpc \in {"wait", "after"} => Whole(frame) \subseteq shown

\* With com_smp, the frame before it: in the backend's buffer until the backend has
\* executed it.
Waiting ==
    com_smp /\ steady >= 3 =>
        /\ mpc = "frame" /\ frame > 0 =>
               Whole(frame) \subseteq chain[backendFrameData]
        /\ mpc \in {"activate", "issue"} /\ frame > 1 =>
               Whole(frame - 1) \subseteq chain[backendFrameData]
        /\ mpc \in {"wait", "after"} /\ frame > 1 =>
               Whole(frame - 1) \subseteq shown

\* What the screen has shown when the main loop begins a frame.
OnScreen ==
    mpc = "frame" =>
        /\ com_smp /\ steady = Settled /\ frame > 1 =>
               Whole(frame - 1) \subseteq shown
        /\ ~com_smp /\ steady >= 3 /\ frame > 0 => Whole(frame) \subseteq shown

Display ==
    errors = 0 => NoneFailed /\ OneBuffer /\ Making /\ Waiting /\ OnScreen

\* The inductive invariant about the way of the commands to the screen.
Displaying == Pipeline /\ Display

LEMMA InitDisplay == Init => Display
<1> SUFFICES ASSUME Init PROVE Display
    OBVIOUS
<1>1. NoneFailed
    BY DEF Init, NoneFailed
<1>2. OneBuffer
    BY DEF Init, OneBuffer
<1>3. Making
    BY DEF Init, Making, Drawn
<1>4. Waiting /\ OnScreen
    BY DEF Init, Waiting, OnScreen
<1> QED
    BY <1>1, <1>2, <1>3, <1>4 DEF Display

\* The steps that count no error.
Smooth ==
    \/ SwitchSmp \/ TryReload \/ Purge("purge") \/ Purge("purgeRestart")
    \/ PurgeAgain \/ Restart \/ Quit \/ Joined \/ BeginFrame
    \/ ActivateFrontend \/ (SerialTics /\ Emit(frame, "draw") /\ mpc' = "issue")
    \/ IssueRenderCommands \/ WaitForFrontendCompletion \/ EndFrame
    \/ FrontendWakes \/ FrontendDraws \/ FrontendDone
    \/ UNCHANGED vars

LEMMA SmoothStep ==
    ASSUME TypeOK, errors' = 0, NoneFailed, [Next]_vars
    PROVE  errors = 0 /\ Smooth
<1>1. errors \in Nat
    BY DEF TypeOK
<1>2. ~ThrowMain /\ ~CatchWait /\ ~DoDrop /\ ~DoFatal /\ ~ThrowFrontend
    BY DEF NoneFailed
<1>3. \A t, source : Fails(t, source) => errors' # 0
    BY <1>1 DEF Fails
<1>4. \A source : Killed(source) => errors' # 0
    BY <1>1
<1>5. ~MainFails /\ ~BackendFails /\ ~FrontendFails /\ ~MainKilled
      /\ ~FrontendKilled
    BY <1>3, <1>4, Zenon
<1>6. SerialTics => Emit(frame, "draw") /\ mpc' = "issue"
    BY <1>3, Zenon
<1>7. Smooth
    BY <1>2, <1>5, <1>6, Zenon DEF Next, Smooth
<1>8. errors = 0
    BY <1>7 DEF Smooth, vars
<1> QED
    BY <1>7, <1>8

LEMMA NoneFailedStep ==
    ASSUME TypeOK, NoneFailed, Smooth PROVE NoneFailed'
BY DEF NoneFailed, Smooth, TypeOK, vars

LEMMA OneBufferStep ==
    ASSUME OneBuffer, Smooth PROVE OneBuffer'
<1>1. CASE Purge("purge") \/ Purge("purgeRestart") \/ PurgeAgain \/ EndFrame
    <2>1. Toggle /\ com_smp' = com_smp
        BY <1>1
    <2> QED
        BY <2>1 DEF Toggle, NextBackend, OneBuffer
<1>2. CASE SwitchSmp
    BY <1>2 DEF OneBuffer
<1>3. CASE /\ UNCHANGED <<com_smp, steady, frameData, backendFrameData>>
           /\ mpc' \in {"purge", "purgeRestart"} => mpc' = mpc
    BY <1>3 DEF OneBuffer
<1>4. CASE UNCHANGED vars
    BY <1>4 DEF OneBuffer, vars
<1> QED
    BY <1>1, <1>2, <1>3, <1>4 DEF Smooth, Emit

\* The two buffers are apart, or they are one.
LEMMA ApartOrOne ==
    ASSUME Pipeline, OneBuffer, Separated
    PROVE  /\ com_smp => /\ frameData = smpFrame
                         /\ backendFrameData = 1 - smpFrame
                         /\ frameData # backendFrameData
           /\ ~com_smp => frameData = 0 /\ backendFrameData = 0
BY DEF Pipeline, TypeOK, Parity, OneBuffer, Separated, Buffers, Settled

LEMMA MakingStep ==
    ASSUME Pipeline, OneBuffer, Making, Smooth, ~Over PROVE Making'
<1> USE DEF Over, InEndFrame
<1>0. TypeOK /\ Order
    BY DEF Pipeline
<1>1. CASE mpc' \notin {"activate", "issue", "wait", "after"} /\ fpc' # "done"
    BY <1>1 DEF Making, Drawn
<1>2. CASE BeginFrame
    <2>1. <<frame', "set">> \in chain'[frameData'] /\ mpc' = "activate"
        BY <1>0, <1>2 DEF Emit, TypeOK
    <2>2. fpc' # "done"
        BY <1>0, <1>2 DEF Order
    <2> QED
        BY <2>1, <2>2 DEF Making, Drawn
<1>3. CASE ActivateFrontend
    <2>1. /\ frontendActiveNow' /\ mpc = "activate" /\ mpc' = "issue"
          /\ UNCHANGED <<com_smp, steady, frame, chain, frameData, fpc>>
        BY <1>3
    <2>2. fpc # "done"
        BY <1>0, <2>1 DEF Order
    <2> QED
        BY <2>1, <2>2 DEF Making, Drawn, Separated
<1>4. CASE SerialTics /\ Emit(frame, "draw") /\ mpc' = "issue"
    <2>1. <<frame, "draw">> \in chain'[frameData]
        BY <1>0, <1>4 DEF Emit, TypeOK
    <2>2. chain[frameData] \subseteq chain'[frameData]
        BY <1>0, <1>4 DEF Emit, TypeOK
    <2>3. mpc = "activate" /\ UNCHANGED <<com_smp, steady, frame, frameData>>
        BY <1>4
    <2> QED
        BY <1>4, <2>1, <2>2, <2>3 DEF Making, Separated
<1>5. CASE IssueRenderCommands
    <2>1. /\ mpc = "issue" /\ mpc' = "wait"
          /\ UNCHANGED <<com_smp, steady, frame, frameData, fpc,
                         backendFrameData, frontendActiveNow>>
        BY <1>5
    <2>2. SUFFICES ASSUME Separated PROVE Making'
        BY <2>1 DEF Making, Separated
    <2>3. CASE com_smp
        <3>1. chain'[frameData] = chain[frameData]
            BY <1>0, <1>5, <2>2, <2>3, ApartOrOne DEF TypeOK
        <3> QED
            BY <2>1, <2>2, <2>3, <3>1 DEF Making, Drawn
    <2>4. CASE ~com_smp
        <3>1. ~frontendActiveNow /\ fpc # "done"
            BY <1>0, <2>1, <2>4 DEF Order
        <3>2. Whole(frame) \subseteq chain[frameData]
            BY <2>1, <2>2, <3>1 DEF Making, Drawn, Whole
        <3>3. frameData = backendFrameData
            BY <2>2, <2>4, ApartOrOne
        <3>4. Whole(frame)' \subseteq shown'
            BY <1>5, <2>1, <3>2, <3>3 DEF Whole
        <3> QED
            BY <2>1, <2>4, <3>1, <3>4 DEF Making, Drawn
    <2> QED
        BY <2>3, <2>4
<1>6. CASE WaitForFrontendCompletion /\ mpc' = "after"
    <2>1. /\ mpc = "wait" /\ mpc' = "after"
          /\ UNCHANGED <<com_smp, steady, frame, frameData, fpc, chain, shown,
                         frontendActiveNow>>
        BY <1>6
    <2> QED
        BY <2>1 DEF Making, Drawn, Separated, Whole
<1>7. CASE FrontendDraws
    <2>1. frontendActiveNow /\ com_smp /\ mpc \in InEndFrame
        BY <1>0, <1>7 DEF Order
    <2>2. <<frame, "draw">> \in chain'[frameData]
        BY <1>0, <1>7 DEF Emit, TypeOK
    <2>3. chain[frameData] \subseteq chain'[frameData]
        BY <1>0, <1>7 DEF Emit, TypeOK
    <2>4. UNCHANGED <<com_smp, steady, frame, frameData, mpc>>
        BY <1>7
    <2> QED
        BY <2>1, <2>2, <2>3, <2>4 DEF Making, Separated
<1>8. CASE FrontendDone
    <2>1. /\ fpc = "done" /\ fpc' = "wait"
          /\ UNCHANGED <<com_smp, steady, frame, frameData, mpc, chain, shown>>
        BY <1>8
    <2> QED
        BY <2>1 DEF Making, Drawn, Separated, Whole
<1>9. CASE FrontendWakes
    <2>1. /\ fpc = "wait" /\ fpc' # "done"
          /\ UNCHANGED <<com_smp, steady, frame, frameData, mpc, chain, shown,
                         frontendActiveNow>>
        BY <1>9
    <2> QED
        BY <2>1 DEF Making, Drawn, Separated, Whole
<1>10. CASE UNCHANGED vars
    BY <1>10 DEF vars, Making, Drawn, Separated, Whole
<1>11. CASE \/ SwitchSmp \/ TryReload \/ Purge("purge") \/ Purge("purgeRestart")
            \/ PurgeAgain \/ Restart \/ Quit \/ Joined \/ EndFrame
    <2>1. mpc' \notin {"activate", "issue", "wait", "after"}
        BY <1>11
    <2>2. fpc' # "done"
        BY <1>0, <1>11 DEF Order
    <2> QED
        BY <1>1, <2>1, <2>2
<1>12. CASE WaitForFrontendCompletion /\ mpc' # "after"
    <2>1. mpc' = "catch" /\ UNCHANGED <<com_smp, steady, frame, frameData, fpc,
                                        chain, shown>>
        BY <1>12
    <2> QED
        BY <2>1 DEF Making, Drawn, Separated
<1> QED
    BY <1>2, <1>3, <1>4, <1>5, <1>6, <1>7, <1>8, <1>9, <1>10, <1>11, <1>12
       DEF Smooth

\* What EndFrame finds: the frame it ends is whole in the frontend's buffer, or
\* shown where there is one buffer.
LEMMA MadeAtTheEnd ==
    ASSUME Pipeline, Making, Separated, mpc = "after"
    PROVE  /\ com_smp => Whole(frame) \subseteq chain[frameData]
           /\ ~com_smp => Whole(frame) \subseteq shown
<1>1. ~frontendActiveNow
    BY DEF Pipeline, Order, Over, InEndFrame
<1> QED
    BY <1>1 DEF Making, Drawn, Whole

LEMMA WaitingStep ==
    ASSUME Pipeline, NoneFailed, OneBuffer, Making, Waiting, Smooth, ~Over
    PROVE  Waiting'
<1> USE DEF Over, InEndFrame
<1>0. TypeOK /\ Order
    BY DEF Pipeline
<1>1. CASE EndFrame
    <2>1. /\ mpc = "after" /\ mpc' = "frame" /\ Toggle
          /\ UNCHANGED <<com_smp, frame>>
          /\ steady' = IF steady < Settled THEN steady + 1 ELSE Settled
        BY <1>1
    <2>2. SUFFICES ASSUME com_smp, steady' >= 3
                   PROVE  Whole(frame) \subseteq chain'[backendFrameData']
        BY <2>1 DEF Waiting, Whole
    <2>3. steady >= 2
        BY <1>0, <2>1, <2>2 DEF TypeOK, Settled
    <2>4. Whole(frame) \subseteq chain[frameData]
        BY <2>1, <2>2, <2>3, MadeAtTheEnd DEF Separated
    <2>5. frameData = smpFrame
        BY <2>2, <2>3, ApartOrOne DEF Separated
    <2>6. backendFrameData' = frameData /\ frameData' # frameData
        BY <1>0, <2>1, <2>2, <2>5
           DEF Toggle, NextBackend, NextParity, TypeOK, Buffers
    <2>7. chain'[frameData] = chain[frameData]
        BY <1>0, <2>1, <2>6 DEF Toggle, TypeOK
    <2> QED
        BY <2>4, <2>6, <2>7
<1>2. CASE BeginFrame
    <2>1. /\ mpc = "frame" /\ mpc' = "activate" /\ frame' = frame + 1
          /\ UNCHANGED <<com_smp, steady, backendFrameData>>
        BY <1>2
    <2>2. chain[backendFrameData] \subseteq chain'[backendFrameData]
        BY <1>0, <1>2 DEF Emit, TypeOK
    <2>3. frame \in Nat /\ frame' - 1 = frame
        BY <1>0, <2>1, FrameAssumption DEF TypeOK, FrameAssumption
    <2>4. Waiting' <=>
              (com_smp /\ steady >= 3 /\ frame' > 1 =>
                   Whole(frame) \subseteq chain'[backendFrameData])
        BY <2>1, <2>3 DEF Waiting, Whole
    <2> QED
        BY <2>1, <2>2, <2>3, <2>4 DEF Waiting
<1>3. CASE \/ ActivateFrontend
           \/ SerialTics /\ Emit(frame, "draw") /\ mpc' = "issue"
           \/ FrontendDraws
    <2>1. /\ UNCHANGED <<com_smp, steady, backendFrameData, frame, shown>>
          /\ \/ mpc = "activate" /\ mpc' = "issue"
             \/ mpc' = mpc /\ mpc \in InEndFrame
        BY <1>0, <1>3 DEF Order
    <2>2. chain[backendFrameData] \subseteq chain'[backendFrameData]
        BY <1>0, <1>3 DEF Emit, TypeOK
    <2> QED
        BY <2>1, <2>2 DEF Waiting, Whole
<1>4. CASE IssueRenderCommands
    <2>1. /\ mpc = "issue" /\ mpc' = "wait"
          /\ UNCHANGED <<com_smp, steady, frame>>
          /\ chain[backendFrameData] \subseteq shown'
        BY <1>4
    <2> QED
        BY <2>1 DEF Waiting, Whole
<1>5. CASE WaitForFrontendCompletion
    <2>1. /\ mpc = "wait" /\ mpc' \in {"after", "catch"}
          /\ UNCHANGED <<com_smp, steady, frame, shown>>
        BY <1>5
    <2> QED
        BY <2>1 DEF Waiting, Whole
<1>6. CASE SwitchSmp \/ PurgeAgain
    <2>1. steady' \in {0, 2}
        BY <1>6
    <2> QED
        BY <2>1 DEF Waiting
<1>7. CASE Restart
    <2>1. mpc = "restart" /\ steady' = steady
        BY <1>7
    <2>2. steady \in 0 .. 2
        BY <1>0, <2>1 DEF NoneFailed, TypeOK, Settled
    <2> QED
        BY <2>1, <2>2 DEF Waiting
<1>8. CASE Purge("purge") \/ Purge("purgeRestart") \/ Quit \/ Joined
    <2>1. mpc' \notin {"frame", "activate", "issue", "wait", "after"}
        BY <1>8
    <2> QED
        BY <2>1 DEF Waiting
<1>9. CASE TryReload \/ FrontendWakes \/ FrontendDone \/ UNCHANGED vars
    <2>1. UNCHANGED <<com_smp, steady, frame, shown, chain, backendFrameData,
                      mpc>>
        BY <1>9 DEF vars
    <2> QED
        BY <2>1 DEF Waiting, Whole
<1> QED
    BY <1>1, <1>2, <1>3, <1>4, <1>5, <1>6, <1>7, <1>8, <1>9 DEF Smooth

LEMMA OnScreenStep ==
    ASSUME Pipeline, NoneFailed, Making, Waiting, OnScreen, Smooth, ~Over
    PROVE  OnScreen'
<1> USE DEF Over, InEndFrame
<1>0. TypeOK /\ Order
    BY DEF Pipeline
<1> SUFFICES ASSUME mpc' = "frame" PROVE OnScreen'
    BY DEF OnScreen
<1>1. CASE EndFrame
    <2>1. /\ mpc = "after" /\ UNCHANGED <<com_smp, frame, shown>>
          /\ steady' = IF steady < Settled THEN steady + 1 ELSE Settled
        BY <1>1
    <2>2. /\ steady' = Settled => steady >= 3
          /\ steady' >= 3 => steady >= 1
        BY <1>0, <2>1 DEF TypeOK, Settled
    <2>3. com_smp /\ steady' = Settled /\ frame > 1 =>
              Whole(frame - 1) \subseteq shown
        BY <2>1, <2>2 DEF Waiting
    <2>4. ~com_smp /\ steady' >= 3 => Whole(frame) \subseteq shown
        BY <2>1, <2>2, MadeAtTheEnd DEF Separated
    <2> QED
        BY <2>1, <2>3, <2>4 DEF OnScreen, Whole
<1>2. CASE SwitchSmp \/ PurgeAgain
    <2>1. steady' \in {0, 2}
        BY <1>2
    <2> QED
        BY <2>1 DEF OnScreen, Settled
<1>3. CASE Restart
    <2>1. mpc = "restart" /\ steady' = steady
        BY <1>3
    <2>2. steady \in 0 .. 2
        BY <1>0, <2>1 DEF NoneFailed, TypeOK, Settled
    <2> QED
        BY <2>1, <2>2 DEF OnScreen, Settled
<1>4. CASE TryReload \/ FrontendWakes \/ FrontendDone \/ FrontendDraws
           \/ UNCHANGED vars
    <2>1. UNCHANGED <<com_smp, steady, frame, shown, mpc>>
        BY <1>4 DEF vars
    <2> QED
        BY <2>1 DEF OnScreen, Whole
<1> QED
    BY <1>1, <1>2, <1>3, <1>4 DEF Smooth

LEMMA DisplayStep == Displaying /\ [Next]_vars => Displaying'
<1> SUFFICES ASSUME Displaying, [Next]_vars PROVE Displaying'
    OBVIOUS
<1>1. Pipeline'
    BY InvariantStep DEF Displaying
<1>2. Display'
    <2> SUFFICES ASSUME errors' = 0
                 PROVE  (NoneFailed /\ OneBuffer /\ Making /\ Waiting /\ OnScreen)'
        BY DEF Display
    <2>1. CASE Over
        <3>1. UNCHANGED vars
            BY <2>1 DEF Next, Over
        <3> QED
            BY <3>1 DEF vars, Displaying, Display, NoneFailed, OneBuffer, Making,
                Waiting, OnScreen, Separated, Drawn, Whole
    <2>2. CASE ~Over
        <3>1. errors = 0 => NoneFailed
            BY DEF Displaying, Display
        <3>2. errors \in Nat /\ errors' \in Nat
            BY <1>1 DEF Displaying, Pipeline, TypeOK
        <3>3. errors = 0
            BY <3>2 DEF Next, vars, Fails
        <3>4. errors = 0 /\ Smooth
            BY <3>1, <3>3, SmoothStep DEF Displaying, Pipeline
        <3> QED
            BY <2>2, <3>4, NoneFailedStep, OneBufferStep, MakingStep, WaitingStep,
               OnScreenStep DEF Displaying, Display, Pipeline
    <2> QED
        BY <2>1, <2>2
<1> QED
    BY <1>1, <1>2 DEF Displaying

\* The invariant about the commands holds of every behaviour.
LEMMA AlwaysDisplaying == Spec => []Displaying
<1>1. Init => Displaying
    BY InitInvariant, InitDisplay DEF Displaying
<1> QED
    BY <1>1, DisplayStep, PTL DEF Spec

-----------------------------------------------------------------------------
(* Theorems.                                                                *)

\* Every variable has its type; in particular frameData and backendFrameData
\* are indices of smpFrameData (R_ToggleSmpFrame).
THEOREM TypeCorrect == Spec => []TypeOK
<1>1. Pipeline => TypeOK
    BY DEF Pipeline
<1> QED
    BY Invariant, <1>1, PTL

\* Between frames, and while an error is raised, the frontend thread is at rest
\* (WaitForFrontendCompletion).
THEOREM FrontendRests == Spec => []FrontendAtRest
<1>1. Pipeline => FrontendAtRest
    <2> SUFFICES ASSUME Pipeline,
                        mpc \in {"frame", "purge", "purgeRestart", "after",
                                "outside", "raise"}
                 PROVE  fpc = "wait" /\ ~frontendActiveNow
        BY DEF FrontendAtRest
    <2>1. ~Over /\ mpc \notin InEndFrame /\ mpc \notin {"restart", "shutdown"}
        BY DEF Over, InEndFrame
    <2>2. fpc \in FrontendLabels
        BY DEF Pipeline, TypeOK
    <2> QED
        BY <2>1, <2>2 DEF Pipeline, Order, FrontendLabels
<1> QED
    BY Invariant, <1>1, PTL

\* Frontend and backend work on different buffers from the second toggle on
\* after a change of com_smp (R_ToggleSmpFrame).
THEOREM BuffersStayApart == Spec => []BuffersApart
<1>1. Pipeline => BuffersApart
    <2> SUFFICES ASSUME Pipeline, BothAtWork, steady >= 2
                 PROVE  frameData # backendFrameData
        BY DEF BuffersApart
    <2>1. com_smp
        BY DEF Pipeline, Order, BothAtWork, Over
    <2>2. smpFrame \in Buffers /\ steady \in Nat
        BY DEF Pipeline, TypeOK, Settled
    <2> QED
        BY <2>1, <2>2 DEF Pipeline, Parity, Buffers
<1> QED
    BY Invariant, <1>1, PTL

\* Unless a hot reload of a map has failed, an error leaves nothing behind when
\* the main loop begins the next frame: no exception of the frontend, no error
\* that counts as being handled, no indirection (idSessionLocal::EndFrame,
\* idCommonLocal::DoError).
THEOREM ErrorsSettle == Spec => []ErrorsSettled
<1>1. Settling => ErrorsSettled
    BY DEF Settling, Pending, ErrorsSettled, Over, InEndFrame
<1> QED
    BY AlwaysSettling, <1>1, PTL

\* An exception that nobody catches takes an error of each thread: the error
\* of one thread alone always reaches DoError (idSessionLocal::EndFrame).
THEOREM OneErrorCaught == Spec => []OneErrorIsCaught
<1>1. Settling => OneErrorIsCaught
    BY DEF Settling
<1> QED
    BY AlwaysSettling, <1>1, PTL
\* A frame in which nothing failed is shown whole, one frame after it was begun
\* at the latest (idSessionLocal::EndFrame, R_IssueRenderCommands,
\* R_ToggleSmpFrame).
THEOREM LatencyAtMostOne == Spec => []LatencyOne
<1>1. Displaying => LatencyOne
    <2> SUFFICES ASSUME Displaying, mpc = "frame", errors = 0, steady = Settled,
                        (IF com_smp THEN frame - 1 ELSE frame) > 0
                 PROVE  Whole(IF com_smp THEN frame - 1 ELSE frame)
                            \subseteq shown
        BY DEF LatencyOne, Whole
    <2>1. OnScreen /\ frame \in Nat
        BY FrameAssumption
           DEF Displaying, Display, Pipeline, TypeOK, FrameAssumption
    <2> QED
        BY <2>1 DEF OnScreen, Settled
<1> QED
    BY AlwaysDisplaying, <1>1, PTL
===============================================================================
