------------------------------ MODULE FrameLoop ------------------------------
(***************************************************************************)
(* The frame loop of the program: the main thread runs the renderer backend *)
(* on the commands of the previous frame while the frontend thread runs the *)
(* game tics and writes the commands of this one (idSessionLocal and        *)
(* idRenderSystemLocal::EndFrame), with the two command buffers they swap   *)
(* and the way an error on either thread reaches the main loop.             *)
(*                                                                          *)
(* A wait on a condition variable loops on its predicate in the code and is *)
(* a step that awaits the predicate here.  A command is a pair of its frame *)
(* and its part: "set" from BeginFrame, "draw" from DrawFrame.              *)
(***************************************************************************)
EXTENDS Integers, FiniteSets

CONSTANTS
    ErrorSources,   \* what may fail: "main", "frontend", "backend"
    MaxFrames,      \* bound: frames
    MaxErrors,      \* bound: errors
    MaxSwitches,    \* bound: changes of com_smp
    MaxReloads      \* bound: hot reloads of a map file that does not parse

ASSUME FrameAssumption ==
    /\ ErrorSources \subseteq {"main", "frontend", "backend"}
    /\ MaxFrames \in Nat /\ MaxErrors \in Nat
    /\ MaxSwitches \in Nat /\ MaxReloads \in Nat

VARIABLES
    com_smp,            \* the console variable
    guiActive,          \* a gui, or a debug tool, asks for serial frames
    smpFrame, frameData, backendFrameData,
    chain,              \* the commands in each of smpFrameData
    shown,              \* the commands the backend has executed
    frontendActiveNow, shutdownFrontend,
    frontendException,  \* the error the frontend thread leaves for the main one
    errorIndirection, com_errorEntered,
    mpc, fpc,           \* where the main and the frontend thread are
    code,               \* of the error each thread is raising
    caught,             \* the exception EndFrame has caught
    frame,              \* frames begun
    steady,             \* toggles since com_smp changed, up to Settled
    errors, switches, reloads           \* counters for the bounds

bufferVars == <<smpFrame, frameData, backendFrameData, chain>>
signalVars == <<frontendActiveNow, shutdownFrontend, frontendException>>
errorVars == <<errorIndirection, com_errorEntered, code, caught>>
boundVars == <<errors, switches, reloads>>
vars == <<com_smp, guiActive, bufferVars, shown, signalVars, errorVars, mpc,
          fpc, frame, steady, boundVars>>

Buffers == {0, 1}                       \* NUM_FRAME_DATA
Codes == {"drop", "fatal"}
NoError == "none"
Ends == {"main", "frontend"}            \* the two threads

\* Toggles until a change of com_smp has no effect any more: two to separate the
\* buffers, and two frames to pass through them.
Settled == 4

\* R_InitFrameData has toggled once.
Init ==
    /\ com_smp \in BOOLEAN
    /\ guiActive = FALSE
    /\ smpFrame = 1
    /\ frameData = IF com_smp THEN 1 ELSE 0
    /\ backendFrameData = 0
    /\ chain = [b \in Buffers |-> {}]
    /\ shown = {}
    /\ frontendActiveNow = FALSE /\ shutdownFrontend = FALSE
    /\ frontendException = NoError
    /\ errorIndirection = FALSE /\ com_errorEntered = NoError
    /\ mpc = "frame" /\ fpc = "wait"
    /\ code = [t \in Ends |-> NoError]
    /\ caught = NoError
    /\ frame = 0 /\ steady = Settled
    /\ errors = 0 /\ switches = 0 /\ reloads = 0

-----------------------------------------------------------------------------
(* Command buffers.                                                         *)

\* R_GetCommandBuffer: it writes to the buffer of the frontend.
Emit(n, part) ==
    chain' = [chain EXCEPT ![frameData] = @ \cup {<<n, part>>}]

\* R_ToggleSmpFrame; smpFrame counts modulo NUM_FRAME_DATA.
NextParity == (smpFrame + 1) % 2
BackendStays == backendFrameData
NextBackend == IF com_smp THEN frameData ELSE 0

Toggle ==
    /\ smpFrame' = NextParity
    /\ backendFrameData' = NextBackend
    /\ frameData' = IF com_smp THEN smpFrame' ELSE 0
    /\ chain' = [chain EXCEPT ![frameData'] = {}]

-----------------------------------------------------------------------------
(* Errors: common->Error and common->FatalError.                            *)

\* A second error while one is being handled is fatal; a third, or a second
\* one that asks to be fatal, ends the process on the spot.
Kills(kind) ==
    \/ com_errorEntered = "fatal"
    \/ kind = "fatal" /\ com_errorEntered # NoError

ErrorCode(kind) ==
    IF kind = "fatal" \/ com_errorEntered # NoError THEN "fatal" ELSE "drop"

\* com_errorEntered is read here and written where the error is thrown: two
\* threads may fail without seeing each other's error.
Fails(t, source) ==
    /\ source \in ErrorSources
    /\ errors < MaxErrors
    /\ errors' = errors + 1
    /\ \E kind \in Codes :
           /\ ~Kills(kind)
           /\ code' = [code EXCEPT ![t] = ErrorCode(kind)]

\* Sys_Quit, on whichever thread.
Killed(source) ==
    /\ source \in ErrorSources
    /\ errors < MaxErrors
    /\ com_errorEntered # NoError
    /\ errors' = errors + 1
    /\ mpc' = "over" /\ fpc' = "gone"
    /\ UNCHANGED <<com_smp, guiActive, bufferVars, shown, signalVars,
                   errorVars, frame, steady, switches, reloads>>

-----------------------------------------------------------------------------
(* The main thread between frames: session->Frame and console commands.     *)

SwitchSmp ==
    /\ mpc = "frame"
    /\ switches < MaxSwitches
    /\ com_smp' = ~com_smp
    /\ switches' = switches + 1
    /\ steady' = 0
    /\ UNCHANGED <<guiActive, bufferVars, shown, signalVars, errorVars, mpc,
                   fpc, frame, errors, reloads>>

\* idMapFile::TryReload on a file that does not parse: the error is caught, but
\* neither the indirection nor com_errorEntered goes back.  A file that parses
\* leaves everything here as it was.
TryReload ==
    /\ mpc = "frame"
    /\ reloads < MaxReloads
    /\ errorIndirection' = TRUE
    /\ com_errorEntered' = ErrorCode("drop")
    /\ ~Kills("drop")
    /\ reloads' = reloads + 1
    /\ UNCHANGED <<com_smp, guiActive, bufferVars, shown, signalVars, code,
                   caught, mpc, fpc, frame, steady, errors, switches>>

MainFails ==
    /\ mpc \in {"frame", "after"}
    /\ Fails("main", "main")
    /\ mpc' = "outside"
    /\ UNCHANGED <<com_smp, guiActive, bufferVars, shown, signalVars,
                   errorIndirection, com_errorEntered, caught, fpc, frame,
                   steady, switches, reloads>>

\* A change of map and vid_restart throw the commands of both buffers away; a
\* full vid_restart also ends the frontend thread and starts it again.
Purge(next) ==
    /\ mpc = "frame"
    /\ Toggle
    /\ mpc' = next
    /\ UNCHANGED <<com_smp, guiActive, shown, signalVars, errorVars, fpc,
                   frame, steady, boundVars>>

PurgeAgain ==
    /\ mpc \in {"purge", "purgeRestart"}
    /\ Toggle
    /\ steady' = 2
    /\ IF mpc = "purge"
       THEN mpc' = "frame" /\ shutdownFrontend' = shutdownFrontend
       ELSE mpc' = "restart" /\ shutdownFrontend' = TRUE
    /\ UNCHANGED <<com_smp, guiActive, shown, frontendActiveNow,
                   frontendException, errorVars, fpc, frame, boundVars>>

\* The old thread has ended: StartFrontendThread.
Restart ==
    /\ mpc = "restart"
    /\ fpc = "gone"
    /\ frontendActiveNow' = FALSE
    /\ shutdownFrontend' = FALSE
    /\ fpc' = "wait"
    /\ mpc' = "frame"
    /\ UNCHANGED <<com_smp, guiActive, bufferVars, shown, frontendException,
                   errorVars, frame, steady, boundVars>>

\* quit: Shutdown, with TerminateFrontendThread.
Quit ==
    /\ mpc = "frame"
    /\ shutdownFrontend' = TRUE
    /\ mpc' = "shutdown"
    /\ UNCHANGED <<com_smp, guiActive, bufferVars, shown, frontendActiveNow,
                   frontendException, errorVars, fpc, frame, steady, boundVars>>

Joined ==
    /\ mpc = "shutdown"
    /\ fpc = "gone"
    /\ mpc' = "over"
    /\ UNCHANGED <<com_smp, guiActive, bufferVars, shown, signalVars,
                   errorVars, fpc, frame, steady, boundVars>>

-----------------------------------------------------------------------------
(* The main thread in UpdateScreen.                                         *)

\* BeginFrame; a gui may have opened or closed since the last frame.
BeginFrame ==
    /\ mpc = "frame"
    /\ frame < MaxFrames
    /\ frame' = frame + 1
    /\ Emit(frame + 1, "set")
    /\ guiActive' \in BOOLEAN
    /\ errorIndirection' = TRUE
    /\ mpc' = "activate"
    /\ UNCHANGED <<com_smp, smpFrame, frameData, backendFrameData, shown,
                   signalVars, com_errorEntered, code, caught, fpc, steady,
                   boundVars>>

\* The frontend thread is told, or its work is done right here.
ActivateFrontend ==
    /\ mpc = "activate"
    /\ com_smp /\ ~guiActive
    /\ frontendActiveNow' = TRUE
    /\ mpc' = "issue"
    /\ UNCHANGED <<com_smp, guiActive, bufferVars, shown, shutdownFrontend,
                   frontendException, errorVars, fpc, frame, steady, boundVars>>

SerialTics ==
    /\ mpc = "activate"
    /\ ~com_smp \/ guiActive
    /\ \/ Emit(frame, "draw") /\ mpc' = "issue" /\ UNCHANGED <<code, errors>>
       \/ Fails("main", "frontend") /\ mpc' = "inside" /\ UNCHANGED chain
    /\ UNCHANGED <<com_smp, guiActive, smpFrame, frameData, backendFrameData,
                   shown, signalVars, errorIndirection, com_errorEntered,
                   caught, fpc, frame, steady, switches, reloads>>

\* R_IssueRenderCommands: an empty chain is left alone.
IssueRenderCommands ==
    /\ mpc = "issue"
    /\ shown' = shown \cup chain[backendFrameData]
    /\ chain' = [chain EXCEPT ![backendFrameData] = {}]
    /\ mpc' = "wait"
    /\ UNCHANGED <<com_smp, guiActive, smpFrame, frameData, backendFrameData,
                   signalVars, errorVars, fpc, frame, steady, boundVars>>

\* The backend fails before the chain is cleared, or after it.
BackendFails ==
    /\ mpc \in {"issue", "wait"}
    /\ Fails("main", "backend")
    /\ mpc' = "inside"
    /\ UNCHANGED <<com_smp, guiActive, bufferVars, shown, signalVars,
                   errorIndirection, com_errorEntered, caught, fpc, frame,
                   steady, switches, reloads>>

\* WaitForFrontendCompletion looks at the frontend only with com_smp on.
NotAwaited == TRUE
FrontendIdle == com_smp => ~frontendActiveNow
KeptException == frontendException
AfterRethrow == NoError

WaitForFrontendCompletion ==
    /\ mpc = "wait"
    /\ FrontendIdle
    /\ IF com_smp /\ frontendException # NoError
       THEN /\ caught' = frontendException
            /\ frontendException' = AfterRethrow
            /\ mpc' = "catch"
            /\ UNCHANGED errorIndirection
       ELSE /\ errorIndirection' = FALSE
            /\ mpc' = "after"
            /\ UNCHANGED <<caught, frontendException>>
    /\ UNCHANGED <<com_smp, guiActive, bufferVars, shown, frontendActiveNow,
                   shutdownFrontend, com_errorEntered, code, fpc, frame,
                   steady, boundVars>>

\* The end of EndFrame: the buffers change hands.
EndFrame ==
    /\ mpc = "after"
    /\ Toggle
    /\ steady' = IF steady < Settled THEN steady + 1 ELSE Settled
    /\ mpc' = "frame"
    /\ UNCHANGED <<com_smp, guiActive, shown, signalVars, errorVars, fpc,
                   frame, boundVars>>

-----------------------------------------------------------------------------
(* The main thread handles an error.                                        *)

\* Error throws to the handler of EndFrame with the indirection on, and calls
\* DoError with it off; with the indirection left on outside EndFrame nobody
\* catches what it throws.
ThrowMain ==
    /\ mpc \in {"inside", "outside"}
    /\ com_errorEntered' = code["main"]
    /\ caught' = code["main"]
    /\ mpc' = IF ~errorIndirection THEN "raise"
              ELSE IF mpc = "inside" THEN "catch" ELSE "dead"
    /\ UNCHANGED <<com_smp, guiActive, bufferVars, shown, signalVars,
                   errorIndirection, code, fpc, frame, steady, boundVars>>

\* The handler waits for the frontend too.  What that wait throws, the handler
\* does not catch, nor does idCommonLocal::Frame.
CatchWait ==
    /\ mpc = "catch"
    /\ FrontendIdle
    /\ IF com_smp /\ frontendException # NoError
       THEN /\ mpc' = "dead"
            /\ frontendException' = AfterRethrow
            /\ UNCHANGED errorIndirection
       ELSE /\ mpc' = "raise"
            /\ errorIndirection' = FALSE
            /\ UNCHANGED frontendException
    /\ UNCHANGED <<com_smp, guiActive, bufferVars, shown, frontendActiveNow,
                   shutdownFrontend, com_errorEntered, code, caught, fpc,
                   frame, steady, boundVars>>

\* DoError and DoFatalError.  Errors that come too fast are made fatal; a drop
\* stops the session, which closes every gui, and goes back to the main loop,
\* past the rest of EndFrame.
EnteredStays == com_errorEntered
EnteredAfterDrop == NoError

DoDrop ==
    /\ mpc = "raise"
    /\ caught = "drop"
    /\ com_errorEntered' = EnteredAfterDrop
    /\ guiActive' = FALSE
    /\ caught' = NoError
    /\ code' = [t \in Ends |-> NoError]
    /\ mpc' = "frame"
    /\ UNCHANGED <<com_smp, bufferVars, shown, signalVars, errorIndirection,
                   fpc, frame, steady, boundVars>>

DoFatal ==
    /\ mpc = "raise"
    /\ com_errorEntered' = "fatal"
    /\ shutdownFrontend' = TRUE
    /\ mpc' = "shutdown"
    /\ UNCHANGED <<com_smp, guiActive, bufferVars, shown, frontendActiveNow,
                   frontendException, errorIndirection, code, caught, fpc,
                   frame, steady, boundVars>>

MainKilled ==
    \/ mpc \in {"frame", "after"} /\ Killed("main")
    \/ mpc \in {"issue", "wait"} /\ Killed("backend")
    \/ mpc = "activate" /\ (~com_smp \/ guiActive) /\ Killed("frontend")

-----------------------------------------------------------------------------
(* The frontend thread: FrontendThreadFunction.                             *)

WakesForWorkOnly == frontendActiveNow
Wakes == frontendActiveNow \/ shutdownFrontend

FrontendWakes ==
    /\ fpc = "wait"
    /\ Wakes
    /\ fpc' = IF shutdownFrontend THEN "gone" ELSE "tics"
    /\ UNCHANGED <<com_smp, guiActive, bufferVars, shown, signalVars,
                   errorVars, mpc, frame, steady, boundVars>>

\* RunGameTics and DrawFrame; the commands go to the frontend's buffer.
FrontendDraws ==
    /\ fpc = "tics"
    /\ Emit(frame, "draw")
    /\ fpc' = "done"
    /\ UNCHANGED <<com_smp, guiActive, smpFrame, frameData, backendFrameData,
                   shown, signalVars, errorVars, mpc, frame, steady, boundVars>>

FrontendFails ==
    /\ fpc = "tics"
    /\ Fails("frontend", "frontend")
    /\ fpc' = "error"
    /\ UNCHANGED <<com_smp, guiActive, bufferVars, shown, signalVars,
                   errorIndirection, com_errorEntered, caught, mpc, frame,
                   steady, switches, reloads>>

\* With the indirection off DoError would run on this thread, which has no
\* handler for what it throws.
ThrowFrontend ==
    /\ fpc = "error"
    /\ com_errorEntered' = code["frontend"]
    /\ IF errorIndirection
       THEN /\ frontendException' = code["frontend"]
            /\ fpc' = "done"
            /\ mpc' = mpc
       ELSE /\ mpc' = "dead"
            /\ fpc' = "gone"
            /\ UNCHANGED frontendException
    /\ UNCHANGED <<com_smp, guiActive, bufferVars, shown, frontendActiveNow,
                   shutdownFrontend, errorIndirection, code, caught, frame,
                   steady, boundVars>>

FrontendKilled == fpc = "tics" /\ Killed("frontend")

\* The exception path joins the other one here.
ReportsOnlySuccess == frontendException # NoError
ActiveAfterTics == FALSE

FrontendDone ==
    /\ fpc = "done"
    /\ frontendActiveNow' = ActiveAfterTics
    /\ fpc' = "wait"
    /\ UNCHANGED <<com_smp, guiActive, bufferVars, shown, shutdownFrontend,
                   frontendException, errorVars, mpc, frame, steady, boundVars>>

-----------------------------------------------------------------------------
Over == mpc \in {"over", "dead"}
Terminated == Over /\ UNCHANGED vars

\* What the main thread does between frames by request only.
Request ==
    \/ SwitchSmp \/ TryReload \/ MainFails \/ Quit \/ BeginFrame
    \/ Purge("purge") \/ Purge("purgeRestart")

MainStep ==
    \/ PurgeAgain \/ Restart \/ Joined
    \/ ActivateFrontend \/ SerialTics \/ IssueRenderCommands \/ BackendFails
    \/ WaitForFrontendCompletion \/ EndFrame
    \/ ThrowMain \/ CatchWait \/ DoDrop \/ DoFatal \/ MainKilled

FrontendStep ==
    /\ ~Over
    /\ \/ FrontendWakes \/ FrontendDraws \/ FrontendFails \/ ThrowFrontend
       \/ FrontendKilled \/ FrontendDone

Next == Request \/ MainStep \/ FrontendStep \/ Terminated

Spec == Init /\ [][Next]_vars

\* Both threads are scheduled; a tic and a backend frame come to an end.
FairSpec == Spec /\ WF_vars(MainStep) /\ WF_vars(FrontendStep)
-----------------------------------------------------------------------------
(* Properties.                                                              *)

MainLabels == {"frame", "purge", "purgeRestart", "restart", "activate",
               "issue", "wait", "after", "inside", "outside", "catch",
               "raise", "shutdown", "over", "dead"}
FrontendLabels == {"wait", "tics", "error", "done", "gone"}
Commands == (1 .. MaxFrames) \X {"set", "draw"}

\* Every variable has its type; frameData and backendFrameData are indices of
\* smpFrameData.
TypeOK ==
    /\ com_smp \in BOOLEAN /\ guiActive \in BOOLEAN
    /\ smpFrame \in Buffers
    /\ frameData \in Buffers /\ backendFrameData \in Buffers
    /\ chain \in [Buffers -> SUBSET Commands]
    /\ shown \subseteq Commands
    /\ frontendActiveNow \in BOOLEAN /\ shutdownFrontend \in BOOLEAN
    /\ frontendException \in Codes \cup {NoError}
    /\ errorIndirection \in BOOLEAN
    /\ com_errorEntered \in Codes \cup {NoError}
    /\ mpc \in MainLabels /\ fpc \in FrontendLabels
    /\ code \in [Ends -> Codes \cup {NoError}]
    /\ caught \in Codes \cup {NoError}
    /\ frame \in 0 .. MaxFrames /\ steady \in 0 .. Settled
    /\ errors \in Nat /\ switches \in Nat /\ reloads \in Nat

BothAtWork ==
    /\ fpc \in {"tics", "error"}
    /\ mpc \in {"issue", "wait", "inside"}

\* Two frames after com_smp was changed at the latest, the frontend does not
\* write to the buffer the backend reads (R_ToggleSmpFrame).
BuffersApart ==
    BothAtWork /\ steady >= 2 => frameData # backendFrameData

\* The frontend thread works inside EndFrame only: the game state it changes is
\* the main thread's between frames, and while an error unloads the map.
FrontendAtRest ==
    mpc \in {"frame", "purge", "purgeRestart", "after", "outside", "raise"}
        => fpc = "wait" /\ ~frontendActiveNow

\* As long as nothing failed, a frame is shown whole, and no later than one
\* frame after it was begun (at once without com_smp).
LatencyOne ==
    mpc = "frame" /\ errors = 0 /\ steady = Settled =>
        LET last == IF com_smp THEN frame - 1 ELSE frame IN
            last > 0 => {last} \X {"set", "draw"} \subseteq shown

\* Whatever failed in a frame is settled when the main loop begins the next:
\* no exception is left over, no error counts as being handled, and errors go
\* to DoError again.  It speaks of runs without a failed TryReload of a map, which
\* leaves them redirected until a frame begins.
ErrorsSettled ==
    mpc = "frame" /\ reloads = 0 =>
        /\ frontendException = NoError
        /\ com_errorEntered = NoError
        /\ ~errorIndirection

\* One error in a frame does not end the process by an exception that nobody
\* catches: it takes one of each thread.
OneErrorIsCaught ==
    mpc = "dead" /\ reloads = 0 => \A t \in Ends : code[t] # NoError

\* EndFrame from the activation of the frontend to the end of its wait.
InEndFrame == {"issue", "wait", "inside", "catch"}

\* The frontend thread works at the order of an EndFrame that has yet to wait
\* for it, and ends at the order of one who joins it.
Order ==
    ~Over =>
        /\ frontendActiveNow => com_smp /\ mpc \in InEndFrame
        /\ fpc \in {"tics", "error", "done"} => frontendActiveNow
        /\ shutdownFrontend => mpc \in {"restart", "shutdown"}
        /\ fpc = "gone" => mpc \in {"restart", "shutdown"}
        /\ mpc \in InEndFrame \cup {"activate"} => errorIndirection

\* With com_smp on, one toggle lines frameData up with smpFrame and the next
\* gives the backend the other buffer.
Parity ==
    com_smp =>
        /\ steady >= 1 \/ mpc \in {"purge", "purgeRestart"} =>
               frameData = smpFrame
        /\ steady >= 2 => backendFrameData = 1 - smpFrame

\* EndFrame follows BeginFrame.
Begun == mpc \in InEndFrame \cup {"activate"} => frame > 0

\* The inductive invariant about threads and buffers.
Pipeline == TypeOK /\ Order /\ Parity /\ Begun

\* Until a reload has failed, the indirection is on inside EndFrame only, a left
\* exception is still to be waited for, and an error that counts as being
\* handled is on its way to a handler.
Pending ==
    reloads = 0 /\ ~Over =>
        /\ errorIndirection => mpc \in InEndFrame \cup {"activate"}
        /\ frontendException # NoError => com_smp /\ mpc \in InEndFrame
        /\ com_errorEntered # NoError =>
               \/ mpc \in {"catch", "raise", "shutdown"}
               \/ mpc \in {"issue", "wait", "inside"}
                  /\ frontendException # NoError

\* Where an error is thrown, its code is known; a handler that was reached by
\* the rethrow has no exception left to wait for.
Blame ==
    reloads = 0 /\ ~Over =>
        /\ mpc \in {"inside", "outside"} => code["main"] # NoError
        /\ fpc = "error" => code["frontend"] # NoError
        /\ frontendException # NoError => code["frontend"] # NoError
        /\ mpc = "catch" /\ code["main"] = NoError =>
               frontendException = NoError /\ ~frontendActiveNow

\* The inductive invariant about errors.
Settling == Pipeline /\ Pending /\ Blame /\ OneErrorIsCaught

\* EndFrame, with or without an error, gives control back to the main loop,
\* unless the process ends.
FrameEnds == mpc = "activate" ~> mpc = "frame" \/ Over

\* The program, and vid_restart, can always end the frontend thread.
ShutdownEnds ==
    mpc \in {"shutdown", "restart"} ~> mpc \notin {"shutdown", "restart"}
=============================================================================
