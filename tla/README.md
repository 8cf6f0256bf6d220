# The Dark Mod: a verification project

TLA+ models of the concurrent and stateful core of The Dark Mod, the checks TLC
makes of them, and the theorems TLAPS proves about them. Sections 1 and 2 are
the inventory and the plan, 3 says how each module corresponds to the code, 4
what each run checks, 5 what fairness is assumed, 6 what is proved and how, 7
what the checks found, and 8 what is not modelled.

## 1. The system

The Dark Mod is a stealth game on a modified Doom 3 engine, in C++. Most of the
repository is vendored libraries, rendering, geometry, tools and assets. The
parts below have state of their own that several actors change, or protocols
in which the order of events matters.

| Part | Source | State | Operations | Talks to |
|---|---|---|---|---|
| Job list | `idlib/ParallelJobList.cpp` | the list of jobs; interlocked `version`, `signalJobCount`, `currentJob`, `fetchLock`, `numThreadsExecuting`, `doneGuards` | AddJob, InsertSyncPoint, Submit, Wait, TryWait, RunJobs | its owner (renderer frontend, sound and image loading), the job threads |
| Job threads, manager | `idlib/ParallelJobList.cpp` | a ring of submitted lists and a local table per thread | AddJobList, Run, Submit, FreeJobList | job lists, worker threads |
| Worker thread | `idlib/Thread.cpp`, `idlib/sys/posix/posix_thread.cpp` | `moreWorkToDo`, `isTerminating`, `isRunning`, two signals | StartWorkerThread, SignalWork, WaitForThread, StopThread | the job manager, any thread that signals |
| Frame loop | `framework/Session.cpp`, `framework/Common.cpp`, `renderer/RenderSystem.cpp`, `renderer/tr_main.cpp` | two command buffers, the frontend's flags, the state of errors | Frame, BeginFrame, EndFrame, Error, FatalError, vid_restart, quit | the frontend thread, the backend, every caller of `common->Error` |
| Mission downloads | `game/Missions/Download.cpp`, `game/Missions/DownloadManager.cpp`, `game/Http/HttpRequest.cpp`, `game/DownloadMenu.cpp` | status, URL index, request and thread of each download; the queue; the page's lists | Start, Stop, Perform, ProcessDownloads, the page's commands, the mission manager's requests | the menu's heartbeat, the game frame, libcurl, the file system |
| Vertex cache | `renderer/VertexCache.cpp`, `renderer/backend/GpuBuffer.cpp` | a ring of three mapped regions, their fences, the offset in the one being filled, handles | ActuallyAlloc, CacheIsCurrent, EndFrame, PurgeAll | frontend and backend, the GPU |
| Doors and locks | `game/FrobDoor.cpp`, `game/BinaryFrobMover.cpp`, `game/FrobDoorHandle.cpp`, `game/PickableLock.cpp` | open, closed, interrupted, moving; locked; lock and unlock requests posted as events; the visportal | Open, Close, Lock, Unlock, ToggleOpen, DoneRotating, Stop | the player, AI, handles, peers, physics, the event queue |
| AI mind | `game/ai/Mind.cpp`, `game/ai/States/` | the stack of states, the state to switch to, the bin for replaced states | PushState, SwitchState, EndState, Think, Save, Restore | the AI and whatever it perceives, conversations, the movement subsystem |
| Events | `game/gamesys/Event.cpp` | a queue ordered by time, a pool of events | Alloc, Schedule, CancelEvents, ServiceEvents, Save, Restore | every game object |
| Updater | `tdm_installer/zipsync/ZipSync.cpp`, `zipsync/CommandLine.cpp`, `tdm_installer/Actions.cpp`, the `GuiPage` files | manifests, matches, reference counts; zips on disk under three names | DevelopPlan, DownloadRemoteFiles, RepackZips, DoClean, the pages | the player, the file system, libcurl |
| AI tasks | `game/ai/Subsystem.cpp`, `game/ai/CommunicationSubsystem.cpp` | task queues, bark priorities | PushTask, SwitchTask, PerformTask | the mind, animations, sounds |
| Search manager | `game/SearchManager.cpp` | searches and their assignments | StartNewSearch, JoinSearch, LeaveSearch, Restore | AI |
| Elevators | `game/MultiStateMover*.cpp` | position, target, waiting users | Activate, DoneMoving, buttons | AI, the player |
| Script threads | `game/script/Script_Thread.cpp` | the list of threads, what each waits for | Execute, WaitMS, KillThread, End | the event queue, entities |
| Objectives | `game/Objectives/` | states of components and objectives | SetCompletionState, events, logic expressions | every entity, scripts |
| Stim and response | `game/StimResponse/` | timers, stims, responses | Start, Stop, WasTriggered, TriggerResponse | entities, scripts |

How they interact. The main thread runs `idCommonLocal::Frame`: commands and
the session, then `UpdateScreen`, whose `EndFrame` lets the frontend thread run
the game tics and build the next frame while the main thread executes the last
one. Inside a tic, entities talk by direct calls and by the event queue, in one
thread. Job lists are the tool with which any of these threads runs pieces of
work in parallel: the owner fills a list and submits it to the worker threads
of the job manager, then waits. Downloads run in threads of their own, started
and looked after by the menu (main thread), and touch their object without any
lock.

What is hard, part by part, and the properties that make it right:

- **Job list.** Lock-free: each of the interlocked counters may change between
  two accesses of a thread. Nobody may take a job twice, read a list the owner
  is refilling, pass a sync point early, or be waited for in vain.
- **Job threads.** A ring with one reader that takes no lock; indices kept over
  changes of a table; freeing lists that old entries still refer to.
- **Worker thread.** Lost wake-ups, stale flags, stops that overlap with work.
- **Frame loop.** Two threads on two buffers, the switch between serial and
  parallel frames at any time, errors on either thread at any point.
- **Downloads.** Unlocked sharing of status, index and request; cancelling and
  destroying at any moment; a queue that must not get stuck; results that must
  not be announced early; files that must be checked before they replace others.
- **Vertex cache.** Memory the GPU reads while the CPU writes: only the ring and
  its fences keep them apart, and frames come in more ways than one (wipes,
  previews, dropped frames, restarts, a buffer that is replaced as it grows).
- **AI mind.** Anything may push, end or replace a state between two Thinks,
  several times and before the state has been started.
- **Events.** A queue changed by the very calls it makes; deletions, errors and
  loaded games in the middle.
- **Doors.** Requests posted for later that something overtakes; leaves that
  tell each other; a portal that belongs to all of them.
- **Updater.** Archives rewritten from each other in place: nothing may be
  removed before its last use, and an error, a retry or a crash at any point
  must leave an installation from which one can go on.
- **Not yet modelled.** Task queues that are changed while they are performed,
  searches that AI join and leave, elevators with several users, threads of
  scripts that end each other, objectives that must not go back.

`PROJECT.json` lists the hazards at their lines and the properties for them.

## 2. Plan

Order of work, the most important first; the first ten are done.

1. `ParallelJobList` with `JobListPromise`, the abstract promise it implements;
   proofs in `ParallelJobListProofs`, the refinement among them.
2. `WorkerThread`; proofs in `ThreadProofs`.
3. `JobThread`, which joins what 1 and 2 show to their environment: it keeps of
   a list what threads and owners see of it, and of a worker the two flags;
   proofs in `JobThreadProofs`.
4. `FrameLoop`; proofs in `ThreadProofs`, with those of 2.
5. `Download`, and `DownloadMenu` which extends it by queue, page and requests;
   proofs in `DownloadMenuProofs`.
6. `VertexCache` under the two-frame pipeline of 4; proofs in
   `VertexCacheProofs`.
7. `Mind`, one AI with everything that may happen to it; proofs in `GameProofs`.
8. `EventQueue` with `EventPromise`, the abstract promise it implements;
   proofs in `EventQueueProofs`.
9. `FrobDoor`, the leaves of a doorway; proofs in `GameProofs`, with those of 7.
10. `Updater`, the update process and the pages that retry it; proofs in
    `UpdaterProofs`.
11. Script threads and stim timers, which run out of the events of 8.
12. The task queues of the AI subsystems under the mind of 7; the search manager.
13. Elevators; objectives.

Every safety property of section 4 that speaks of single states is proved, and
both refinements; what comes next are the theorems of the modules 11 to 13.

## 3. Modules and code

Every definition that models code is listed with its lines under `map` in
`PROJECT.json`. Conventions: a thread has a program counter (`pc`, `tpc`,
`mpc`, ...) whose labels name the next step; every access to data another
thread changes without a lock is a step of its own, a section under a mutex is
one step; a wait that loops on its condition is a step that awaits it. Bounds
are constants and appear in guards; each `MC` module only names values for a
configuration.

**`ParallelJobList`.** One `idParallelJobList_Threads`. The owner's steps are
`AddJob`, `DropJob` (the list is full), `InsertSignal`, `InsertSync`,
`SubmitEmpty`, `Submit`, `HandOver` (per thread, `idJobThread::AddJobList`),
`SubmitReturns`, and `Wait` in four steps around its reads and the increment of
`version`. `RunJobs` is `Enter`, `CheckVersion`, the loop over dummy entries
(`Skip`, `SkipEnd`, `SkipCount`), the section under the fetch lock (`Lock`,
`Fetch`, `Scan`, `DecrementGuard`, `GiveBack`, `UnlockStalled`, `Unlock`), then
`StartJob`, `FinishJob`, `CountJob`, `Leave`. Executor 0 is the owner in an
inline submission. `JobListPromise` is what the owner may rely on; the
refinement mapping drops the DONE entry.

**`WorkerThread`.** `ThreadProc` step by step (take work or report idle, wait,
test `isTerminating`, Run, last raise, end), clients that call `SignalWork` and
`WaitForThread`, the owner that starts and stops. `Sys_SignalRaise` and
`Sys_SignalWait` of the POSIX layer are inside these steps; the constant
`SpuriousWakeups` allows `pthread_cond_wait` to return by itself.

**`JobThread`.** `AddJobList` in three steps (mutex, wait for room and write,
publish), `SignalWork`, the loop of `Run` with its local table: fetch, copy,
advance, choose (priority, stall, chained lists), run, remove. `FreeJobList`
waits for every thread, then for the list, then deletes it.

**`FrameLoop`.** The main thread between frames (`SwitchSmp`, `TryReload`,
`MainFails`, `Purge`, `PurgeAgain`, `Restart`, `Quit`, `Joined`), through
`UpdateScreen` (`BeginFrame`, `ActivateFrontend` or `SerialTics`,
`IssueRenderCommands`, `WaitForFrontendCompletion`, `EndFrame`), and through an
error (`ThrowMain`, `CatchWait`, `DoDrop`, `DoFatal`, `MainKilled`); the
frontend thread (`FrontendWakes`, `FrontendDraws`, `FrontendFails`,
`ThrowFrontend`, `FrontendDone`, `FrontendKilled`). A command is its frame and
its part, so that `LatencyOne` can ask for whole frames in order.

**`Download`, `DownloadMenu`.** A download is a record: its kind, status, URL
index, request, cancel flag, thread and files. `Perform` of the worker is one
step per access to what Stop changes too (`Loop`, `ReadUrl`, `CreateRequest`,
`Perform`, `Check`, `Move`, `NextUrl`, `End`; `_curUrl++` is a read and a
write). `Stop` is `StopTest`, `StopUrl`, `StopCancel`, `StopJoin`; a list of
calls (`todo`) stands for the loops and destructors that make several of them.
A file's content is what the checks can tell apart: good, a good archive with
the wrong checksum, no archive, a part. `DownloadMenu` adds
`CDownloadManager::ProcessDownloads` from heartbeat, page and game frame; the
page's commands `Select`, `StartDownload`, `Deselect`, `Cancel`; its refresh
with the announcement of results; requests of the mission manager; `Quit`.
`crash` records a null pointer, an index past the end or `std::terminate`; the
process ends there.

**`VertexCache`.** `UseSurface` is `R_CreateAmbientCache` with
`CacheIsCurrent` and `ActuallyAlloc`; `ActivateFrontend`,
`IssueRenderCommands`, `Drop` and `EndFrame` are the main thread's part of a
frame, `FinishEndFrame` its wait for a fence, `GpuFinishes` the GPU, which takes
submissions in order. `DrawBetweenFrames`, `EndFrameBetween` and `WipeIssues`
are StartWipe, `PreviewIssues` the picture of a saved game, `PurgeAll` a
`vid_restart`. Memory is counted in surfaces.

**`Mind`.** A Think is `BeginThink` (the switch of states, the bin),
`InitState`, `ThinkState`, one operator for each state's Init and Think.
Between two, the AI is alerted, loses its enemy, is hurt, flashed, frightened,
talked to, killed, or loaded from a saved game. Alert levels are their indices;
timers are left to choice.

**`EventQueue`.** `Post` is `Alloc` and `Schedule`; `CancelEvents`, `Delete` (an
object and its events); `BeginService`, `Serve` (an event leaves the queue),
`Served` (its callback has returned and it goes back to the pool), `EndService`
are `ServiceEvents`; in between, and after it until `EndFrame` (conversations and
searches), objects do whatever they may do. `Error` is an exception out of game code
or of `Alloc`, `NoFreeEvents` and `Overflow` the errors of pool and
frame; `Save` and `Restore` the saved game. `EventPromise` is what objects may
rely on; the refinement mapping forgets pool and phases.

**`FrobDoor`.** A leaf is a record: where the physics has it and takes it, what
the mover believes, what is locked, and the pending events. `Frob`, `UseKey`,
`PickLock` are the player, `AIOpen`, `AIClose`, `AILock`, `Blocked` the AI,
`Advance` a step of the physics with `DoneRotating` or `DoneMoving` at its end,
`HandleDown` and `HandleUp` the handle, `Event` one of the posted events. Each
is a function from the doorway to the doorways that may follow, because a call on
a leaf goes on to its peers and may come back.

**`Updater`.** A zip is the sequence of its files, and a file is its name and
its compressed hash; a zip exists under its name, as `__repacked__` and as
`__reduced__`. `Refresh` is `RefreshVersionInfo` with `DevelopPlan`; `Fetch` and
`Verify` are `DownloadRemoteFiles`; `Begin` to `RewriteProvidedManifest` are
`RepackZips`: `RenameUnpacked`, `WriteReduced` and `RemoveOld`, `OpenRepacked`
and `Repack`, `Rename`. `Throw` is an error the code finds by itself, `Error`
one from outside; both end in the cleaning and on the confirm page, from where
`Start` tries the same plan again. `Crash` ends the process anywhere. The code
goes over zips in the order of their paths; the model takes them in any order.
Byte ranges are positions in the zip. After a failed attempt the matches may
point into a manifest that has been destroyed; what follows is undefined and
modelled as an error or a crash.

## 4. Runs

| Run | Bounds | What it shows |
|---|---|---|
| `joblist` | 2 threads, 2 submissions, the first of up to 2 jobs with a SIGNAL/SYNCHRONIZE pair, the second of up to 1 job, inline or threaded | `GuardMeansExecuted`, `Quiescent`, the promise (`KeepsPromise`), `WaitReturns`, `InlineCompletes` |
| `worker` | 2 clients, 2 signals each, 2 starts | `WaitMeansServed`, `StoppedMeansOver`, `NoLostSignal`, `WaitEnds`, `StopEnds` |
| `jobthread_safety` | 2 lists of different priority, 2 threads, rings of 2 | `NoUseAfterFree`, of lists and of indices into the local table |
| `jobthread_live` | 2 lists, 3 submissions each, 1 thread, a ring of 1 | `RingIntact`, `SubmissionEnds`, `FreeEnds`: owners wait for room |
| `frame` | 4 frames, 2 errors, 1 switch of `com_smp`, 1 failed reload, purges and restarts at will | `BuffersApart`, `FrontendAtRest`, `LatencyOne`, `ErrorsSettled`, `OneErrorIsCaught`, `FrameEnds`, `ShutdownEnds` |
| `downloads` | 2 downloads (mission and pack, two packs, or with a request), 2 URLs for a mission, the player at will | `ResultIsTrue`, `InstalledIsChecked`, `DestroyedLeavesNothing`, `QueueDrains` |
| `vertexcache` | 2 surfaces, regions of 2 growing to 4, 5 ends of a frame, 2 submissions in flight, 1 wipe or preview, 1 dropped frame or restart | `DrawsIntact`, `CurrentMeansWritten` |
| `mind` | 2 disturbances of any kind, 1 conversation, 1 loaded game | `LadderStacked`, `FlightIsReal`, `CalmsDown` |
| `mind_flight` | the same | `FlightGoesOn` fails |
| `events` | 2 objects, a pool of 3, 2 events per frame before the overflow, 3 numbers for those due at one time, times 0 and 1, delays 0 and 1, 1 error or loaded game | `NoDeadReceiver`, the promise (`KeepsPromise`), `ServiceEnds` |
| `doors` | a double door with one handle, one leaf that closes by itself, 4 inputs | `RequestMeansClosed`, `PortalFollows`, `KeyLocks` |
| `updater` | 2 zips, 2 servers, a foreign zip, 6 installations, 3 versions, files of two contents and two compressions, 2 errors or crashes | `PlanHolds`, `NothingLost`, `OutputIsRight`, `CrashRecovered` |

Why the bounds are enough. Two threads make every race of the job list, which
are races of one thread with one other or with the owner; two jobs and the pair
are one whole sync group. In the second submission a thread may come late from the
first; what it finds there is one job, because that it finds an outdated version
does not depend on what the list holds. The theorem `HandshakeHolds` is about the
same for any number of submissions. A ring of one slot is full after one submission, and three
submissions wrap it. A change of `com_smp` has no effect any more after four
toggles, so four frames see it wear off; two errors are one on each thread, or
one in the handling of the other. Two downloads are a pair, or one waiting
behind another; two URLs are a retry, and the last retry. Three regions have
gone round once after three frames, and the fourth and fifth rewrite what was
drawn first. Two disturbances can come between two Thinks, which is one more
than the bin for replaced states holds, or one in the reaction to another. A pool of three runs empty while
two events of one time are queued and one is being served. Two leaves are all a
doorway has; four inputs are a request, what overtakes it, and one answer each.
Two zips exchange files, take them from each other, or shrink to one; two errors
are a failed attempt and a failed or interrupted second one. All theorems of
section 6 hold without any bound.

Each property has a mutant of the code in `PROJECT.json`, the kind of slip that
would break it, under which its run fails.

## 5. Fairness

- Job list: every thread is scheduled and the owner waits for what it submitted
  (weak fairness). `WaitReturns` assumes in addition `FetchLockGranted`: threads
  that fail to get the fetch lock might keep its counter above zero between
  them for ever. Nothing in the code but timing prevents that, so it is stated
  in the property and not hidden in the model. It is: if some thread is about to
  try the lock again and again, somebody gets it again and again. Where nobody
  tries, because threads are stalled for ever or a counter never comes to zero, it is
  true, and `WaitReturns` fails (its mutants).
- Worker: worker and released waiters are scheduled, the owner completes a
  start or a stop; nobody has to signal, wait or stop.
- Job threads: as above, with strong fairness for the step in which a thread is
  granted its turn to run jobs of a list, the same assumption about the fetch
  lock from outside.
- Frame loop: both threads are scheduled, and tics and backend work come to an
  end. Nothing is assumed of requests: no frame has to be begun.
- Downloads: a handler of the menu runs to its end; the heartbeat, which the
  menu's GUI sends in every frame, comes again and again between any commands
  (strong fairness, because commands may be in the way); every step of a worker
  is taken, which includes that a transfer comes to an end. libcurl has no
  timeout configured, so the last is an assumption about the network.
- Mind: it thinks (weak fairness). Levels that may fall do in the end, combat
  ends in something else, the flight task starts and ends, a kneeling AI stands
  up, and conversations end (strong fairness each): these stand for timers and
  for what the physics does. Nothing is assumed of what happens to the AI.
- Events: callbacks return, and `ServiceEvents` goes on with its loop.
- Doors: the physics moves a leaf that moves, and handles and posted events get
  their turn. Nothing is assumed of the player and the AI.

`VertexCache` and `Updater` state safety only.

## 6. Theorems

All are proved for any values of the constants that satisfy the named
assumptions of the module.

- **Job list** (`ParallelJobListProofs`). `HandshakeHolds` proves the inductive
  invariant `Handshake`; `TypeCorrect`, `MutualExclusion` (`FetchMutex`) and
  `OwnerUndisturbed` (`Quiescent`) follow. `Quiescent` alone is not inductive:
  that a late thread stays out needs `Counted` (both counters are cardinalities
  of sets of threads), `Versions` (a withdrawn list is newer than every entry
  threads hold) and `InsideCurrent`.

  `Accounts` adds to `Handshake` what a promise about jobs takes. `ListShape`
  and `Pairs` say how an owner may have built the list (signals and sync points
  alternate, DONE is last). `Fetches` says who owns which index: each is
  fetched once, and only the last can be given back, by the one thread that
  holds the lock. `Statuses` ties that to what has been executed, and `Counters`
  to the counters: each is the number of entries of its group left to be
  counted, and the count of DONE takes the last one below zero. `Scans` keeps what
  a thread has made sure of on its way through the list (`Reading`), `Markers` where
  it is held up, `Gates` what `Wait` and the done guard conclude. From it follow
  `GuardTrue` (`GuardMeansExecuted`) and `PromiseKept` (`KeepsPromise`): a thread
  runs an entry whose sync points it has passed, which the promise calls
  released, and `Wait` returns when the last counter is down, which by `Counters`
  means that all is executed. `Alone` adds what a submission without threads
  is: the owner holds the only live entry, and nobody has the lock; it gives
  `InlineFinishes` (`InlineCompletes`).

  These three assume `PairedSyncs`, that an owner ends every SIGNAL with its
  SYNCHRONIZE before it submits. Otherwise the last counter may reach zero
  while entries of an earlier group run, and `Wait` returns too early. Every
  caller in the repository pairs them.
- **Worker** (`ThreadProofs`). `ProtocolHolds` proves `Protocol`
  (work is pending, being done or done for every client; `workerDone` is up
  only in the last case; an order to stop is ahead of the worker until it has
  left) under `SpuriousWakeups = FALSE`; `WaitServes` and `StopStops` follow.
  `SignalsKept` (`NoLostSignal`) holds with spurious wake-ups too.
- **Job threads** (`JobThreadProofs`). `IInv` joins `Ring` (the slots between the
  two counters hold what was added, in order), `Adding` (one owner at a time
  writes a slot of a ring, one that is free) and `TableKept` (the indices of `Run`
  lie in its local table); it gives `TypeCorrect` and `RingsIntact`
  (`RingIntact`), and it holds when the unsigned counters come round, because
  the capacity divides 2^32 (`JobThreadAssumption`). `FreedIsForgotten` (`NoUseAfterFree`)
  needs in addition `UseInv`: what a thread without work may still
  refer to is a list whose owner is about to signal it. The hypothesis is
  `NoWrapAround`, that no counter has come round: `Run` takes a ring for
  empty when `firstJobList` is not below `lastJobList`, so that once one of them
  has wrapped a thread reports itself idle with a list in its ring. TLC finds
  that state when `MaxVersion` lets counters of size 4 come round; the code needs
  2^32 submissions to one thread for it.
- **Frame loop** (`ThreadProofs`). `Pipeline` (who may be at work while
  `EndFrame` waits; the parity of the buffers after one and two toggles) gives
  `TypeCorrect`, `FrontendRests` and `BuffersStayApart`. `Settling` adds where
  the indirection may be on, where an exception may be pending, and which
  thread a code comes from; it gives `ErrorsSettle` and `OneErrorCaught`.
  `Displaying` follows the commands of a frame through buffer and backend to the
  screen (`Making`, `Waiting`, `OnScreen`) as long as nothing has failed; it gives
  `LatencyAtMostOne` (`LatencyOne`).
- **Downloads** (`DownloadMenuProofs`). `IInv` has four parts: the types of the
  owner's variables, that page and mission manager keep only ids of downloads
  that exist (`IdsKept`), what is true of a download whatever its owner does
  (`DownloadsKept`), and who is responsible for it (`Accounted`): the queue before
  it starts, then its worker, then whoever destroys it. `Counted` bounds the URL
  index although `Stop` writes it while the worker counts with it; `OnItsWay`
  says how far an undisturbed worker is, `FilesKept` what its checks have made
  sure of. `TypeCorrect`, `ResultsTrue` (`ResultIsTrue`), `InstalledChecked`
  (`InstalledIsChecked`) and `NothingLeft` (`DestroyedLeavesNothing`) follow.

- **Vertex cache** (`VertexCacheProofs`). `CacheProtected` proves `Protected`:
  which region is filled, issued and read after each kind of frame, and that a
  fence covers every submission that still reads behind it. `DrawsProtected`
  (`DrawsIntact`) needs all of it; `CurrentIsTrue` (`CurrentMeansWritten`) in
  addition that no handle is of a later frame. Assumed: `CacheAssumption`, and
  `NoWrapAround`, that frame numbers do not come round in the frames looked at.
- **Doors** (`GameProofs`). `DoorwaySound` proves `IInv`: what the flags of a
  leaf say of its position and motion, that a request belongs to a closed and
  resting leaf, and that the portal is open while a leaf is. `FlagIsTrue`,
  `RequestsWithdrawn` (`RequestMeansClosed`) and `PortalRight`
  (`PortalFollows`) follow, for any leaves and any relation of peers;
  `PortalRight` for a single door or two leaves that are each other's double
  (`Paired`), transparent ones included, which never shut the portal. There is
  one lemma per function on doorways, cited by every action that calls it.
- **AI mind** (`GameProofs`). `MindInv` says that the ladder has all its rungs and
  the queue is never empty (`Sane`), that the dead have no other state
  (`DeadAlone`), and `FlightIsReal` itself. The parts lean on each other: combat
  may end two states at once, which takes away no flee state only because the
  second is the rung below. What each operation of the Mind keeps is stated of any
  mind (`PushedKeeps`, `EndedKeeps`, `SwitchedKeeps`, `CheckedKeeps`) and cited in
  the steps. `LadderWhole` (`LadderStacked`), `FlightsReal` (`FlightIsReal`) and
  `MindTypeCorrect` follow, for any number of disturbances, conversations and
  loaded games.

- **Events** (`EventQueueProofs`). `IInv` says that the queue is in order of time and
  posting and its objects exist, the same of the saved game, that nothing
  is overdue once a tic's events are served, and that the event being served is not counted as
  free. It gives `TypeCorrect` and `ReceiversLive` (`NoDeadReceiver`); with
  it every step is one of `EventPromise` or a stutter (`QueueKeepsPromise`).
  Assumed: `NoneAssumption`, that the model value for "no event" is no event.

- **Updater** (`UpdaterProofs`). A plan is made once, from a scan; everything
  after it trusts lists and counters that are kept beside the disk. `Inv`
  (`Invariance`) says what they are worth at every step, and after every error
  and crash: `PlanFits` what a match is, whatever has become of its zip; `Counted`
  that `usedCnt` of a zip is the number of files still to be copied from it;
  `Tidy` where temporary zips can be; `Mirror` that each list of provided files
  is empty or that of the zip, and `TrueMirror` that after a fresh scan it is the
  latter. `Mirror` is weaker because a failed attempt leaves lists of zips that
  are gone, which a second attempt may then use; this is why what is copied is
  right (`RepackedRight`) although a retry may fail at any match. `Finished` says
  that from the last repacked zip on each zip of the target is under its name or
  its temporary name, never both, and `Listed` what the lists say at the end.
  From `Inv` follow `UpdaterTypeCorrect`, `PlanIsCarriedOut` (`PlanHolds`) and
  `UpdateSurvivesCrash` (`CrashRecovered`).

  `CopyInv` (`CopiesInvariance`) adds the count of copies: `hashProvidedCnt` of a
  hash is the number of its copies in old zips, repacked zips and reduced zips
  together, and is never zero for a file that was there. The hard step is
  `WriteReducedCopies`: a zip drops copies only while others are left, which
  is a matter of ranks (`KeptCount`, from `LastPosition`: of finitely many
  positions the last has all of them up to it). From it follow
  `UpdateLosesNothing` (`NothingLost`) and `UpdateIsRight` (`OutputIsRight`), for
  any zips, versions and installations, and servers that satisfy
  `UpdaterAssumption`: they have all of every version, urls have different
  relative paths (see section 8), and no target
  names a file of a zip twice (which the code asserts).

Where a proof needs induction over numbers it takes the least element of a set,
from `WFMin` of `WellFoundedInduction`. With it `FirstId` of the downloads and the
function in `Without` of the events are shown to satisfy the equations they are
defined by, and these give what the theorems need of them.

`Handshake`, `FetchMutex`, `Protocol`, `Protected` and the other invariants named
above are what the provers need; TLC has checked them on the instances of section
4, and what a reader wants of them is checked in each run.

Only model-checked: liveness, which rests on fairness and ENABLED and is out of the
prover's reach: `WaitReturns`, `WaitEnds`, `StopEnds`, `SubmissionEnds`, `FreeEnds`,
`FrameEnds`, `ShutdownEnds`, `QueueDrains`, `CalmsDown`, `ServiceEnds`, `KeyLocks`, and
the violated `FlightGoesOn`.

## 7. What the checks found

A disagreement between the code and what it says of itself, a run that TLC finds
violated, listed under `findings`:

- `mind_flight`: a flight that is interrupted and started again ends at once. The
  Init of the new FleeState clears the old FleeTask, whose end takes the mark of
  the flight off (`FleeState.cpp`, 74; `FleeTask.cpp`, 403).

Seen while modelling, without a run of their own. In the engine:

- `JOB_LIST_DONE` is not fetched when the last real job ends the list, so the
  done guard stays up after `Wait`; and a thread that holds only chained lists
  runs the first one regardless. No list of this program is chained.
- A spurious wake-up of `pthread_cond_wait` is reported as a signal
  (`posix_thread.cpp`, 413), so `WaitForThread` may return early, against
  `Thread.h`, 75. The run and the theorems take `SpuriousWakeups = FALSE`.
- After `com_smp` is switched on, one frame runs with frontend and backend on
  the same buffer (`tr_main.cpp`, 229); `BuffersApart` begins after it.
- An error of the backend and one of the frontend in one frame can end the
  process with an exception nobody catches (`RenderSystem.cpp`, 774).
- `idMapFile::TryReload` returns from a failed reload with the indirection of
  errors on (`FrameLoop`'s `TryReload`); the next error before a frame begins
  is then not caught.
- Handles keep 15 bits of the frame number: a surface not drawn for exactly
  32768 frames would take its old handle for a current one. A wipe or a preview
  ends a frame of the cache before pending commands are issued, whose draws are
  then late; a resize replaces the buffer that the last frame's draws refer to.

In the game:

- The download page announces a result while a language pack is still being
  transferred (a copied id at `DownloadMenu.cpp`, 719), and removes it. A
  download destroyed before its worker has made its first request ends the
  process (`Download.cpp`, 73). A mission selected while others are being
  downloaded is not known to the manager, and deselecting it follows a null
  pointer (`CancelUnknown`); `Stop` may move the URL index between the worker's
  test and its use (`crash = "bounds"`).
- Of two states replaced between two Thinks the first is dropped without its
  Cleanup (the bin holds one, `State.cpp`, 373): an AI may stay marked as
  talking. A combat without enemy ends twice in one Think
  (`CombatState.cpp`, 567 and 1178), which takes a state below with it and, the
  bin holding one, frees the state that is running (`Mind.cpp`, 154). The
  blinded state, started again, remembers an acuity of 0 and leaves the AI
  blind. A loaded game has lost the pending Init and the bin.
- An event is lost to the pool when its callback, or the check of arguments in
  `Alloc`, throws (`Event.cpp`, 305 and 612): the pool is built once per
  process, and shrinks by one.
- A leaf that a moving AI blocks in the first frame of its opening is stopped
  where it was closed, which shuts the portal; it bounces and opens again
  without opening it (`BinaryFrobMover.cpp`, 1017). `PortalFollows` is
  therefore stated without bounces. A leaf told to turn round in the frame in
  which it started keeps `m_Open` and a lock request for ever. The opening after
  an unlock may interrupt a leaf that was opened in between (the comment in
  `OnUnlock` knows of it).

In the updater:

- A crash while a zip of a new name is being packed leaves a torn file that
  cleaning takes for a finished one and renames; every later scan fails on it,
  and the installer gets no further until it is removed by hand
  (`CommandLine.cpp`, 221). In the model `Scan` then returns to the settings.
- After a failed attempt the player may go back and choose another version
  without a new scan (with a custom version, `GuiPageConfirm.cpp`, 20); the plan
  is made for zips that are no longer there. It mostly ends in an error, but a
  zip with more files than expected may pass for unchanged, because
  `ProcessZipsWithoutRepacking` looks at as many files as it expects
  (`ZipSync.cpp`, 269). `OutputIsRight` and `PlanHolds` say nothing of such
  plans (`made = "outdated"`).
- After a failed attempt the matches point into the manifests of a destroyed
  `Repacker` or at downloads that cleaning has deleted: starting again fails
  until the player goes back to the settings.

## 8. Limits

- Memory is sequentially consistent: the interlocked operations are full
  barriers, and plain data is checked for being touched by one thread only
  where a property says so (`Quiescent`, `BuffersApart`). The flags that
  `CDownload` shares without a lock are taken as atomic words.
- Job list: statistics, the debug check for double jobs and the number of
  threads a submission may use are left out. `PairedSyncs` states that no
  SIGNAL is submitted without its SYNCHRONIZE, which holds of every caller.
- Frame loop: what tics and backend do is one command and one step. StartWipe,
  which issues the commands and toggles once in the middle of a frame,
  CaptureRenderToBuffer (both in `VertexCache`), the flag
  `insideUpdateScreen`, the partial `vid_restart` of a fatal error in full
  screen, and a script that changes `com_smp` during a tic are not modelled.
- Downloads: the three requests of the mission manager are one; an id it
  overwrites is forgotten as in the code. Two downloads never share a file
  here: starting a mission twice, which makes two downloads with one temporary
  name, is in the model with a file each. The numbers and words of the result
  page and the XML of the lists are left out.
- Vertex cache: static buffers, which nothing rewrites, and the index buffer,
  which goes the same way.
- Mind: sleep and the lesser reactions (doors, ropes, picked pockets), and what
  the states do besides alert level, enemy, posture, flight and conversation.
- Events: arguments, `g_stopTime`, the shutdown of the process. Every object with
  events is saved; that a loaded game misses one is not modelled.
- Doors: controllers, the fine control by mouse, the pins of a lock (one event
  stands for the last), automatic opening, saved games, a third door in the same
  portal. No leaf of the run is transparent; the theorem has such leaves.
- Updater: the update of the installer itself, the cache of manifests, HTTP
  ranges and retries of the downloader, the zip format. A server with several
  versions has zips of one relative path under several urls, which the model
  excludes. Within an attempt that changes nothing, because the code downloads each
  url to a file of its own (`ZipSync.cpp`, 655); what is left out is that a retry
  after a lost download takes one url's file for another's. The code may skip a
  scan when no zip has changed; the model scans each time. A foreign zip stands
  for the provided zips of the command line; the pages have none.
- Parts that are not modelled are listed with their reasons under `components`.
  Most of the million lines of the repository are vendored libraries, vector
  mathematics, rendering, collision, decoding and editors: sequential
  computations on floating point data, where a finite model would restate the
  code and check nothing. The models therefore cover a small share of all lines
  and keep to the parts in which the order of events decides.
