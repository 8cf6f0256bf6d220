------------------------------ MODULE VertexCache ------------------------------
(***************************************************************************)
(* idVertexCache (renderer/VertexCache.cpp) over its GpuBuffer             *)
(* (renderer/backend/GpuBuffer.cpp): the vertices of each frame are        *)
(* written straight into memory the GPU reads.  The buffer has three       *)
(* regions: the frontend fills one, the commands being issued read the one *)
(* before it, and the third is what the GPU may still be busy with.        *)
(* EndFrame moves on by one region and waits for a fence.                  *)
(*                                                                         *)
(* The main thread issues the commands of the last frame while the         *)
(* frontend builds the next one (idRenderSystemLocal::EndFrame); StartWipe *)
(* and the preview of a saved game draw and end a frame between two of     *)
(* these; vid_restart rebuilds the cache; an error drops a frame.  The GPU *)
(* takes what is issued in order.  The index buffer goes the same way as   *)
(* the vertex buffer and is left out; memory is counted in surfaces.       *)
(***************************************************************************)
EXTENDS Naturals, Sequences

CONSTANTS
    Surfaces,       \* triangle surfaces whose vertices are written per frame
    ScreenRect,     \* screenRectSurf, written by EndFrame itself
    NoCache,        \* NO_CACHE, and the absence of a fence
    MinSize,        \* r_frameVertexMemory
    SizeLimit,      \* MAX_VERTCACHE_SIZE / VERTCACHE_NUM_FRAMES / 2
    FrameNumbers,   \* 2 ^ VERTCACHE_FRAMENUM_BITS
    MaxFrames,      \* bound: calls of EndFrame
    MaxInFlight,    \* bound: submissions the driver takes before it blocks
    MaxDemand,      \* bound: allocations of a frame, the refused ones included
    MaxExtra,       \* bound: wipes and previews
    MaxTroubles     \* bound: dropped frames and restarts

ASSUME CacheAssumption ==
    /\ ScreenRect \notin Surfaces
    /\ NoCache \notin Nat
    /\ MinSize \in Nat \ {0} /\ SizeLimit \in Nat
    /\ FrameNumbers \in Nat \ {0}
    /\ MaxFrames \in Nat /\ MaxInFlight \in Nat /\ MaxDemand \in Nat
    /\ MaxExtra \in Nat /\ MaxTroubles \in Nat

\* Frame numbers do not wrap around in the frames looked at.
ASSUME NoWrapAround == 0 < MaxFrames /\ MaxFrames < FrameNumbers

VARIABLES
    smp,            \* com_smp: the frontend fills a chain of its own
    mpc,            \* the main thread
    drawingNow,     \* somebody (frontend thread, or main in its place) draws
    buffer,         \* the buffer object, counted
    frameSize,      \* surfaces a region of it holds
    currentDrawingFrame, currentWritingFrame,
    frameFences,    \* per region: submissions still ahead of its fence
    content,        \* per region and position: which surface, of which frame
    vertexMemUsed, currentVertexCacheSize, currentFrame,
    ambientCache,   \* the handle each surface keeps, screenRectSurf included
    frameData,      \* the draws of the chain being built
    backendFrameData, \* the draws of the chain to be issued
    gpu,            \* what was issued and is not finished, oldest first
    extra, troubles \* spent bounds

bufferVars == <<buffer, frameSize, currentDrawingFrame, currentWritingFrame, frameFences>>
cacheVars == <<vertexMemUsed, currentVertexCacheSize, currentFrame, content, ambientCache>>
chainVars == <<frameData, backendFrameData>>
boundVars == <<extra, troubles>>
vars == <<smp, mpc, drawingNow, bufferVars, cacheVars, chainVars, gpu, boundVars>>

Regions == 0 .. 2
Following(r) == (r + 1) % 3
Drawable == Surfaces \cup {ScreenRect}

-----------------------------------------------------------------------------
(* Handles.                                                                *)

\* A handle has region and offset in one number, and the frame only modulo
\* FrameNumbers; frame, and the buffer it was made in, are there to compare.
Handle(s, position) ==
    [tri |-> s, region |-> currentWritingFrame, position |-> position,
     frameNumber |-> currentFrame % FrameNumbers,
     frame |-> currentFrame, buffer |-> buffer]

\* Mutant of CacheIsCurrent: any handle is good.
AnyHandle(handle) == handle # NoCache

CacheIsCurrent(handle) ==
    handle # NoCache /\ handle.frameNumber = currentFrame % FrameNumbers

\* ActuallyAlloc: the interlocked add comes first, also for what has no room.
ActuallyAlloc(s) ==
    /\ vertexMemUsed' = vertexMemUsed + 1
    /\ IF vertexMemUsed + 1 > currentVertexCacheSize
       THEN ambientCache' = [ambientCache EXCEPT ![s] = NoCache] /\ UNCHANGED content
       ELSE /\ ambientCache' = [ambientCache EXCEPT ![s] = Handle(s, vertexMemUsed)]
            /\ content' = [content EXCEPT ![currentWritingFrame] =
                             [@ EXCEPT ![vertexMemUsed] = <<s, currentFrame>>]]

\* A draw is the handle as it is when the surface is added to a view; it is to
\* show the surface as of this frame.
DrawOf(handle) == [handle EXCEPT !.frame = currentFrame]

\* The frontend adds a surface: R_CreateAmbientCache, then the draw command.
UseSurface(s) ==
    /\ drawingNow
    /\ vertexMemUsed < MaxDemand
    /\ \A d \in frameData : d.tri = s => d.frame # currentFrame
    /\ IF CacheIsCurrent(ambientCache[s])
       THEN UNCHANGED <<vertexMemUsed, ambientCache, content>>
       ELSE ActuallyAlloc(s)
    /\ frameData' = IF ambientCache'[s] = NoCache THEN frameData
                    ELSE frameData \cup {DrawOf(ambientCache'[s])}
    /\ UNCHANGED <<smp, mpc, drawingNow, bufferVars, currentVertexCacheSize, currentFrame,
                   backendFrameData, gpu, boundVars>>

DrawingDone ==
    /\ drawingNow
    /\ drawingNow' = FALSE
    /\ UNCHANGED <<smp, mpc, bufferVars, cacheVars, chainVars, gpu, boundVars>>

-----------------------------------------------------------------------------
(* The GPU.                                                                *)

\* The oldest submission ends, and with it every fence right behind it.
GpuFinishes ==
    /\ gpu # <<>>
    /\ gpu' = Tail(gpu)
    /\ frameFences' = [r \in Regions |->
                         IF frameFences[r] = NoCache \/ frameFences[r] = 0
                         THEN frameFences[r] ELSE frameFences[r] - 1]
    /\ UNCHANGED <<smp, mpc, drawingNow, buffer, frameSize, currentDrawingFrame,
                   currentWritingFrame, cacheVars, chainVars, boundVars>>

\* A draw is late when EndFrame has moved on more than once since it was made,
\* or has replaced the buffer.
Late(d) == d.buffer # buffer \/ d.frame + 1 < currentFrame

\* R_IssueRenderCommands: the commands of a chain, and the full-screen
\* rectangle, go to the GPU.
Submit(draws) ==
    LET reads == draws \cup ({ambientCache[ScreenRect]} \ {NoCache})
    IN  IF draws = {} THEN UNCHANGED gpu
        ELSE /\ Len(gpu) < MaxInFlight
             /\ gpu' = Append(gpu, {[draw |-> d, late |-> Late(d)] : d \in reads})

\* With com_smp off there is one chain, and frontend and backend share it.
Chain == IF smp THEN backendFrameData ELSE frameData
ClearChain == IF smp THEN backendFrameData' = {} /\ UNCHANGED frameData
              ELSE frameData' = {} /\ UNCHANGED backendFrameData

\* R_ToggleSmpFrame
ToggleSmpFrame(built) == backendFrameData' = (IF smp THEN built ELSE {}) /\ frameData' = {}

-----------------------------------------------------------------------------
(* idRenderSystemLocal::EndFrame.                                          *)

\* The frontend starts; it runs at the same time, or first when a menu is open
\* or com_smp is off (ActivateFrontend).
ActivateFrontend ==
    /\ mpc = "idle" /\ currentFrame < MaxFrames
    /\ drawingNow' = TRUE
    /\ \/ smp /\ mpc' = "issue"
       \/ mpc' = "serial"
    /\ UNCHANGED <<smp, bufferVars, cacheVars, chainVars, gpu, boundVars>>

IssueRenderCommands ==
    /\ mpc = "issue" \/ (mpc = "serial" /\ ~drawingNow)
    /\ Submit(Chain) /\ ClearChain
    /\ mpc' = "wait"
    /\ UNCHANGED <<smp, drawingNow, bufferVars, cacheVars, boundVars>>

\* An error in backend or frontend: what was issued stays issued, the chains
\* stay as they are, and the frame ends without toggle and EndFrame.
Drop ==
    /\ mpc \in {"issue", "serial", "wait"} /\ ~drawingNow
    /\ troubles < MaxTroubles
    /\ troubles' = troubles + 1
    /\ IF mpc = "wait" THEN UNCHANGED gpu ELSE \E part \in SUBSET Chain : Submit(part)
    /\ mpc' = "idle"
    /\ UNCHANGED <<smp, drawingNow, bufferVars, cacheVars, chainVars, extra>>

\* GpuBuffer::SwitchFrame up to its wait.  The cache counts its frame here too.
SwitchFrame ==
    /\ frameFences' = [frameFences EXCEPT ![currentDrawingFrame] = Len(gpu)]
    /\ currentDrawingFrame' = Following(currentDrawingFrame)
    /\ currentWritingFrame' = Following(currentWritingFrame)
    /\ currentFrame' = currentFrame + 1
    /\ UNCHANGED <<smp, buffer, frameSize, vertexMemUsed, currentVertexCacheSize,
                   content, ambientCache, gpu>>

EndFrame ==
    /\ mpc = "wait" /\ ~drawingNow
    /\ ToggleSmpFrame(frameData)
    /\ SwitchFrame
    /\ mpc' = "await"
    /\ UNCHANGED <<drawingNow, boundVars>>

\* Doubled while too small: every size on the way is below demand and limit.
Doublings == {1, 2, 4, 8, 16, 32}
GrownTo(size) ==
    \E k \in Doublings :
       /\ size = k * currentVertexCacheSize
       /\ size >= vertexMemUsed \/ size >= SizeLimit
       /\ \A j \in Doublings : j < k => /\ j * currentVertexCacheSize < vertexMemUsed
                                        /\ j * currentVertexCacheSize < SizeLimit

\* Mutant of FencePassed: EndFrame does not wait.
NotFenced == TRUE

\* glClientWaitSync
FencePassed == frameFences[currentWritingFrame] \in {NoCache, 0}

Blank(size) == [r \in Regions |-> [p \in 0 .. size - 1 |-> NoCache]]

\* A region starts with the rectangle at its first position.
StartRegion(region, regions) ==
    /\ vertexMemUsed' = 1
    /\ content' = [regions EXCEPT ![region] = [@ EXCEPT ![0] = <<ScreenRect, currentFrame>>]]
    /\ ambientCache' = [ambientCache EXCEPT ![ScreenRect] =
         [tri |-> ScreenRect, region |-> region, position |-> 0,
          frameNumber |-> currentFrame % FrameNumbers, frame |-> currentFrame,
          buffer |-> buffer']]

\* The rest of EndFrame once the fence of the new region is passed: the size
\* follows the demand, and a buffer that is too small is replaced.
Awaiting == {"await", "wipeAwait", "previewAwait"}
AfterEndFrame == [p \in Awaiting |->
    IF p = "await" THEN "idle" ELSE IF p = "wipeAwait" THEN "wipeGui" ELSE "previewIssue"]

FinishEndFrame ==
    /\ mpc \in Awaiting
    /\ FencePassed
    /\ \E size \in {k * currentVertexCacheSize : k \in Doublings} :
         /\ GrownTo(size)
         /\ currentVertexCacheSize' = size
         /\ IF frameSize < size
            THEN /\ buffer' = buffer + 1
                 /\ frameSize' = size
                 /\ currentDrawingFrame' = 0 /\ currentWritingFrame' = 1
                 /\ frameFences' = [r \in Regions |-> NoCache]
                 /\ StartRegion(1, Blank(size))
            ELSE /\ frameFences' = [frameFences EXCEPT ![currentWritingFrame] = NoCache]
                 /\ UNCHANGED <<buffer, frameSize, currentDrawingFrame, currentWritingFrame>>
                 /\ StartRegion(currentWritingFrame, content)
    /\ mpc' = AfterEndFrame[mpc]
    /\ drawingNow' = (mpc' = "wipeGui")
    /\ UNCHANGED <<smp, currentFrame, chainVars, gpu, boundVars>>

-----------------------------------------------------------------------------
(* Frames ended out of turn.                                               *)

\* StartWipe and the preview of a saved game: the main thread draws into the
\* chain being built.  The preview begins with qglFinish.
DrawBetweenFrames ==
    /\ mpc = "idle" /\ currentFrame < MaxFrames /\ extra < MaxExtra
    /\ extra' = extra + 1
    /\ drawingNow' = TRUE
    /\ \/ mpc' = "wipe"
       \/ mpc' = "preview" /\ gpu = <<>>
    /\ UNCHANGED <<smp, bufferVars, cacheVars, chainVars, gpu, troubles>>

EndFrameBetween ==
    /\ mpc \in {"wipe", "preview"} /\ ~drawingNow
    /\ SwitchFrame
    /\ mpc' = IF mpc = "wipe" THEN "wipeAwait" ELSE "previewAwait"
    /\ UNCHANGED <<drawingNow, chainVars, boundVars>>

\* StartWipe: EmitFullScreen has drawn the rest; then the chain of the frame
\* before is issued, and the chains change hands.
WipeIssues ==
    /\ mpc = "wipeGui" /\ ~drawingNow
    /\ Submit(Chain)
    /\ ToggleSmpFrame(frameData)
    /\ mpc' = "idle"
    /\ UNCHANGED <<smp, drawingNow, bufferVars, cacheVars, boundVars>>

\* CaptureRenderToBuffer: the chain just built is issued; nothing is toggled.
PreviewIssues ==
    /\ mpc = "previewIssue"
    /\ Submit(frameData)
    /\ frameData' = {}
    /\ mpc' = "idle"
    /\ UNCHANGED <<smp, drawingNow, bufferVars, cacheVars, backendFrameData, boundVars>>

\* vid_restart: both chains are emptied, and the cache shuts down and starts
\* again, with the EndFrame that Init makes.
PurgeAll ==
    /\ mpc = "idle" /\ currentFrame < MaxFrames /\ troubles < MaxTroubles
    /\ troubles' = troubles + 1
    /\ frameData' = {} /\ backendFrameData' = {}
    /\ buffer' = buffer + 1
    /\ currentVertexCacheSize' = MinSize /\ frameSize' = MinSize
    /\ currentDrawingFrame' = 1 /\ currentWritingFrame' = 2
    /\ frameFences' = [r \in Regions |-> IF r = 0 THEN Len(gpu) ELSE NoCache]
    /\ currentFrame' = 1
    /\ vertexMemUsed' = 1
    /\ content' = [Blank(MinSize) EXCEPT ![2] = [@ EXCEPT ![0] = <<ScreenRect, 1>>]]
    /\ ambientCache' = [s \in Drawable |->
         IF s # ScreenRect THEN NoCache       \* R_FreeDerivedData, FreeModelVertexCaches
         ELSE [tri |-> ScreenRect, region |-> 2, position |-> 0,
               frameNumber |-> 1 % FrameNumbers, frame |-> 1, buffer |-> buffer + 1]]
    /\ UNCHANGED <<smp, mpc, drawingNow, gpu, extra>>

-----------------------------------------------------------------------------
\* After idVertexCache::Init.
Init ==
    /\ smp \in BOOLEAN
    /\ mpc = "idle" /\ drawingNow = FALSE
    /\ buffer = 1 /\ frameSize = MinSize
    /\ currentDrawingFrame = 1 /\ currentWritingFrame = 2
    /\ frameFences = [r \in Regions |-> IF r = 0 THEN 0 ELSE NoCache]
    /\ currentFrame = 1 /\ currentVertexCacheSize = MinSize /\ vertexMemUsed = 1
    /\ content = [Blank(MinSize) EXCEPT ![2] = [@ EXCEPT ![0] = <<ScreenRect, 1>>]]
    /\ ambientCache = [s \in Drawable |->
         IF s # ScreenRect THEN NoCache
         ELSE [tri |-> ScreenRect, region |-> 2, position |-> 0,
               frameNumber |-> 1 % FrameNumbers, frame |-> 1, buffer |-> 1]]
    /\ frameData = {} /\ backendFrameData = {} /\ gpu = <<>>
    /\ extra = 0 /\ troubles = 0

Next ==
    \/ \E s \in Surfaces : UseSurface(s)
    \/ DrawingDone \/ GpuFinishes
    \/ ActivateFrontend \/ IssueRenderCommands \/ Drop \/ EndFrame \/ FinishEndFrame
    \/ DrawBetweenFrames \/ EndFrameBetween \/ WipeIssues \/ PreviewIssues \/ PurgeAll

Spec == Init /\ [][Next]_vars

-----------------------------------------------------------------------------
(* Properties.                                                             *)

Intact(d) == d.buffer = buffer => content[d.region][d.position] = <<d.tri, d.frame>>

Handles == [tri : Drawable, region : Regions, position : Nat,
            frameNumber : 0 .. FrameNumbers - 1, frame : Nat, buffer : Nat]

\* The values of the variables.
TypeOK ==
    /\ smp \in BOOLEAN /\ drawingNow \in BOOLEAN
    /\ mpc \in Awaiting \cup {"idle", "issue", "serial", "wait", "wipe", "wipeGui",
                             "preview", "previewIssue"}
    /\ buffer \in Nat /\ frameSize \in Nat
    /\ currentDrawingFrame \in Regions /\ currentWritingFrame \in Regions
    /\ frameFences \in [Regions -> Nat \cup {NoCache}]
    /\ vertexMemUsed \in Nat /\ currentVertexCacheSize \in Nat /\ currentFrame \in Nat
    /\ ambientCache \in [Drawable -> Handles \cup {NoCache}]
    /\ frameData \subseteq Handles /\ backendFrameData \subseteq Handles
    /\ gpu \in Seq(SUBSET [draw : Handles, late : BOOLEAN])
    /\ extra \in Nat /\ troubles \in Nat

\* The regions turn: the one drawn from has no fence yet (the assertion of
\* SwitchFrame), nor has the one written to once EndFrame is over; fences lie
\* behind what was submitted.
Rotation ==
    /\ frameFences[currentDrawingFrame] = NoCache
    /\ mpc \notin Awaiting => frameFences[currentWritingFrame] = NoCache
    /\ \A r \in Regions : frameFences[r] # NoCache => frameFences[r] <= Len(gpu)
    /\ currentWritingFrame = Following(currentDrawingFrame)

\* The region being written holds the surfaces allocated this frame, and ends
\* where the next one begins.
Filling ==
    /\ currentVertexCacheSize \in 1 .. frameSize
    /\ content \in [Regions -> [0 .. frameSize - 1 -> (Drawable \X Nat) \cup {NoCache}]]

\* A handle or draw of this frame lies in the part already written, one of the
\* frame before in the region drawn from; both are as they were written.
Fresh(d) ==
    /\ d.buffer = buffer
    /\ d.frame = currentFrame => /\ mpc \notin Awaiting
                                 /\ d.region = currentWritingFrame
                                 /\ d.position < vertexMemUsed
    /\ d.frame # currentFrame => d.region = currentDrawingFrame
    /\ Intact(d)

HandlesFresh ==
    \A s \in Drawable : LET h == ambientCache[s] IN h # NoCache =>
       /\ h.tri = s /\ h.buffer <= buffer
       /\ h.frameNumber = h.frame % FrameNumbers /\ h.frame <= currentFrame
       /\ h.frame = currentFrame => Fresh(h)

ScreenRectFresh == mpc \notin Awaiting => /\ ambientCache[ScreenRect].frame = currentFrame
                                          /\ vertexMemUsed > 0

ChainsFresh == \A d \in frameData \cup backendFrameData :
    d.frame <= currentFrame /\ d.buffer <= buffer /\ (~Late(d) => Fresh(d))

\* What the GPU still reads of this buffer is drawn from, or is in the part of
\* the region already written, or a fence behind it is still ahead.
Fenced == \A i \in 1 .. Len(gpu) : \A r \in gpu[i] :
    /\ r.draw.buffer <= buffer
    /\ (~r.late /\ r.draw.buffer = buffer) =>
         \/ r.draw.region = currentDrawingFrame
         \/ /\ r.draw.region = currentWritingFrame /\ mpc \notin Awaiting
            /\ r.draw.position < vertexMemUsed
         \/ frameFences[r.draw.region] # NoCache /\ frameFences[r.draw.region] >= i

\* The fences protect what the GPU still reads: whatever the order in which
\* frontend, backend and GPU get on, over resizes, restarts and dropped frames,
\* no surface of a submission is overwritten before the submission is over,
\* unless it was issued late.
DrawsIntact == \A i \in 1 .. Len(gpu) : \A r \in gpu[i] : r.late \/ Intact(r.draw)

\* Nobody draws while EndFrame waits for the fence, and frames are counted.
Drawing == drawingNow => mpc \in {"issue", "serial", "wait", "wipe", "wipeGui", "preview"}
Counted ==
    /\ currentFrame <= MaxFrames
    /\ mpc \in {"issue", "serial", "wait", "wipe", "preview"} => currentFrame < MaxFrames

\* Why the fences protect the draws: the inductive invariant.
Protected == /\ TypeOK /\ Rotation /\ Filling /\ Drawing /\ Counted
             /\ HandlesFresh /\ ScreenRectFresh /\ ChainsFresh /\ Fenced /\ DrawsIntact

\* CacheIsCurrent speaks the truth while frame numbers do not wrap around: the
\* surface of a handle it accepts is in the region being written, of this frame.
CurrentMeansWritten ==
    \A s \in Surfaces :
       CacheIsCurrent(ambientCache[s]) =>
          /\ ambientCache[s].buffer = buffer
          /\ ambientCache[s].region = currentWritingFrame
          /\ content[currentWritingFrame][ambientCache[s].position] = <<s, currentFrame>>
=============================================================================
