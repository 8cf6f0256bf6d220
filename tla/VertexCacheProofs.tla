--------------------------- MODULE VertexCacheProofs ---------------------------
(***************************************************************************)
(* Proofs about the vertex cache, for any number of surfaces, any sizes and  *)
(* any depth of the GPU's queue: what was submitted in time is never         *)
(* overwritten, and a handle that passes for current is.  Five kinds of      *)
(* steps matter: an allocation, the end of a submission on the GPU, a        *)
(* submission, the turn of the regions, and the end of EndFrame.             *)
(***************************************************************************)
EXTENDS VertexCache, TLAPS

-----------------------------------------------------------------------------
(* Arithmetic.                                                              *)

LEMMA SmallModulo ==
    ASSUME NEW x \in Nat, NEW n \in Nat, x < n
    PROVE  x % n = x
BY SMTT(30)

LEMMA FrameNumberType ==
    ASSUME NEW x \in Nat
    PROVE  x % FrameNumbers \in 0 .. FrameNumbers - 1
BY SMTT(30), CacheAssumption

\* Frames of the range looked at are told apart by their number.
LEMMA FrameTold ==
    ASSUME NEW x \in Nat, NEW y \in Nat, x <= y, y < FrameNumbers,
           x % FrameNumbers = y % FrameNumbers
    PROVE  x = y
<1>1. x < FrameNumbers /\ FrameNumbers \in Nat
  BY CacheAssumption
<1>2. x % FrameNumbers = x
  BY <1>1, SmallModulo
<1>3. y % FrameNumbers = y
  BY <1>1, SmallModulo
<1> QED
  BY <1>2, <1>3

\* The three regions, one after the other.
LEMMA Turning ==
    ASSUME NEW r \in Regions
    PROVE  /\ Following(r) \in Regions /\ Following(r) # r
           /\ Following(Following(r)) # r /\ Following(Following(r)) # Following(r)
<1>1. CASE r = 0
  BY <1>1 DEF Regions, Following
<1>2. CASE r = 1
  BY <1>2 DEF Regions, Following
<1>3. CASE r = 2
  BY <1>3 DEF Regions, Following
<1> QED
  BY <1>1, <1>2, <1>3 DEF Regions

\* The turn leaves the region written to different from the one drawn from.
LEMMA RegionsApart ==
    ASSUME TypeOK, Rotation
    PROVE  currentWritingFrame # currentDrawingFrame
BY Turning DEF TypeOK, Rotation

-----------------------------------------------------------------------------
(* An allocation.                                                           *)

\* Room at the end of the region being written: nobody is to read what lies
\* there, be it by a handle, in a chain or on the GPU.
LEMMA FreshOnly ==
    ASSUME Protected, drawingNow
    PROVE  /\ mpc \notin Awaiting
           /\ \A s \in Drawable : ambientCache[s] # NoCache /\ ambientCache[s].frame = currentFrame
                => ambientCache[s].position # vertexMemUsed
           /\ \A d \in frameData \cup backendFrameData :
                ~Late(d) => d.region # currentWritingFrame \/ d.position # vertexMemUsed
           /\ \A i \in 1 .. Len(gpu) : \A r \in gpu[i] :
                (~r.late /\ r.draw.buffer = buffer)
                  => r.draw.region # currentWritingFrame \/ r.draw.position # vertexMemUsed
<1>1. mpc \notin Awaiting
  BY DEF Protected, Drawing, Awaiting
<1>2. currentWritingFrame # currentDrawingFrame
  BY RegionsApart DEF Protected
<1>3. \A h \in Handles : Fresh(h) => h.region # currentWritingFrame \/ h.position # vertexMemUsed
  BY <1>2 DEF Fresh, Handles, Protected, TypeOK
<1>4. \A s \in Drawable : ambientCache[s] # NoCache /\ ambientCache[s].frame = currentFrame
        => ambientCache[s].position # vertexMemUsed
  <2> SUFFICES ASSUME NEW s \in Drawable, ambientCache[s] # NoCache,
                      ambientCache[s].frame = currentFrame
               PROVE  ambientCache[s].position # vertexMemUsed
    OBVIOUS
  <2>1. ambientCache[s] \in Handles
    BY DEF Protected, TypeOK
  <2>2. Fresh(ambientCache[s])
    BY DEF Protected, HandlesFresh
  <2> QED
    BY <2>1, <2>2 DEF Fresh, Handles, Protected, TypeOK
<1>5. \A d \in frameData \cup backendFrameData :
        ~Late(d) => d.region # currentWritingFrame \/ d.position # vertexMemUsed
  <2>1. \A d \in frameData \cup backendFrameData : d \in Handles
    BY DEF Protected, TypeOK
  <2> QED
    BY <1>3, <2>1 DEF Protected, ChainsFresh
<1>6. ASSUME NEW i \in 1 .. Len(gpu), NEW r \in gpu[i], ~r.late, r.draw.buffer = buffer
      PROVE  r.draw.region # currentWritingFrame \/ r.draw.position # vertexMemUsed
  <2>1. gpu[i] \in SUBSET [draw : Handles, late : BOOLEAN]
    BY DEF Protected, TypeOK
  <2>2. r.draw \in Handles
    BY <2>1
  <2>3. \/ r.draw.region = currentDrawingFrame
        \/ /\ r.draw.region = currentWritingFrame /\ mpc \notin Awaiting
           /\ r.draw.position < vertexMemUsed
        \/ frameFences[r.draw.region] # NoCache /\ frameFences[r.draw.region] >= i
    BY <1>6 DEF Protected, Fenced
  <2>4. frameFences[currentWritingFrame] = NoCache
    BY <1>1 DEF Protected, Rotation
  <2> QED
    BY <1>2, <2>2, <2>3, <2>4 DEF Handles, Protected, TypeOK
<1> QED
  BY <1>1, <1>4, <1>5, <1>6

LEMMA UseSurfaceProtects ==
    ASSUME Protected, NEW s \in Surfaces, UseSurface(s)
    PROVE  Protected'
<1> DEFINE cached == CacheIsCurrent(ambientCache[s])
           used == vertexMemUsed
           fits == used + 1 <= currentVertexCacheSize
<1> USE DEF Drawable
<1>1. /\ drawingNow
      /\ UNCHANGED <<smp, mpc, drawingNow, bufferVars, currentVertexCacheSize, currentFrame,
                     backendFrameData, gpu, boundVars>>
      /\ frameData' = IF ambientCache'[s] = NoCache THEN frameData
                      ELSE frameData \cup {DrawOf(ambientCache'[s])}
  BY DEF UseSurface
<1>2. /\ mpc \notin Awaiting
      /\ \A t \in Drawable : ambientCache[t] # NoCache /\ ambientCache[t].frame = currentFrame
           => ambientCache[t].position # used
      /\ \A d \in frameData \cup backendFrameData :
           ~Late(d) => d.region # currentWritingFrame \/ d.position # used
      /\ \A i \in 1 .. Len(gpu) : \A r \in gpu[i] :
           (~r.late /\ r.draw.buffer = buffer)
             => r.draw.region # currentWritingFrame \/ r.draw.position # used
  BY <1>1, FreshOnly
<1>3. /\ used \in Nat /\ currentVertexCacheSize \in 1 .. frameSize /\ frameSize \in Nat
      /\ currentWritingFrame \in Regions /\ currentFrame \in Nat /\ buffer \in Nat
      /\ content \in [Regions -> [0 .. frameSize - 1 -> (Drawable \X Nat) \cup {NoCache}]]
      /\ ambientCache \in [Drawable -> Handles \cup {NoCache}]
      /\ s \in Drawable /\ s # ScreenRect
  BY CacheAssumption DEF Protected, TypeOK, Filling
\* The memory: at most the first free position is written.
<1>4. /\ vertexMemUsed' \in Nat /\ used <= vertexMemUsed'
      /\ content' \in [Regions -> [0 .. frameSize - 1 -> (Drawable \X Nat) \cup {NoCache}]]
      /\ \A r \in Regions, p \in Nat :
           r # currentWritingFrame \/ p # used => content'[r][p] = content[r][p]
  <2>1. CASE cached \/ ~fits
    BY <1>3, <2>1 DEF UseSurface, ActuallyAlloc
  <2>2. CASE ~cached /\ fits
    <3> DEFINE row == [content[currentWritingFrame] EXCEPT ![used] = <<s, currentFrame>>]
    <3>1. /\ vertexMemUsed' = used + 1
          /\ content' = [content EXCEPT ![currentWritingFrame] = row]
      BY <1>3, <2>2 DEF UseSurface, ActuallyAlloc
    <3>2. used \in 0 .. frameSize - 1
      BY <1>3, <2>2
    <3>3. /\ row \in [0 .. frameSize - 1 -> (Drawable \X Nat) \cup {NoCache}]
          /\ \A p \in Nat : p # used => row[p] = content[currentWritingFrame][p]
      BY <1>3, <3>2
    <3> HIDE DEF row
    <3> QED
      BY <1>3, <3>1, <3>3
  <2> QED
    BY <2>1, <2>2
\* The handle of the surface is of this frame, or there is none.
<1>5. /\ ambientCache' \in [Drawable -> Handles \cup {NoCache}]
      /\ \A t \in Drawable : t # s => ambientCache'[t] = ambientCache[t]
      /\ ambientCache'[s] # NoCache =>
           LET h == ambientCache'[s] IN
           /\ h.tri = s /\ h.buffer = buffer /\ h.frame = currentFrame
           /\ h.frameNumber = currentFrame % FrameNumbers
           /\ h.region = currentWritingFrame /\ h.position < vertexMemUsed'
           /\ content'[h.region][h.position] = <<s, currentFrame>>
  <2>1. CASE cached
    <3> DEFINE h == ambientCache[s]
    <3>1. h # NoCache /\ h \in Handles /\ h.frameNumber = currentFrame % FrameNumbers
      BY <1>3, <2>1 DEF CacheIsCurrent
    <3>2. /\ h.tri = s /\ h.frameNumber = h.frame % FrameNumbers /\ h.frame <= currentFrame
          /\ h.frame = currentFrame => Fresh(h)
      BY <1>3, <3>1 DEF Protected, HandlesFresh
    <3>3. h.frame = currentFrame
      <4>1. currentFrame < FrameNumbers /\ h.frame \in Nat
        BY <1>3, <3>1, NoWrapAround, CacheAssumption DEF Protected, Counted, Handles
      <4>2. h.frame % FrameNumbers = currentFrame % FrameNumbers
        BY <3>1, <3>2
      <4> HIDE DEF h
      <4> QED
        BY <1>3, <3>2, <4>1, <4>2, FrameTold
    <3>4. /\ h.buffer = buffer /\ h.region = currentWritingFrame /\ h.position < used
          /\ content[h.region][h.position] = <<s, currentFrame>>
      BY <3>2, <3>3 DEF Fresh, Intact
    <3>5. vertexMemUsed' = used /\ UNCHANGED <<ambientCache, content>>
      BY <2>1 DEF UseSurface
    <3> QED
      BY <1>3, <3>1, <3>2, <3>3, <3>4, <3>5
  <2>2. CASE ~cached /\ ~fits
    <3>1. ambientCache' = [ambientCache EXCEPT ![s] = NoCache]
      BY <1>3, <2>2 DEF UseSurface, ActuallyAlloc
    <3> QED
      BY <1>3, <3>1
  <2>3. CASE ~cached /\ fits
    <3> DEFINE h == Handle(s, used)
    <3>1. /\ vertexMemUsed' = used + 1
          /\ ambientCache' = [ambientCache EXCEPT ![s] = h]
          /\ content' = [content EXCEPT ![currentWritingFrame] =
                           [@ EXCEPT ![used] = <<s, currentFrame>>]]
      BY <1>3, <2>3 DEF UseSurface, ActuallyAlloc
    <3>2. used \in 0 .. frameSize - 1
      BY <1>3, <2>3
    <3>3. content'[currentWritingFrame][used] = <<s, currentFrame>>
      BY <1>3, <3>1, <3>2
    <3>4. /\ h.tri = s /\ h.buffer = buffer /\ h.frame = currentFrame
          /\ h.frameNumber = currentFrame % FrameNumbers
          /\ h.region = currentWritingFrame /\ h.position = used
      BY DEF Handle
    <3>5. h \in Handles
      BY <1>3, FrameNumberType DEF Handle, Handles
    <3> HIDE DEF h
    <3> QED
      BY <1>3, <3>1, <3>3, <3>4, <3>5
  <2> QED
    BY <2>1, <2>2, <2>3
\* What is intact stays so.
<1>6. \A h \in Handles : /\ h.region # currentWritingFrame \/ h.position # used
                         /\ Intact(h)
                         => (h.buffer = buffer =>
                               content'[h.region][h.position] = <<h.tri, h.frame>>)
  BY <1>4 DEF Intact, Handles
<1>7. /\ buffer' = buffer /\ frameSize' = frameSize /\ mpc' = mpc
      /\ currentDrawingFrame' = currentDrawingFrame /\ currentWritingFrame' = currentWritingFrame
      /\ frameFences' = frameFences /\ currentFrame' = currentFrame /\ gpu' = gpu
      /\ currentVertexCacheSize' = currentVertexCacheSize
      /\ smp' = smp /\ drawingNow' = drawingNow /\ backendFrameData' = backendFrameData
      /\ extra' = extra /\ troubles' = troubles
  BY <1>1 DEF bufferVars, boundVars
<1>8. \A h \in Handles : Fresh(h) => (Fresh(h))'
  <2> SUFFICES ASSUME NEW h \in Handles, Fresh(h) PROVE (Fresh(h))'
    OBVIOUS
  <2>1. h.region # currentWritingFrame \/ h.position # used
    <3>1. currentWritingFrame # currentDrawingFrame
      BY RegionsApart DEF Protected
    <3> QED
      BY <1>3, <3>1 DEF Fresh, Handles
  <2>2. content'[h.region][h.position] = <<h.tri, h.frame>>
    BY <1>6, <2>1 DEF Fresh
  <2>3. h.position \in Nat /\ (h.position < used => h.position < vertexMemUsed')
    BY <1>3, <1>4 DEF Handles
  <2> QED
    BY <1>7, <2>2, <2>3 DEF Fresh, Intact
<1>9. ambientCache'[s] # NoCache => /\ ambientCache'[s] \in Handles
                                    /\ (Fresh(ambientCache[s]))'
  BY <1>2, <1>5, <1>7 DEF Fresh, Intact
<1>10. \A d \in frameData' : d \in frameData
         \/ (ambientCache'[s] # NoCache /\ d = ambientCache'[s])
  <2>1. ambientCache'[s] # NoCache => DrawOf(ambientCache'[s]) = ambientCache'[s]
    <3> SUFFICES ASSUME ambientCache'[s] # NoCache
                 PROVE  DrawOf(ambientCache'[s]) = ambientCache'[s]
      OBVIOUS
    <3>1. ambientCache'[s] \in Handles /\ ambientCache'[s].frame = currentFrame
      BY <1>3, <1>5
    <3>2. currentFrame' = currentFrame
      BY <1>7
    <3> QED
      BY <3>1, <3>2 DEF DrawOf, Handles
  <2> QED
    BY <1>1, <2>1
<1>11. TypeOK'
  <2>1. frameData' \subseteq Handles
    BY <1>9, <1>10 DEF Protected, TypeOK
  <2> QED
    BY <1>4, <1>5, <1>7, <2>1 DEF Protected, TypeOK
<1>12. Rotation' /\ Filling' /\ Drawing' /\ Counted'
  BY <1>4, <1>7 DEF Protected, Rotation, Filling, Drawing, Counted
<1>13. HandlesFresh'
  <2> SUFFICES ASSUME NEW t \in Drawable, ambientCache'[t] # NoCache
               PROVE  LET h == ambientCache'[t] IN
                      /\ h.tri = t /\ h.buffer <= buffer
                      /\ h.frameNumber = h.frame % FrameNumbers /\ h.frame <= currentFrame
                      /\ h.frame = currentFrame => (Fresh(ambientCache[t]))'
    BY <1>7 DEF HandlesFresh
  <2>1. CASE t = s
    BY <1>3, <1>5, <1>9, <2>1
  <2>2. CASE t # s
    <3>1. ambientCache'[t] = ambientCache[t] /\ ambientCache[t] \in Handles
      BY <1>3, <1>5, <2>2
    <3>2. /\ ambientCache[t].tri = t /\ ambientCache[t].buffer <= buffer
          /\ ambientCache[t].frameNumber = ambientCache[t].frame % FrameNumbers
          /\ ambientCache[t].frame <= currentFrame
          /\ ambientCache[t].frame = currentFrame => Fresh(ambientCache[t])
      BY <3>1 DEF Protected, HandlesFresh
    <3>3. ambientCache[t].frame = currentFrame => (Fresh(ambientCache[t]))'
      <4> SUFFICES ASSUME ambientCache[t].frame = currentFrame
                   PROVE  (Fresh(ambientCache[t]))'
        OBVIOUS
      <4>1. PICK h \in Handles : h = ambientCache[t]
        BY <3>1
      <4>2. Fresh(h)
        BY <3>2, <4>1
      <4>3. (Fresh(h))'
        BY <1>8, <4>2
      <4>4. h = ambientCache'[t]
        BY <3>1, <4>1
      <4> QED
        BY <4>3, <4>4 DEF Fresh, Intact
    <3> QED
      BY <3>1, <3>2, <3>3
  <2> QED
    BY <2>1, <2>2
<1>14. ScreenRectFresh'
  BY <1>2, <1>3, <1>4, <1>5, <1>7 DEF Protected, ScreenRectFresh
<1>15. ChainsFresh'
  <2> SUFFICES ASSUME NEW d \in frameData' \cup backendFrameData'
               PROVE  /\ d.frame <= currentFrame /\ d.buffer <= buffer
                      /\ ~Late(d) => (Fresh(d))'
    BY <1>7 DEF ChainsFresh, Late
  <2>1. CASE d \in frameData \cup backendFrameData
    <3>1. d \in Handles
      BY <2>1 DEF Protected, TypeOK
    <3> QED
      BY <1>8, <2>1, <3>1 DEF Protected, ChainsFresh
  <2>2. CASE ambientCache'[s] # NoCache /\ d = ambientCache'[s]
    <3>1. d.frame = currentFrame /\ d.buffer = buffer
      BY <1>5, <2>2
    <3>2. (Fresh(d))'
      BY <1>9, <2>2 DEF Fresh, Intact
    <3> QED
      BY <1>3, <3>1, <3>2
  <2> QED
    BY <1>7, <1>10, <2>1, <2>2
<1>16. Fenced' /\ DrawsIntact'
  <2> SUFFICES ASSUME NEW i \in 1 .. Len(gpu), NEW r \in gpu[i]
               PROVE  /\ r.draw.buffer <= buffer
                      /\ (~r.late /\ r.draw.buffer = buffer) =>
                           \/ r.draw.region = currentDrawingFrame
                           \/ /\ r.draw.region = currentWritingFrame
                              /\ mpc \notin Awaiting
                              /\ r.draw.position < vertexMemUsed'
                           \/ /\ frameFences[r.draw.region] # NoCache
                              /\ frameFences[r.draw.region] >= i
                      /\ r.late \/ (Intact(r.draw))'
    BY <1>7 DEF Fenced, DrawsIntact
  <2>1. r.draw \in Handles
    BY DEF Protected, TypeOK
  <2>2. /\ r.draw.buffer <= buffer
        /\ (~r.late /\ r.draw.buffer = buffer) =>
             \/ r.draw.region = currentDrawingFrame
             \/ /\ r.draw.region = currentWritingFrame
                /\ mpc \notin Awaiting
                /\ r.draw.position < used
             \/ /\ frameFences[r.draw.region] # NoCache
                /\ frameFences[r.draw.region] >= i
        /\ r.late \/ Intact(r.draw)
    BY DEF Protected, Fenced, DrawsIntact
  <2>3. r.draw.position < used => r.draw.position < vertexMemUsed'
    BY <1>3, <1>4, <2>1 DEF Handles
  <2>4. ~r.late => (Intact(r.draw))'
    BY <1>2, <1>6, <1>7, <2>1, <2>2 DEF Intact
  <2> QED
    BY <2>2, <2>3, <2>4
<1> QED
  BY <1>11, <1>12, <1>13, <1>14, <1>15, <1>16 DEF Protected

-----------------------------------------------------------------------------
(* The GPU, and what is given to it.                                        *)

\* What a sequence without its first element, or with one more, looks like.
LEMMA TailElements ==
    ASSUME NEW S, NEW q \in Seq(S), q # <<>>
    PROVE  /\ Tail(q) \in Seq(S) /\ Len(Tail(q)) = Len(q) - 1 /\ Len(q) >= 1
           /\ \A i \in 1 .. Len(Tail(q)) : i + 1 \in 1 .. Len(q) /\ Tail(q)[i] = q[i + 1]
<1>1. Len(q) \in Nat /\ Len(q) >= 1 /\ Tail(q) \in Seq(S) /\ Len(Tail(q)) = Len(q) - 1
  OBVIOUS
<1>2. \A i \in 1 .. Len(Tail(q)) : i + 1 \in 1 .. Len(q) /\ Tail(q)[i] = q[i + 1]
  BY <1>1
<1> QED
  BY <1>1, <1>2

\* The end of a submission moves the rest forward, and the fences with it.
LEMMA GpuFinishesProtects ==
    ASSUME Protected, GpuFinishes
    PROVE  Protected'
<1>1. /\ gpu # <<>> /\ gpu' = Tail(gpu)
      /\ frameFences' = [r \in Regions |->
                           IF frameFences[r] = NoCache \/ frameFences[r] = 0
                           THEN frameFences[r] ELSE frameFences[r] - 1]
      /\ smp' = smp /\ mpc' = mpc /\ drawingNow' = drawingNow /\ buffer' = buffer
      /\ frameSize' = frameSize /\ currentDrawingFrame' = currentDrawingFrame
      /\ currentWritingFrame' = currentWritingFrame /\ vertexMemUsed' = vertexMemUsed
      /\ currentVertexCacheSize' = currentVertexCacheSize /\ currentFrame' = currentFrame
      /\ content' = content /\ ambientCache' = ambientCache /\ frameData' = frameData
      /\ backendFrameData' = backendFrameData /\ extra' = extra /\ troubles' = troubles
  BY DEF GpuFinishes, cacheVars, chainVars, boundVars
<1>2. /\ gpu' \in Seq(SUBSET [draw : Handles, late : BOOLEAN])
      /\ Len(gpu') = Len(gpu) - 1 /\ Len(gpu) \in Nat /\ Len(gpu) >= 1
      /\ \A i \in 1 .. Len(gpu') : i + 1 \in 1 .. Len(gpu) /\ gpu'[i] = gpu[i + 1]
  BY <1>1, TailElements DEF Protected, TypeOK
<1>3. /\ frameFences' \in [Regions -> Nat \cup {NoCache}]
      /\ \A r \in Regions : /\ frameFences[r] = NoCache <=> frameFences'[r] = NoCache
                            /\ frameFences[r] \in Nat =>
                                 /\ frameFences[r] = 0 => frameFences'[r] = 0
                                 /\ frameFences[r] > 0 => frameFences'[r] = frameFences[r] - 1
  BY <1>1, CacheAssumption DEF Protected, TypeOK
<1>4. TypeOK'
  BY <1>1, <1>2, <1>3 DEF Protected, TypeOK
<1>5. Rotation'
  <2>1. \A r \in Regions : frameFences'[r] # NoCache => frameFences'[r] <= Len(gpu')
    BY <1>2, <1>3, CacheAssumption DEF Protected, TypeOK, Rotation
  <2> QED
    BY <1>1, <1>3, <2>1 DEF Protected, TypeOK, Rotation
<1>6. Filling' /\ Drawing' /\ Counted' /\ HandlesFresh' /\ ScreenRectFresh' /\ ChainsFresh'
  BY <1>1 DEF Protected, Filling, Drawing, Counted, HandlesFresh, ScreenRectFresh,
              ChainsFresh, Late, Fresh, Intact
<1>7. Fenced'
  <2> SUFFICES ASSUME NEW i \in 1 .. Len(gpu'), NEW r \in gpu'[i]
               PROVE  /\ r.draw.buffer <= buffer
                      /\ (~r.late /\ r.draw.buffer = buffer) =>
                           \/ r.draw.region = currentDrawingFrame
                           \/ /\ r.draw.region = currentWritingFrame
                              /\ mpc \notin Awaiting
                              /\ r.draw.position < vertexMemUsed
                           \/ /\ frameFences'[r.draw.region] # NoCache
                              /\ frameFences'[r.draw.region] >= i
    BY <1>1 DEF Fenced
  <2>1. i + 1 \in 1 .. Len(gpu) /\ r \in gpu[i + 1]
    BY <1>2
  <2>2. r.draw.region \in Regions
    BY <2>1 DEF Protected, TypeOK, Handles
  <2>3. frameFences[r.draw.region] # NoCache /\ frameFences[r.draw.region] >= i + 1
          => frameFences'[r.draw.region] # NoCache /\ frameFences'[r.draw.region] >= i
    BY <1>3, <2>2, CacheAssumption, SMTT(30) DEF Protected, TypeOK
  <2> QED
    BY <2>1, <2>3 DEF Protected, Fenced
<1>8. DrawsIntact'
  BY <1>1, <1>2 DEF Protected, DrawsIntact, Intact
<1> QED
  BY <1>4, <1>5, <1>6, <1>7, <1>8 DEF Protected

\* Steps that at most give draws of the chains, and the rectangle, to the GPU.
LEMMA SubmissionProtects ==
    ASSUME Protected,
           UNCHANGED <<smp, bufferVars, cacheVars>>,
           extra' \in Nat, troubles' \in Nat, drawingNow' \in BOOLEAN,
           mpc \notin Awaiting,
           mpc' \in {"idle", "issue", "serial", "wait", "wipe", "wipeGui",
                     "preview", "previewIssue"},
           Drawing', Counted',
           frameData' \subseteq frameData \cup backendFrameData,
           backendFrameData' \subseteq frameData \cup backendFrameData,
           NEW draws, draws \subseteq frameData \cup backendFrameData,
           Submit(draws)
    PROVE  Protected'
<1> DEFINE reads == draws \cup ({ambientCache[ScreenRect]} \ {NoCache})
           submission == {[draw |-> d, late |-> Late(d)] : d \in reads}
<1>1. /\ smp' = smp /\ buffer' = buffer
      /\ frameSize' = frameSize /\ currentDrawingFrame' = currentDrawingFrame
      /\ currentWritingFrame' = currentWritingFrame /\ vertexMemUsed' = vertexMemUsed
      /\ frameFences' = frameFences
      /\ currentVertexCacheSize' = currentVertexCacheSize /\ currentFrame' = currentFrame
      /\ content' = content /\ ambientCache' = ambientCache
  BY DEF bufferVars, cacheVars
<1>2. gpu' = gpu \/ gpu' = Append(gpu, submission)
  BY DEF Submit
<1>3. mpc' \notin Awaiting
  BY DEF Awaiting
<1>4. \A d \in reads : d \in Handles /\ d.buffer <= buffer /\ (~Late(d) => Fresh(d))
  <2> SUFFICES ASSUME NEW d \in reads
               PROVE  d \in Handles /\ d.buffer <= buffer /\ (~Late(d) => Fresh(d))
    OBVIOUS
  <2>1. CASE d \in draws
    BY <2>1 DEF Protected, TypeOK, ChainsFresh
  <2>2. CASE d = ambientCache[ScreenRect] /\ d # NoCache
    BY <2>2 DEF Protected, TypeOK, HandlesFresh, ScreenRectFresh, Drawable
  <2> QED
    BY <2>1, <2>2
<1>5. \A r \in submission :
         /\ r \in [draw : Handles, late : BOOLEAN] /\ r.draw.buffer <= buffer
         /\ ~r.late => Fresh(r.draw)
  <2> SUFFICES ASSUME NEW d \in reads
               PROVE  LET r == [draw |-> d, late |-> Late(d)] IN
                      /\ r \in [draw : Handles, late : BOOLEAN] /\ r.draw.buffer <= buffer
                      /\ ~r.late => Fresh(r.draw)
    OBVIOUS
  <2>1. d \in Handles /\ d.buffer <= buffer /\ (~Late(d) => Fresh(d))
    BY <1>4
  <2>2. Late(d) \in BOOLEAN
    BY DEF Late
  <2> QED
    BY <2>1, <2>2
<1> HIDE DEF submission
<1>6. /\ gpu' \in Seq(SUBSET [draw : Handles, late : BOOLEAN])
      /\ Len(gpu) \in Nat /\ Len(gpu') \in Nat /\ Len(gpu) <= Len(gpu')
      /\ \A i \in 1 .. Len(gpu') : \/ i \in 1 .. Len(gpu) /\ gpu'[i] = gpu[i]
                                   \/ gpu'[i] = submission
  <2>1. gpu \in Seq(SUBSET [draw : Handles, late : BOOLEAN])
    BY DEF Protected, TypeOK
  <2>2. submission \in SUBSET [draw : Handles, late : BOOLEAN]
    BY <1>5
  <2> QED
    BY <1>2, <2>1, <2>2
<1>7. TypeOK'
  BY <1>1, <1>6 DEF Protected, TypeOK
<1>8. Rotation' /\ Filling'
  <2>1. \A r \in Regions : frameFences[r] # NoCache => frameFences[r] <= Len(gpu')
    BY <1>6, CacheAssumption DEF Protected, TypeOK, Rotation
  <2> QED
    BY <1>1, <2>1 DEF Protected, Rotation, Filling
<1>9. \A d : Fresh(d) => (Fresh(d))'
  BY <1>1, <1>3 DEF Fresh, Intact
<1>10. HandlesFresh' /\ ScreenRectFresh' /\ ChainsFresh'
  <2>1. HandlesFresh'
    BY <1>1, <1>3 DEF Protected, HandlesFresh, Fresh, Intact
  <2>2. ScreenRectFresh'
    BY <1>1 DEF Protected, ScreenRectFresh
  <2>3. ChainsFresh'
    BY <1>1, <1>9 DEF Protected, ChainsFresh, Late
  <2> QED
    BY <2>1, <2>2, <2>3
<1>11. Fenced' /\ DrawsIntact'
  <2> SUFFICES ASSUME NEW i \in 1 .. Len(gpu'), NEW r \in gpu'[i]
               PROVE  /\ r.draw.buffer <= buffer
                      /\ (~r.late /\ r.draw.buffer = buffer) =>
                           \/ r.draw.region = currentDrawingFrame
                           \/ /\ r.draw.region = currentWritingFrame
                              /\ r.draw.position < vertexMemUsed
                           \/ /\ frameFences[r.draw.region] # NoCache
                              /\ frameFences[r.draw.region] >= i
                      /\ r.late \/ Intact(r.draw)
    BY <1>1, <1>3 DEF Fenced, DrawsIntact, Intact
  <2>1. CASE i \in 1 .. Len(gpu) /\ gpu'[i] = gpu[i]
    BY <2>1 DEF Protected, Fenced, DrawsIntact
  <2>2. CASE gpu'[i] = submission
    BY <1>5, <2>2 DEF Fresh
  <2> QED
    BY <1>6, <2>1, <2>2
<1> QED
  BY <1>7, <1>8, <1>10, <1>11 DEF Protected

\* Steps that give nothing to the GPU are submissions of nothing.
LEMMA NothingSubmitted ==
    ASSUME gpu' = gpu
    PROVE  Submit({})
BY DEF Submit

-----------------------------------------------------------------------------
(* The main thread, between the turns of the regions.                       *)

LEMMA DrawingDoneProtects ==
    ASSUME Protected, DrawingDone
    PROVE  Protected'
<1>1. CASE mpc \notin Awaiting
  <2>1. /\ UNCHANGED <<smp, bufferVars, cacheVars>> /\ gpu' = gpu /\ mpc' = mpc
        /\ extra' \in Nat /\ troubles' \in Nat /\ drawingNow' \in BOOLEAN
        /\ frameData' = frameData /\ backendFrameData' = backendFrameData
    BY DEF DrawingDone, boundVars, chainVars, Protected, TypeOK
  <2>2. Drawing' /\ Counted'
    BY DEF DrawingDone, cacheVars, Protected, Drawing, Counted
  <2>3. mpc' \in {"idle", "issue", "serial", "wait", "wipe", "wipeGui",
                  "preview", "previewIssue"}
    BY <1>1, <2>1 DEF Protected, TypeOK
  <2>4. Submit({})
    BY <2>1, NothingSubmitted
  <2> QED
    BY <1>1, <2>1, <2>2, <2>3, <2>4, SubmissionProtects
<1>2. CASE mpc \in Awaiting
  BY <1>2 DEF DrawingDone, Protected, Drawing, Awaiting
<1> QED
  BY <1>1, <1>2

LEMMA ActivateFrontendProtects ==
    ASSUME Protected, ActivateFrontend
    PROVE  Protected'
<1>1. /\ UNCHANGED <<smp, bufferVars, cacheVars>> /\ gpu' = gpu
      /\ extra' \in Nat /\ troubles' \in Nat /\ drawingNow' \in BOOLEAN
      /\ frameData' = frameData /\ backendFrameData' = backendFrameData
      /\ mpc = "idle" /\ mpc' \in {"issue", "serial"}
  BY DEF ActivateFrontend, boundVars, chainVars, Protected, TypeOK
<1>2. Drawing' /\ Counted'
  BY <1>1 DEF ActivateFrontend, cacheVars, Protected, Drawing, Counted
<1>3. Submit({})
  BY <1>1, NothingSubmitted
<1>4. mpc \notin Awaiting
  BY <1>1 DEF Awaiting
<1> QED
  BY <1>1, <1>2, <1>3, <1>4, SubmissionProtects

LEMMA IssueRenderCommandsProtects ==
    ASSUME Protected, IssueRenderCommands
    PROVE  Protected'
<1>1. /\ UNCHANGED <<smp, bufferVars, cacheVars>> /\ Submit(Chain)
      /\ extra' \in Nat /\ troubles' \in Nat /\ drawingNow' \in BOOLEAN
      /\ mpc \in {"issue", "serial"} /\ mpc' = "wait" /\ drawingNow' = drawingNow
      /\ ClearChain
  BY DEF IssueRenderCommands, boundVars, Protected, TypeOK
<1>2. Drawing' /\ Counted'
  BY <1>1 DEF cacheVars, Protected, Drawing, Counted
<1>3. /\ Chain \subseteq frameData \cup backendFrameData
      /\ frameData' \subseteq frameData \cup backendFrameData
      /\ backendFrameData' \subseteq frameData \cup backendFrameData
  BY <1>1 DEF Chain, ClearChain
<1>4. mpc \notin Awaiting
  BY <1>1 DEF Awaiting
<1> QED
  BY <1>1, <1>2, <1>3, <1>4, SubmissionProtects

LEMMA DropProtects ==
    ASSUME Protected, Drop
    PROVE  Protected'
<1>1. /\ UNCHANGED <<smp, bufferVars, cacheVars>>
      /\ extra' \in Nat /\ troubles' \in Nat /\ drawingNow' \in BOOLEAN
      /\ mpc \in {"issue", "serial", "wait"} /\ mpc' = "idle" /\ drawingNow' = FALSE
      /\ frameData' = frameData /\ backendFrameData' = backendFrameData
  BY DEF Drop, chainVars, Protected, TypeOK
<1>2. Drawing' /\ Counted'
  BY <1>1 DEF cacheVars, Protected, Drawing, Counted
<1>3. PICK part : part \subseteq frameData \cup backendFrameData /\ Submit(part)
  <2>1. CASE mpc = "wait"
    BY <2>1, NothingSubmitted DEF Drop
  <2>2. CASE mpc # "wait"
    BY <2>2 DEF Drop, Chain
  <2> QED
    BY <2>1, <2>2
<1>4. mpc \notin Awaiting
  BY <1>1 DEF Awaiting
<1> QED
  BY <1>1, <1>2, <1>3, <1>4, SubmissionProtects

LEMMA DrawBetweenFramesProtects ==
    ASSUME Protected, DrawBetweenFrames
    PROVE  Protected'
<1>1. /\ UNCHANGED <<smp, bufferVars, cacheVars>> /\ gpu' = gpu
      /\ extra' \in Nat /\ troubles' \in Nat /\ drawingNow' \in BOOLEAN
      /\ frameData' = frameData /\ backendFrameData' = backendFrameData
      /\ mpc = "idle" /\ mpc' \in {"wipe", "preview"} /\ currentFrame < MaxFrames
  BY DEF DrawBetweenFrames, chainVars, Protected, TypeOK
<1>2. Drawing' /\ Counted'
  BY <1>1 DEF cacheVars, Protected, Drawing, Counted
<1>3. Submit({})
  BY <1>1, NothingSubmitted
<1>4. mpc \notin Awaiting
  BY <1>1 DEF Awaiting
<1> QED
  BY <1>1, <1>2, <1>3, <1>4, SubmissionProtects

LEMMA WipeIssuesProtects ==
    ASSUME Protected, WipeIssues
    PROVE  Protected'
<1>1. /\ UNCHANGED <<smp, bufferVars, cacheVars>> /\ Submit(Chain)
      /\ extra' \in Nat /\ troubles' \in Nat /\ drawingNow' = FALSE
      /\ mpc = "wipeGui" /\ mpc' = "idle" /\ ToggleSmpFrame(frameData)
  BY DEF WipeIssues, boundVars, Protected, TypeOK
<1>2. Drawing' /\ Counted'
  BY <1>1 DEF cacheVars, Protected, Drawing, Counted
<1>3. /\ Chain \subseteq frameData \cup backendFrameData
      /\ frameData' \subseteq frameData \cup backendFrameData
      /\ backendFrameData' \subseteq frameData \cup backendFrameData
  BY <1>1 DEF Chain, ToggleSmpFrame
<1>4. mpc \notin Awaiting
  BY <1>1 DEF Awaiting
<1> QED
  BY <1>1, <1>2, <1>3, <1>4, SubmissionProtects

LEMMA PreviewIssuesProtects ==
    ASSUME Protected, PreviewIssues
    PROVE  Protected'
<1>1. /\ UNCHANGED <<smp, bufferVars, cacheVars>> /\ Submit(frameData)
      /\ extra' \in Nat /\ troubles' \in Nat
      /\ drawingNow' = drawingNow /\ drawingNow' \in BOOLEAN
      /\ mpc = "previewIssue" /\ mpc' = "idle"
      /\ frameData' = {} /\ backendFrameData' = backendFrameData
  BY DEF PreviewIssues, boundVars, Protected, TypeOK
<1>2. Drawing' /\ Counted'
  BY <1>1 DEF cacheVars, Protected, Drawing, Counted
<1>3. mpc \notin Awaiting
  BY <1>1 DEF Awaiting
<1> QED
  BY <1>1, <1>2, <1>3, SubmissionProtects

-----------------------------------------------------------------------------
(* The turn of the regions.                                                 *)

\* What was written becomes what is drawn from; what was drawn from is fenced
\* behind everything submitted so far; what is written next is waited for.
LEMMA SwitchFrameProtects ==
    ASSUME Protected, SwitchFrame,
           mpc \notin Awaiting, mpc' \in Awaiting, ~drawingNow, drawingNow' = drawingNow,
           currentFrame < MaxFrames,
           extra' = extra, troubles' = troubles,
           frameData' \subseteq frameData \cup backendFrameData,
           backendFrameData' \subseteq frameData \cup backendFrameData
    PROVE  Protected'
<1>1. /\ frameFences' = [frameFences EXCEPT ![currentDrawingFrame] = Len(gpu)]
      /\ currentDrawingFrame' = Following(currentDrawingFrame)
      /\ currentWritingFrame' = Following(currentWritingFrame)
      /\ currentFrame' = currentFrame + 1
      /\ smp' = smp /\ buffer' = buffer /\ frameSize' = frameSize
      /\ vertexMemUsed' = vertexMemUsed /\ currentVertexCacheSize' = currentVertexCacheSize
      /\ content' = content /\ ambientCache' = ambientCache /\ gpu' = gpu
  BY DEF SwitchFrame
<1>2. /\ currentDrawingFrame \in Regions /\ currentWritingFrame \in Regions
      /\ currentDrawingFrame' = currentWritingFrame
      /\ currentDrawingFrame' \in Regions /\ currentWritingFrame' \in Regions
      /\ currentWritingFrame # currentDrawingFrame
      /\ currentWritingFrame' = Following(currentDrawingFrame')
      /\ currentFrame \in Nat /\ buffer \in Nat /\ Len(gpu) \in Nat
  BY <1>1, Turning DEF Protected, TypeOK, Rotation
<1>3. /\ frameFences' \in [Regions -> Nat \cup {NoCache}]
      /\ frameFences'[currentDrawingFrame] = Len(gpu)
      /\ \A r \in Regions : r # currentDrawingFrame => frameFences'[r] = frameFences[r]
  BY <1>1, <1>2 DEF Protected, TypeOK
<1>4. TypeOK'
  BY <1>1, <1>2, <1>3 DEF Protected, TypeOK
<1>5. Rotation'
  <2>1. frameFences'[currentDrawingFrame'] = NoCache
    BY <1>2, <1>3 DEF Protected, Rotation
  <2>2. \A r \in Regions : frameFences'[r] # NoCache => frameFences'[r] <= Len(gpu)
    BY <1>2, <1>3 DEF Protected, Rotation
  <2> QED
    BY <1>1, <1>2, <2>1, <2>2 DEF Rotation
<1>6. Filling' /\ Drawing' /\ Counted' /\ ScreenRectFresh'
  BY <1>1, <1>2, CacheAssumption
     DEF Protected, Filling, Drawing, Counted, ScreenRectFresh, Awaiting
<1>7. HandlesFresh'
  <2> SUFFICES ASSUME NEW s \in Drawable, ambientCache[s] # NoCache
               PROVE  /\ ambientCache[s].tri = s /\ ambientCache[s].buffer <= buffer
                      /\ ambientCache[s].frameNumber = ambientCache[s].frame % FrameNumbers
                      /\ ambientCache[s].frame < currentFrame + 1
    BY <1>1, <1>2 DEF HandlesFresh, Protected, TypeOK, Handles
  <2>1. ambientCache[s] \in Handles
    BY DEF Protected, TypeOK
  <2>2. ambientCache[s].frame \in Nat
    BY <2>1 DEF Handles
  <2> QED
    BY <1>2, <2>2 DEF Protected, HandlesFresh
<1>8. ChainsFresh'
  <2> SUFFICES ASSUME NEW d \in frameData \cup backendFrameData
               PROVE  /\ d.frame <= currentFrame + 1 /\ d.buffer <= buffer
                      /\ (~Late(d))' => (Fresh(d))'
    BY <1>1 DEF ChainsFresh
  <2>1. d \in Handles /\ d.frame \in Nat /\ d.frame <= currentFrame /\ d.buffer <= buffer
    BY DEF Protected, TypeOK, ChainsFresh, Handles
  <2>2. (~Late(d))' => d.buffer = buffer /\ d.frame = currentFrame
    BY <1>1, <1>2, <2>1 DEF Late
  <2>3. (~Late(d))' => Fresh(d) /\ d.frame # currentFrame + 1
    BY <1>2, <2>2 DEF Protected, ChainsFresh, Late
  <2> QED
    BY <1>1, <1>2, <2>1, <2>2, <2>3 DEF Fresh, Intact
<1>9. Fenced'
  <2> SUFFICES ASSUME NEW i \in 1 .. Len(gpu), NEW r \in gpu[i]
               PROVE  /\ r.draw.buffer <= buffer
                      /\ (~r.late /\ r.draw.buffer = buffer) =>
                           \/ r.draw.region = currentWritingFrame
                           \/ /\ frameFences'[r.draw.region] # NoCache
                              /\ frameFences'[r.draw.region] >= i
    BY <1>1, <1>2 DEF Fenced
  <2>1. r.draw.region \in Regions
    BY DEF Protected, TypeOK, Handles
  <2>2. Len(gpu) # NoCache /\ i <= Len(gpu)
    BY <1>2, CacheAssumption
  <2> QED
    BY <1>2, <1>3, <2>1, <2>2 DEF Protected, Fenced, Rotation
<1>10. DrawsIntact'
  BY <1>1 DEF Protected, DrawsIntact, Intact
<1> QED
  BY <1>4, <1>5, <1>6, <1>7, <1>8, <1>9, <1>10 DEF Protected

LEMMA EndFrameProtects ==
    ASSUME Protected, EndFrame
    PROVE  Protected'
<1>1. /\ SwitchFrame /\ mpc \notin Awaiting /\ mpc' \in Awaiting
      /\ ~drawingNow /\ drawingNow' = drawingNow
      /\ extra' = extra /\ troubles' = troubles
      /\ frameData' \subseteq frameData \cup backendFrameData
      /\ backendFrameData' \subseteq frameData \cup backendFrameData
  BY DEF EndFrame, Awaiting, boundVars, ToggleSmpFrame
<1>2. currentFrame < MaxFrames
  BY DEF EndFrame, Protected, Counted
<1> QED
  BY <1>1, <1>2, SwitchFrameProtects

LEMMA EndFrameBetweenProtects ==
    ASSUME Protected, EndFrameBetween
    PROVE  Protected'
<1>1. /\ SwitchFrame /\ mpc \notin Awaiting /\ mpc' \in Awaiting
      /\ ~drawingNow /\ drawingNow' = drawingNow
      /\ extra' = extra /\ troubles' = troubles
      /\ frameData' \subseteq frameData \cup backendFrameData
      /\ backendFrameData' \subseteq frameData \cup backendFrameData
  BY DEF EndFrameBetween, Awaiting, boundVars, chainVars
<1>2. currentFrame < MaxFrames
  BY DEF EndFrameBetween, Protected, Counted
<1> QED
  BY <1>1, <1>2, SwitchFrameProtects

-----------------------------------------------------------------------------
(* The end of EndFrame.                                                     *)

\* While EndFrame waits, nothing is drawn yet of the frame that begins, and
\* what is in time to be drawn lies in the region drawn from.
LEMMA WhileAwaiting ==
    ASSUME Protected, mpc \in Awaiting
    PROVE  /\ \A d : Fresh(d) => d.frame # currentFrame /\ d.region = currentDrawingFrame
           /\ \A s \in Drawable : ambientCache[s] # NoCache => ambientCache[s].frame # currentFrame
           /\ ~drawingNow
           /\ currentWritingFrame # currentDrawingFrame
BY RegionsApart DEF Protected, Fresh, HandlesFresh, Drawing, Awaiting

\* The region is taken over: its fence is passed, so nobody reads it.
LEMMA RegionTakenOver ==
    ASSUME Protected, FinishEndFrame, buffer' = buffer
    PROVE  Protected'
<1> DEFINE w == currentWritingFrame
           rect == [tri |-> ScreenRect, region |-> w, position |-> 0,
                    frameNumber |-> currentFrame % FrameNumbers, frame |-> currentFrame,
                    buffer |-> buffer]
           row == [content[w] EXCEPT ![0] = <<ScreenRect, currentFrame>>]
<1>1. /\ mpc \in Awaiting /\ mpc' \in {"idle", "wipeGui", "previewIssue"}
      /\ drawingNow' = (mpc' = "wipeGui")
      /\ smp' = smp /\ currentFrame' = currentFrame
      /\ frameData' = frameData /\ backendFrameData' = backendFrameData
      /\ gpu' = gpu /\ extra' = extra /\ troubles' = troubles
  BY DEF FinishEndFrame, AfterEndFrame, Awaiting, chainVars, boundVars
<1>2. frameFences[w] \in {NoCache, 0}
  BY DEF FinishEndFrame, FencePassed
<1>3. PICK k \in Doublings :
        /\ currentVertexCacheSize' = k * currentVertexCacheSize
        /\ IF frameSize < k * currentVertexCacheSize THEN buffer' = buffer + 1
           ELSE /\ frameFences' = [frameFences EXCEPT ![w] = NoCache]
                /\ frameSize' = frameSize /\ currentDrawingFrame' = currentDrawingFrame
                /\ currentWritingFrame' = w
                /\ StartRegion(w, content)
  BY DEF FinishEndFrame
<1>4. /\ buffer \in Nat /\ frameSize \in Nat /\ currentFrame \in Nat /\ w \in Regions
      /\ currentDrawingFrame \in Regions /\ w # currentDrawingFrame
      /\ currentVertexCacheSize \in 1 .. frameSize
      /\ frameFences \in [Regions -> Nat \cup {NoCache}]
      /\ ambientCache \in [Drawable -> Handles \cup {NoCache}]
      /\ content \in [Regions -> [0 .. frameSize - 1 -> (Drawable \X Nat) \cup {NoCache}]]
      /\ ScreenRect \in Drawable
  BY <1>1, WhileAwaiting DEF Protected, TypeOK, Filling, Drawable
<1>5. /\ frameFences' = [frameFences EXCEPT ![w] = NoCache]
      /\ frameSize' = frameSize /\ currentDrawingFrame' = currentDrawingFrame
      /\ currentWritingFrame' = w
      /\ vertexMemUsed' = 1
      /\ content' = [content EXCEPT ![w] = row]
      /\ ambientCache' = [ambientCache EXCEPT ![ScreenRect] = rect]
  BY <1>3, <1>4 DEF StartRegion
<1>6. currentVertexCacheSize' \in 1 .. frameSize
  <2>1. k \in {1, 2, 4, 8, 16, 32} /\ k * currentVertexCacheSize <= frameSize
    BY <1>3, <1>4 DEF Doublings
  <2> QED
    BY <1>3, <1>4, <2>1
<1>7. /\ rect \in Handles /\ rect.tri = ScreenRect /\ rect.region = w /\ rect.position = 0
      /\ rect.frameNumber = rect.frame % FrameNumbers /\ rect.frame = currentFrame
      /\ rect.buffer = buffer
  BY <1>4, FrameNumberType DEF Handles
<1>8. /\ row \in [0 .. frameSize - 1 -> (Drawable \X Nat) \cup {NoCache}]
      /\ row[0] = <<ScreenRect, currentFrame>>
  BY <1>4
<1> HIDE DEF row, rect
<1>9. /\ content' \in [Regions -> [0 .. frameSize - 1 -> (Drawable \X Nat) \cup {NoCache}]]
      /\ content'[w][0] = <<ScreenRect, currentFrame>>
      /\ \A r \in Regions : r # w => content'[r] = content[r]
      /\ ambientCache' \in [Drawable -> Handles \cup {NoCache}]
      /\ ambientCache'[ScreenRect] = rect
      /\ \A s \in Drawable : s # ScreenRect => ambientCache'[s] = ambientCache[s]
      /\ frameFences' \in [Regions -> Nat \cup {NoCache}]
      /\ frameFences'[w] = NoCache
      /\ \A r \in Regions : r # w => frameFences'[r] = frameFences[r]
  BY <1>4, <1>5, <1>7, <1>8
<1>10. mpc' \notin Awaiting
  BY <1>1 DEF Awaiting
<1>11. TypeOK'
  BY <1>1, <1>4, <1>5, <1>6, <1>9 DEF Protected, TypeOK
<1>12. Rotation' /\ Filling' /\ Drawing'
  BY <1>1, <1>4, <1>5, <1>6, <1>9 DEF Protected, Rotation, Filling, Drawing
<1>13. Counted'
  BY <1>1 DEF Protected, Counted
<1>14. HandlesFresh' /\ ScreenRectFresh'
  <2>1. (Fresh(ambientCache[ScreenRect]))'
    BY <1>5, <1>7, <1>9, <1>10, <1>1 DEF Fresh, Intact
  <2>2. ScreenRectFresh'
    BY <1>1, <1>5, <1>7, <1>9 DEF ScreenRectFresh
  <2>3. \A s \in Drawable : s # ScreenRect /\ ambientCache[s] # NoCache =>
          /\ ambientCache[s].tri = s /\ ambientCache[s].buffer <= buffer
          /\ ambientCache[s].frameNumber = ambientCache[s].frame % FrameNumbers
          /\ ambientCache[s].frame <= currentFrame
          /\ ambientCache[s].frame # currentFrame
    BY <1>1, WhileAwaiting DEF Protected, HandlesFresh
  <2>4. HandlesFresh'
    <3> SUFFICES ASSUME NEW s \in Drawable, ambientCache'[s] # NoCache
                 PROVE  /\ ambientCache'[s].tri = s /\ ambientCache'[s].buffer <= buffer
                        /\ ambientCache'[s].frameNumber = ambientCache'[s].frame % FrameNumbers
                        /\ ambientCache'[s].frame <= currentFrame
                        /\ ambientCache'[s].frame = currentFrame => (Fresh(ambientCache[s]))'
      BY <1>1 DEF HandlesFresh
    <3>1. CASE s = ScreenRect
      BY <1>4, <1>7, <1>9, <2>1, <3>1
    <3>2. CASE s # ScreenRect
      BY <1>9, <2>3, <3>2
    <3> QED
      BY <3>1, <3>2
  <2> QED
    BY <2>2, <2>4
<1>15. ChainsFresh'
  <2> SUFFICES ASSUME NEW d \in frameData \cup backendFrameData
               PROVE  /\ d.frame <= currentFrame /\ d.buffer <= buffer
                      /\ ~Late(d) => (Fresh(d))'
    BY <1>1 DEF ChainsFresh, Late
  <2>1. ~Late(d) => Fresh(d) /\ d.frame # currentFrame /\ d.region = currentDrawingFrame
    BY <1>1, WhileAwaiting DEF Protected, ChainsFresh
  <2>2. ~Late(d) => (Fresh(d))'
    BY <1>1, <1>4, <1>5, <1>9, <2>1 DEF Fresh, Intact
  <2> QED
    BY <2>2 DEF Protected, ChainsFresh
<1>16. Fenced' /\ DrawsIntact'
  <2> SUFFICES ASSUME NEW i \in 1 .. Len(gpu), NEW r \in gpu[i]
               PROVE  /\ r.draw.buffer <= buffer
                      /\ (~r.late /\ r.draw.buffer = buffer) =>
                           \/ r.draw.region = currentDrawingFrame
                           \/ /\ frameFences'[r.draw.region] # NoCache
                              /\ frameFences'[r.draw.region] >= i
                      /\ r.late \/ (Intact(r.draw))'
    BY <1>1, <1>5 DEF Fenced, DrawsIntact
  <2>1. r.draw.region \in Regions /\ r.draw \in Handles
    BY DEF Protected, TypeOK, Handles
  <2>2. /\ r.draw.buffer <= buffer
        /\ (~r.late /\ r.draw.buffer = buffer) =>
             \/ r.draw.region = currentDrawingFrame
             \/ /\ frameFences[r.draw.region] # NoCache
                /\ frameFences[r.draw.region] >= i
        /\ r.late \/ Intact(r.draw)
    BY <1>1 DEF Protected, Fenced, DrawsIntact
  <2>3. (~r.late /\ r.draw.buffer = buffer) => r.draw.region # w
    <3>1. i \in Nat /\ i > 0
      OBVIOUS
    <3> QED
      BY <1>2, <1>4, <2>2, <3>1
  <2>4. ~r.late => (Intact(r.draw))'
    BY <1>9, <2>1, <2>2, <2>3 DEF Intact
  <2> QED
    BY <1>9, <2>1, <2>2, <2>3, <2>4
<1> QED
  BY <1>11, <1>12, <1>13, <1>14, <1>15, <1>16 DEF Protected

\* A buffer that is too small is replaced: nothing refers to the new one.
LEMMA BufferReplaced ==
    ASSUME Protected, FinishEndFrame, buffer' # buffer
    PROVE  Protected'
<1> DEFINE rect == [tri |-> ScreenRect, region |-> 1, position |-> 0,
                    frameNumber |-> currentFrame % FrameNumbers, frame |-> currentFrame,
                    buffer |-> buffer']
           size == frameSize'
           row == [Blank(size)[1] EXCEPT ![0] = <<ScreenRect, currentFrame>>]
<1>1. /\ mpc \in Awaiting /\ mpc' \in {"idle", "wipeGui", "previewIssue"}
      /\ drawingNow' = (mpc' = "wipeGui")
      /\ smp' = smp /\ currentFrame' = currentFrame
      /\ frameData' = frameData /\ backendFrameData' = backendFrameData
      /\ gpu' = gpu /\ extra' = extra /\ troubles' = troubles
  BY DEF FinishEndFrame, AfterEndFrame, Awaiting, chainVars, boundVars
<1>2. PICK k \in Doublings :
        /\ currentVertexCacheSize' = k * currentVertexCacheSize
        /\ frameSize < k * currentVertexCacheSize
        /\ buffer' = buffer + 1
        /\ frameSize' = k * currentVertexCacheSize
        /\ currentDrawingFrame' = 0 /\ currentWritingFrame' = 1
        /\ frameFences' = [r \in Regions |-> NoCache]
        /\ StartRegion(1, Blank(size))
  BY DEF FinishEndFrame
<1>3. /\ buffer \in Nat /\ frameSize \in Nat /\ currentFrame \in Nat
      /\ currentVertexCacheSize \in 1 .. frameSize
      /\ ambientCache \in [Drawable -> Handles \cup {NoCache}]
      /\ ScreenRect \in Drawable
  BY DEF Protected, TypeOK, Filling, Drawable
<1>4. size \in Nat /\ size > 0 /\ currentVertexCacheSize' = size
  <2>1. k \in {1, 2, 4, 8, 16, 32}
    BY DEF Doublings
  <2>2. k \in Nat /\ currentVertexCacheSize \in Nat
    BY <1>3, <2>1
  <2> QED
    BY <1>2, <1>3, <2>1, <2>2
<1> HIDE DEF size
<1>5. /\ vertexMemUsed' = 1
      /\ content' = [Blank(size) EXCEPT ![1] = row]
      /\ ambientCache' = [ambientCache EXCEPT ![ScreenRect] = rect]
  BY <1>1, <1>2 DEF StartRegion
<1>6. Blank(size) \in [Regions -> [0 .. size - 1 -> (Drawable \X Nat) \cup {NoCache}]]
  BY DEF Blank
<1>7. /\ rect \in Handles /\ rect.tri = ScreenRect /\ rect.region = 1 /\ rect.position = 0
      /\ rect.frameNumber = rect.frame % FrameNumbers /\ rect.frame = currentFrame
      /\ rect.buffer = buffer'
  BY <1>2, <1>3, FrameNumberType DEF Handles, Regions
<1>8. /\ row \in [0 .. size - 1 -> (Drawable \X Nat) \cup {NoCache}]
      /\ row[0] = <<ScreenRect, currentFrame>>
  <2>1. /\ Blank(size)[1] \in [0 .. size - 1 -> (Drawable \X Nat) \cup {NoCache}]
        /\ 0 \in 0 .. size - 1
    BY <1>4, <1>6 DEF Regions
  <2>2. <<ScreenRect, currentFrame>> \in (Drawable \X Nat) \cup {NoCache}
    BY <1>3
  <2> QED
    BY <2>1, <2>2
<1> HIDE DEF row, rect
<1>9. /\ content' \in [Regions -> [0 .. size - 1 -> (Drawable \X Nat) \cup {NoCache}]]
      /\ content'[1][0] = <<ScreenRect, currentFrame>>
      /\ ambientCache' \in [Drawable -> Handles \cup {NoCache}]
      /\ ambientCache'[ScreenRect] = rect
      /\ \A s \in Drawable : s # ScreenRect => ambientCache'[s] = ambientCache[s]
  BY <1>3, <1>5, <1>6, <1>7, <1>8 DEF Regions
<1>10. mpc' \notin Awaiting
  BY <1>1 DEF Awaiting
<1>11. /\ frameFences' \in [Regions -> Nat \cup {NoCache}]
       /\ \A r \in Regions : frameFences'[r] = NoCache
       /\ 0 \in Regions /\ 1 \in Regions /\ Following(0) = 1
  BY <1>2 DEF Regions, Following
<1>12. TypeOK'
  BY <1>1, <1>2, <1>3, <1>4, <1>5, <1>9, <1>11 DEF size, Protected, TypeOK
<1>13. Rotation' /\ Drawing' /\ Counted'
  BY <1>1, <1>2, <1>11 DEF Protected, Rotation, Drawing, Counted
<1>14. Filling'
  <2>1. currentVertexCacheSize' \in 1 .. size
    BY <1>4
  <2> QED
    BY <1>9, <2>1 DEF size, Filling
<1>15. HandlesFresh' /\ ScreenRectFresh'
  <2>1. (Fresh(ambientCache[ScreenRect]))'
    BY <1>1, <1>2, <1>5, <1>7, <1>9, <1>10 DEF Fresh, Intact
  <2>2. ScreenRectFresh'
    BY <1>1, <1>5, <1>7, <1>9 DEF ScreenRectFresh
  <2>3. \A s \in Drawable : s # ScreenRect /\ ambientCache[s] # NoCache =>
          /\ ambientCache[s].tri = s /\ ambientCache[s].buffer <= buffer'
          /\ ambientCache[s].frameNumber = ambientCache[s].frame % FrameNumbers
          /\ ambientCache[s].frame <= currentFrame
          /\ ambientCache[s].frame # currentFrame
    <3> SUFFICES ASSUME NEW s \in Drawable, ambientCache[s] # NoCache
                 PROVE  /\ ambientCache[s].tri = s /\ ambientCache[s].buffer <= buffer'
                        /\ ambientCache[s].frameNumber = ambientCache[s].frame % FrameNumbers
                        /\ ambientCache[s].frame <= currentFrame
                        /\ ambientCache[s].frame # currentFrame
      OBVIOUS
    <3>1. ambientCache[s].buffer \in Nat
      BY <1>3 DEF Handles
    <3> QED
      BY <1>1, <1>2, <1>3, <3>1, WhileAwaiting DEF Protected, HandlesFresh
  <2>4. HandlesFresh'
    <3> SUFFICES ASSUME NEW s \in Drawable, ambientCache'[s] # NoCache
                 PROVE  /\ ambientCache'[s].tri = s /\ ambientCache'[s].buffer <= buffer'
                        /\ ambientCache'[s].frameNumber = ambientCache'[s].frame % FrameNumbers
                        /\ ambientCache'[s].frame <= currentFrame
                        /\ ambientCache'[s].frame = currentFrame => (Fresh(ambientCache[s]))'
      BY <1>1 DEF HandlesFresh
    <3>1. CASE s = ScreenRect
      BY <1>2, <1>3, <1>7, <1>9, <2>1, <3>1
    <3>2. CASE s # ScreenRect
      BY <1>9, <2>3, <3>2
    <3> QED
      BY <3>1, <3>2
  <2> QED
    BY <2>2, <2>4
<1>16. ChainsFresh'
  <2> SUFFICES ASSUME NEW d \in frameData \cup backendFrameData
               PROVE  /\ d.frame <= currentFrame /\ d.buffer <= buffer'
                      /\ d.buffer # buffer'
    BY <1>1 DEF ChainsFresh, Late
  <2>1. d.buffer \in Nat /\ d.buffer <= buffer /\ d.frame <= currentFrame
    BY DEF Protected, TypeOK, ChainsFresh, Handles
  <2> QED
    BY <1>2, <1>3, <2>1
<1>17. Fenced' /\ DrawsIntact'
  <2> SUFFICES ASSUME NEW i \in 1 .. Len(gpu), NEW r \in gpu[i]
               PROVE  r.draw.buffer <= buffer' /\ r.draw.buffer # buffer'
    BY <1>1 DEF Fenced, DrawsIntact, Intact
  <2>1. r.draw.buffer \in Nat /\ r.draw.buffer <= buffer
    BY DEF Protected, TypeOK, Fenced, Handles
  <2> QED
    BY <1>2, <1>3, <2>1
<1> QED
  BY <1>12, <1>13, <1>14, <1>15, <1>16, <1>17 DEF Protected

-----------------------------------------------------------------------------
(* Start and restart.                                                       *)

\* What the cache is after Init, in a buffer nothing refers to.
FirstFrame ==
    /\ buffer \in Nat /\ frameSize = MinSize
    /\ currentDrawingFrame = 1 /\ currentWritingFrame = 2
    /\ \A r \in Regions : r # 0 => frameFences[r] = NoCache
    /\ frameFences \in [Regions -> Nat \cup {NoCache}]
    /\ frameFences[0] = Len(gpu)
    /\ currentFrame = 1 /\ currentVertexCacheSize = MinSize /\ vertexMemUsed = 1
    /\ content = [Blank(MinSize) EXCEPT ![2] = [@ EXCEPT ![0] = <<ScreenRect, 1>>]]
    /\ ambientCache = [s \in Drawable |->
         IF s # ScreenRect THEN NoCache
         ELSE [tri |-> ScreenRect, region |-> 2, position |-> 0,
               frameNumber |-> 1 % FrameNumbers, frame |-> 1, buffer |-> buffer]]
    /\ frameData = {} /\ backendFrameData = {}
    /\ mpc = "idle" /\ smp \in BOOLEAN /\ drawingNow = FALSE
    /\ extra \in Nat /\ troubles \in Nat
    /\ gpu \in Seq(SUBSET [draw : Handles, late : BOOLEAN])
    /\ \A i \in 1 .. Len(gpu) : \A r \in gpu[i] : r.draw.buffer <= buffer /\ r.draw.buffer # buffer

LEMMA FirstFrameProtected == FirstFrame => Protected
<1> SUFFICES ASSUME FirstFrame
             PROVE  Protected
  OBVIOUS
<1> DEFINE rect == [tri |-> ScreenRect, region |-> 2, position |-> 0,
                    frameNumber |-> 1 % FrameNumbers, frame |-> 1, buffer |-> buffer]
           row == [Blank(MinSize)[2] EXCEPT ![0] = <<ScreenRect, 1>>]
<1>1. /\ content = [Blank(MinSize) EXCEPT ![2] = row]
      /\ ambientCache = [s \in Drawable |-> IF s # ScreenRect THEN NoCache ELSE rect]
  BY DEF FirstFrame
<1>2. /\ rect \in Handles /\ rect.tri = ScreenRect /\ rect.region = 2 /\ rect.position = 0
      /\ rect.frameNumber = rect.frame % FrameNumbers /\ rect.frame = 1
      /\ rect.buffer = buffer
  BY FrameNumberType DEF FirstFrame, Handles, Regions, Drawable
<1>3. /\ Blank(MinSize) \in [Regions -> [0 .. MinSize - 1 -> (Drawable \X Nat) \cup {NoCache}]]
      /\ MinSize \in Nat /\ MinSize > 0 /\ ScreenRect \in Drawable
  BY CacheAssumption DEF Blank, Drawable
<1>4. /\ row \in [0 .. MinSize - 1 -> (Drawable \X Nat) \cup {NoCache}]
      /\ row[0] = <<ScreenRect, 1>>
  <2>1. /\ Blank(MinSize)[2] \in [0 .. MinSize - 1 -> (Drawable \X Nat) \cup {NoCache}]
        /\ 0 \in 0 .. MinSize - 1
    BY <1>3, SMTT(30) DEF Regions
  <2>2. <<ScreenRect, 1>> \in (Drawable \X Nat) \cup {NoCache}
    BY <1>3
  <2> QED
    BY <2>1, <2>2
<1> HIDE DEF row, rect
<1>5. /\ content \in [Regions -> [0 .. MinSize - 1 -> (Drawable \X Nat) \cup {NoCache}]]
      /\ content[2][0] = <<ScreenRect, 1>>
      /\ ambientCache \in [Drawable -> Handles \cup {NoCache}]
      /\ ambientCache[ScreenRect] = rect
      /\ \A s \in Drawable : s # ScreenRect => ambientCache[s] = NoCache
  <2>1. /\ content \in [Regions -> [0 .. MinSize - 1 -> (Drawable \X Nat) \cup {NoCache}]]
        /\ content[2] = row
    <3>1. 2 \in Regions
      BY DEF Regions
    <3> DEFINE blank == Blank(MinSize)
    <3>2. content = [blank EXCEPT ![2] = row]
      BY <1>1
    <3>3. blank \in [Regions -> [0 .. MinSize - 1 -> (Drawable \X Nat) \cup {NoCache}]]
      BY <1>3
    <3> HIDE DEF blank
    <3> QED
      BY <1>4, <3>1, <3>2, <3>3
  <2>2. /\ ambientCache \in [Drawable -> Handles \cup {NoCache}]
        /\ ambientCache[ScreenRect] = rect
        /\ \A s \in Drawable : s # ScreenRect => ambientCache[s] = NoCache
    BY <1>1, <1>2, <1>3
  <2> QED
    BY <1>4, <2>1, <2>2
<1>6. TypeOK
  <2>1. /\ buffer \in Nat /\ frameSize \in Nat
        /\ currentDrawingFrame \in Regions /\ currentWritingFrame \in Regions
        /\ vertexMemUsed \in Nat /\ currentVertexCacheSize \in Nat /\ currentFrame \in Nat
    BY <1>3 DEF FirstFrame, Regions
  <2>2. /\ smp \in BOOLEAN /\ drawingNow \in BOOLEAN /\ mpc = "idle"
        /\ frameFences \in [Regions -> Nat \cup {NoCache}]
        /\ frameData = {} /\ backendFrameData = {}
        /\ gpu \in Seq(SUBSET [draw : Handles, late : BOOLEAN])
        /\ extra \in Nat /\ troubles \in Nat
    BY DEF FirstFrame
  <2> QED
    BY <1>5, <2>1, <2>2 DEF TypeOK
<1>7. Rotation
  <2>1. Following(1) = 2 /\ 1 \in Regions /\ 2 \in Regions /\ Len(gpu) \in Nat
    BY DEF Following, Regions, FirstFrame
  <2>2. \A r \in Regions : frameFences[r] # NoCache => frameFences[r] <= Len(gpu)
    BY <2>1 DEF FirstFrame
  <2> QED
    BY <2>1, <2>2 DEF FirstFrame, Rotation
<1>8. Filling /\ Drawing /\ Counted
  BY <1>3, <1>5, NoWrapAround, CacheAssumption DEF FirstFrame, Filling, Drawing, Counted
<1>9. HandlesFresh /\ ScreenRectFresh
  <2>1. mpc \notin Awaiting
    BY DEF FirstFrame, Awaiting
  <2>2. currentFrame = 1 /\ currentWritingFrame = 2 /\ vertexMemUsed = 1 /\ buffer \in Nat
    BY DEF FirstFrame
  <2>3. Fresh(ambientCache[ScreenRect])
    BY <1>2, <1>5, <2>1, <2>2 DEF Fresh, Intact
  <2> QED
    BY <1>2, <1>5, <2>2, <2>3 DEF HandlesFresh, ScreenRectFresh
<1>10. ChainsFresh /\ Fenced /\ DrawsIntact
  BY DEF FirstFrame, ChainsFresh, Fenced, DrawsIntact, Intact
<1> QED
  BY <1>6, <1>7, <1>8, <1>9, <1>10 DEF Protected

LEMMA InitProtected ==
    ASSUME Init
    PROVE  Protected
<1>1. FirstFrame
  BY DEF Init, FirstFrame, Regions
<1> QED
  BY <1>1, FirstFrameProtected

LEMMA PurgeAllProtects ==
    ASSUME Protected, PurgeAll
    PROVE  Protected'
<1>1. /\ mpc = "idle" /\ mpc' = "idle" /\ smp' = smp /\ gpu' = gpu
      /\ drawingNow' = drawingNow /\ extra' = extra /\ troubles' = troubles + 1
      /\ buffer' = buffer + 1
  BY DEF PurgeAll
<1>2. /\ buffer \in Nat /\ Len(gpu) \in Nat /\ extra \in Nat /\ troubles \in Nat
      /\ smp \in BOOLEAN /\ gpu \in Seq(SUBSET [draw : Handles, late : BOOLEAN])
  BY DEF Protected, TypeOK
<1>3. drawingNow = FALSE
  BY <1>1 DEF Protected, Drawing, TypeOK
<1>4. \A i \in 1 .. Len(gpu) : \A r \in gpu[i] :
        r.draw.buffer <= buffer + 1 /\ r.draw.buffer # buffer + 1
  <2> SUFFICES ASSUME NEW i \in 1 .. Len(gpu), NEW r \in gpu[i]
               PROVE  r.draw.buffer <= buffer + 1 /\ r.draw.buffer # buffer + 1
    OBVIOUS
  <2>1. r.draw.buffer \in Nat /\ r.draw.buffer <= buffer
    BY DEF Protected, TypeOK, Fenced, Handles
  <2> QED
    BY <1>2, <2>1
<1>5. /\ frameFences' \in [Regions -> Nat \cup {NoCache}]
      /\ frameFences'[0] = Len(gpu)
      /\ \A r \in Regions : r # 0 => frameFences'[r] = NoCache
  BY <1>2 DEF PurgeAll, Regions
<1>6. FirstFrame'
  BY <1>1, <1>2, <1>3, <1>4, <1>5 DEF PurgeAll, FirstFrame
<1> QED
  BY <1>6, FirstFrameProtected, PTL

-----------------------------------------------------------------------------
(* The theorems.                                                            *)

LEMMA StepProtects ==
    ASSUME Protected, [Next]_vars
    PROVE  Protected'
<1>1. CASE UNCHANGED vars
  <2>1. /\ smp' = smp /\ mpc' = mpc /\ drawingNow' = drawingNow /\ buffer' = buffer
        /\ frameSize' = frameSize /\ currentDrawingFrame' = currentDrawingFrame
        /\ currentWritingFrame' = currentWritingFrame /\ frameFences' = frameFences
        /\ vertexMemUsed' = vertexMemUsed
        /\ currentVertexCacheSize' = currentVertexCacheSize /\ currentFrame' = currentFrame
        /\ content' = content /\ ambientCache' = ambientCache /\ frameData' = frameData
        /\ backendFrameData' = backendFrameData /\ gpu' = gpu /\ extra' = extra
        /\ troubles' = troubles
    BY <1>1 DEF vars, bufferVars, cacheVars, chainVars, boundVars
  <2>2. TypeOK' /\ Rotation' /\ Filling' /\ Drawing' /\ Counted'
    BY <2>1 DEF Protected, TypeOK, Rotation, Filling, Drawing, Counted
  <2>3. HandlesFresh' /\ ScreenRectFresh' /\ ChainsFresh'
    BY <2>1 DEF Protected, HandlesFresh, ScreenRectFresh, ChainsFresh, Late, Fresh, Intact
  <2>4. Fenced' /\ DrawsIntact'
    BY <2>1 DEF Protected, Fenced, DrawsIntact, Intact
  <2> QED
    BY <2>2, <2>3, <2>4 DEF Protected
<1>2. ASSUME NEW s \in Surfaces, UseSurface(s)
      PROVE  Protected'
  BY <1>2, UseSurfaceProtects
<1>3. CASE DrawingDone
  BY <1>3, DrawingDoneProtects
<1>4. CASE GpuFinishes
  BY <1>4, GpuFinishesProtects
<1>5. CASE ActivateFrontend
  BY <1>5, ActivateFrontendProtects
<1>6. CASE IssueRenderCommands
  BY <1>6, IssueRenderCommandsProtects
<1>7. CASE Drop
  BY <1>7, DropProtects
<1>8. CASE EndFrame
  BY <1>8, EndFrameProtects
<1>9. CASE FinishEndFrame
  BY <1>9, RegionTakenOver, BufferReplaced
<1>10. CASE DrawBetweenFrames
  BY <1>10, DrawBetweenFramesProtects
<1>11. CASE EndFrameBetween
  BY <1>11, EndFrameBetweenProtects
<1>12. CASE WipeIssues
  BY <1>12, WipeIssuesProtects
<1>13. CASE PreviewIssues
  BY <1>13, PreviewIssuesProtects
<1>14. CASE PurgeAll
  BY <1>14, PurgeAllProtects
<1> QED
  BY <1>1, <1>2, <1>3, <1>4, <1>5, <1>6, <1>7, <1>8, <1>9, <1>10, <1>11, <1>12, <1>13, <1>14
     DEF Next

\* The inductive invariant holds throughout: the regions turn as intended, and
\* every fence covers what may still be read behind it.
THEOREM CacheProtected == Spec => []Protected
<1>1. Init => Protected
  BY InitProtected
<1>2. Protected /\ [Next]_vars => Protected'
  BY StepProtects
<1> QED
  BY <1>1, <1>2, PTL DEF Spec

\* The values of the variables.
THEOREM TypeCorrect == Spec => []TypeOK
<1>1. Protected => TypeOK
  BY DEF Protected
<1> QED
  BY <1>1, CacheProtected, PTL

\* GpuBuffer::SwitchFrame waits long enough: whatever frontend, backend and GPU
\* do, no vertices of a submission issued in time are overwritten before it is
\* over, for any number of surfaces, sizes and submissions in flight.
THEOREM DrawsProtected == Spec => []DrawsIntact
<1>1. Protected => DrawsIntact
  BY DEF Protected
<1> QED
  BY <1>1, CacheProtected, PTL

\* idVertexCache::CacheIsCurrent: as long as frame numbers do not wrap around, a
\* handle it accepts was made this frame, in this buffer, and its vertices lie
\* where it says.
THEOREM CurrentIsTrue == Spec => []CurrentMeansWritten
<1>1. Protected => CurrentMeansWritten
  <2> SUFFICES ASSUME Protected, NEW s \in Surfaces, CacheIsCurrent(ambientCache[s])
               PROVE  /\ ambientCache[s].buffer = buffer
                      /\ ambientCache[s].region = currentWritingFrame
                      /\ content[currentWritingFrame][ambientCache[s].position]
                           = <<s, currentFrame>>
    BY DEF CurrentMeansWritten
  <2> DEFINE h == ambientCache[s]
  <2>1. /\ s \in Drawable /\ h # NoCache /\ h \in Handles
        /\ h.frameNumber = currentFrame % FrameNumbers
    BY DEF CacheIsCurrent, Drawable, Protected, TypeOK
  <2>2. /\ h.tri = s /\ h.frameNumber = h.frame % FrameNumbers /\ h.frame <= currentFrame
        /\ h.frame = currentFrame => Fresh(h)
    BY <2>1 DEF Protected, HandlesFresh
  <2>3. currentFrame \in Nat /\ h.frame \in Nat /\ currentFrame < FrameNumbers
    BY <2>1, NoWrapAround, CacheAssumption DEF Protected, TypeOK, Counted, Handles
  <2>4. h.frame = currentFrame
    <3>1. h.frame % FrameNumbers = currentFrame % FrameNumbers
      BY <2>1, <2>2
    <3> HIDE DEF h
    <3> QED
      BY <2>2, <2>3, <3>1, FrameTold
  <2> QED
    BY <2>2, <2>4 DEF Fresh, Intact
<1> QED
  BY <1>1, CacheProtected, PTL
=============================================================================
