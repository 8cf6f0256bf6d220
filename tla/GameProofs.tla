------------------------------ MODULE GameProofs ------------------------------
(***************************************************************************)
(* Proofs about two objects of the game.  First the doorway, for any number  *)
(* of leaves, whatever their peers, handles and closing times: a lock        *)
(* request is pending only while its leaf is shut, and the portal follows    *)
(* the leaves if they are one or each other's double.  Then the mind of an AI, for any number of disturbances,      *)
(* conversations and loaded games: its ladder keeps all its rungs, and a     *)
(* flight has a state that ends it.  What one call does is stated of a leaf  *)
(* or of a mind first, and cited in the steps of Next.                       *)
(***************************************************************************)
EXTENDS FrobDoor, Mind, SequenceTheorems, TLAPS

\* A leaf that is marked as closed is; one that moves has somewhere to go; one
\* that waits for its lock is shut.
Sound(r) ==
    /\ r \in Leaf
    /\ ~r.isOpen => r.pos = "closed" /\ r.goal = "none"
    /\ r.moving => r.goal # "none"
    /\ r.locking > 0 => r.locking = 1 /\ r.pos = "closed" /\ r.goal = "none"

SoundWay(w) ==
    /\ w \in [leaf : [Leaves -> Leaf], portal : BOOLEAN]
    /\ \A d \in Leaves : Sound(w.leaf[d])

\* Every leaf of the portal is the double of every other: one leaf, or two.
Paired == \A d \in Leaves : DoubleDoor[d] = Leaves \ {d}

Follows(w) == Paired =>
    /\ (\E d \in Leaves : w.leaf[d].isOpen) => w.portal
    /\ w.portal => \E d \in Leaves : w.leaf[d].isOpen \/ d \in Transparent

IInv ==
    /\ SoundWay(way)
    /\ inputs \in Nat /\ bounces \in Nat
    /\ bounces = 0 => Follows(way)

-----------------------------------------------------------------------------
(* One leaf.                                                                *)

LEMMA UnrequestedSound ==
    ASSUME NEW r \in Leaf, Sound(r)
    PROVE  Sound(Unrequested(r)) /\ Unrequested(r).isOpen = r.isOpen
<1> DEFINE s == Unrequested(r)
<1>1. s \in Leaf
  BY DEF Leaf, Unrequested
<1>2. /\ s.isOpen = r.isOpen /\ s.pos = r.pos /\ s.goal = r.goal
      /\ s.moving = r.moving /\ s.locking = 0
  BY DEF Leaf, Unrequested
<1> HIDE DEF s
<1>3. Sound(s)
  BY <1>1, <1>2 DEF Sound
<1> QED
  BY <1>2, <1>3 DEF s

\* A leaf that starts to move is open, and where it goes is its goal.
LEMMA StartedMoves ==
    ASSUME NEW r \in Leaf, Sound(r), NEW target \in {"closed", "open"}
    PROVE  LET s == Started(r, target) IN
           /\ s \in Leaf
           /\ s.pos = r.pos /\ s.locking = r.locking
           /\ r.pos = target => s.isOpen = r.isOpen /\ s.goal = r.goal /\ ~s.moving
           /\ r.pos # target => s.isOpen /\ s.goal = target /\ s.moving
<1> DEFINE s == Started(r, target)
<1>1. CASE r.pos = target
  <2>1. s = [r EXCEPT !.moving = FALSE, !.stateChange = FALSE, !.interrupted = FALSE]
    BY <1>1 DEF Started
  <2>2. s \in Leaf
    BY <2>1 DEF Leaf
  <2>3. /\ s.pos = r.pos /\ s.locking = r.locking
        /\ s.isOpen = r.isOpen /\ s.goal = r.goal /\ ~s.moving
    BY <2>1 DEF Leaf
  <2> QED
    BY <1>1, <2>2, <2>3
<1>2. CASE r.pos # target
  <2>1. s = [r EXCEPT !.moving = TRUE, !.stateChange = TRUE, !.interrupted = FALSE,
                      !.goal = target, !.isOpen = TRUE]
    BY <1>2 DEF Started
  <2>2. s \in Leaf
    BY <2>1 DEF Leaf
  <2>3. s.pos = r.pos /\ s.locking = r.locking /\ s.isOpen /\ s.goal = target /\ s.moving
    BY <2>1 DEF Leaf
  <2> QED
    BY <1>2, <2>2, <2>3
<1> QED
  BY <1>1, <1>2

LEMMA OpenedSound ==
    ASSUME NEW r \in Leaf, Sound(r)
    PROVE  /\ Sound(Opened(r))
           /\ Opens(r) => Opened(r).isOpen
           /\ ~Opens(r) => Opened(r).isOpen = r.isOpen
<1>1. CASE r.locked
  BY <1>1 DEF Opened, Opens
<1>2. CASE ~r.locked
  <2> DEFINE s == Started(r, "open")
             u == IF s.moving THEN Unrequested(s) ELSE s
             v == [u EXCEPT !.intentOpen = FALSE]
  <2>1. Opened(r) = v
    BY <1>2 DEF Opened
  <2>2. /\ s \in Leaf
        /\ s.pos = r.pos /\ s.locking = r.locking
        /\ r.pos = "open" => s.isOpen = r.isOpen /\ s.goal = r.goal /\ ~s.moving
        /\ r.pos # "open" => s.isOpen /\ s.goal = "open" /\ s.moving
    BY StartedMoves
  <2> HIDE DEF s
  <2>3. /\ u \in Leaf
        /\ u.pos = s.pos /\ u.isOpen = s.isOpen /\ u.goal = s.goal /\ u.moving = s.moving
        /\ u.locking = IF s.moving THEN 0 ELSE s.locking
    BY <2>2, ZenonT(30) DEF Unrequested, Leaf
  <2> HIDE DEF u
  <2>4. v \in Leaf
    BY <2>3 DEF Leaf
  <2>5. /\ v.pos = u.pos /\ v.isOpen = u.isOpen /\ v.goal = u.goal /\ v.moving = u.moving
        /\ v.locking = u.locking
    BY <2>3 DEF Leaf
  <2> HIDE DEF v
  <2>6. CASE r.pos = "open"
    BY <1>2, <2>1, <2>2, <2>3, <2>4, <2>5, <2>6 DEF Sound, Opens
  <2>7. CASE r.pos # "open"
    BY <1>2, <2>1, <2>2, <2>3, <2>4, <2>5, <2>7 DEF Sound, Opens
  <2> QED
    BY <2>6, <2>7
<1> QED
  BY <1>1, <1>2

LEMMA ClosedSound ==
    ASSUME NEW r \in Leaf, Sound(r)
    PROVE  Sound(Closed(r)) /\ Closed(r).isOpen = r.isOpen
<1> DEFINE s == Started(r, "closed")
           v == [s EXCEPT !.intentOpen = TRUE]
<1>1. Closed(r) = v
  BY DEF Closed
<1>2. /\ s \in Leaf
      /\ s.pos = r.pos /\ s.locking = r.locking
      /\ r.pos = "closed" => s.isOpen = r.isOpen /\ s.goal = r.goal /\ ~s.moving
      /\ r.pos # "closed" => s.isOpen /\ s.goal = "closed" /\ s.moving
  BY StartedMoves
<1> HIDE DEF s
<1>3. v \in Leaf
  BY <1>2 DEF Leaf
<1>4. /\ v.pos = s.pos /\ v.isOpen = s.isOpen /\ v.goal = s.goal /\ v.moving = s.moving
      /\ v.locking = s.locking
  BY <1>2 DEF Leaf
<1> HIDE DEF v
<1>5. r.isOpen \in BOOLEAN /\ s.isOpen \in BOOLEAN
  BY <1>2 DEF Leaf
<1>6. CASE r.pos = "closed"
  BY <1>1, <1>2, <1>3, <1>4, <1>6 DEF Sound
<1>7. CASE r.pos # "closed"
  <2>1. r.isOpen = TRUE /\ s.isOpen = TRUE
    BY <1>2, <1>5, <1>7 DEF Sound
  <2> QED
    BY <1>1, <1>2, <1>3, <1>4, <1>7, <2>1 DEF Sound
<1> QED
  BY <1>6, <1>7

LEMMA TappedSound ==
    ASSUME NEW r \in Leaf, Sound(r)
    PROVE  Sound(Tapped(r)) /\ Tapped(r).isOpen = r.isOpen
BY SMT DEF Tapped, Sound, Leaf

LEMMA PeerOpenedSound ==
    ASSUME NEW r \in Leaf, Sound(r)
    PROVE  Sound(PeerOpened(r)) /\ (r.isOpen => PeerOpened(r).isOpen)
<1>1. Opened(r).isOpen \/ Opened(r).isOpen = r.isOpen
  BY OpenedSound
<1> QED
  BY <1>1, OpenedSound, TappedSound DEF PeerOpened

\* Only a leaf with a place to go is ever settled: it has no request pending.
LEMMA SettledSound ==
    ASSUME NEW r \in Leaf, Sound(r), r.goal # "none", NEW closes \in BOOLEAN
    PROVE  /\ Sound(Settled(r, closes))
           /\ Settled(r, closes).isOpen = (~Shuts(r))
           /\ Shuts(r) \/ r.isOpen
<1> DEFINE still == [r EXCEPT !.goal = "none", !.moving = FALSE, !.stateChange = FALSE]
           asked == IF Shuts(r) /\ r.lockOnClose THEN r.locking + 1 ELSE r.locking
           later == IF r.pos = "open" /\ closes THEN r.closing + 1 ELSE r.closing
           v == [still EXCEPT !.isOpen = (r.pos # "closed"), !.locking = asked,
                              !.lockOnClose = (r.lockOnClose /\ ~Shuts(r)), !.closing = later]
<1>1. r.locking = 0 /\ r.isOpen = TRUE
  BY DEF Sound, Leaf
<1>2. /\ still \in Leaf
      /\ still.pos = r.pos /\ still.isOpen = r.isOpen /\ still.goal = "none" /\ ~still.moving
      /\ still.locking = r.locking /\ still.lockOnClose = r.lockOnClose
      /\ still.closing = r.closing
  BY DEF Leaf
<1>3. CASE ~r.stateChange
  <2>1. Settled(r, closes) = still
    BY <1>3 DEF Settled
  <2> HIDE DEF still
  <2> QED
    BY <1>1, <1>2, <1>3, <2>1 DEF Sound, Shuts
<1>4. CASE r.stateChange
  <2>1. Settled(r, closes) = v
    BY <1>2, <1>4 DEF Settled
  <2>2. asked \in Nat /\ later \in Nat /\ (asked > 0 => asked = 1 /\ Shuts(r))
    BY <1>1 DEF Leaf
  <2>3. (r.lockOnClose /\ ~Shuts(r)) \in BOOLEAN /\ (r.pos # "closed") \in BOOLEAN
    OBVIOUS
  <2> HIDE DEF still, asked, later
  <2>4. v \in Leaf
    BY <1>2, <2>2, <2>3 DEF Leaf
  <2>5. /\ v.pos = r.pos /\ v.isOpen = (r.pos # "closed") /\ v.goal = "none" /\ ~v.moving
        /\ v.locking = asked
    BY <1>2 DEF Leaf
  <2> HIDE DEF v
  <2>6. Shuts(r) <=> r.pos = "closed"
    BY <1>4 DEF Shuts
  <2> QED
    BY <1>1, <2>1, <2>2, <2>4, <2>5, <2>6 DEF Sound
<1> QED
  BY <1>3, <1>4

-----------------------------------------------------------------------------
(* The doorway.                                                             *)

\* A change of one leaf that leaves its flag alone.
LEMMA OneLeaf ==
    ASSUME NEW w, NEW d \in Leaves, NEW r \in Leaf,
           SoundWay(w), Sound(r), r.isOpen = w.leaf[d].isOpen
    PROVE  /\ SoundWay([w EXCEPT !.leaf[d] = r])
           /\ Follows(w) => Follows([w EXCEPT !.leaf[d] = r])
<1> DEFINE v == [w EXCEPT !.leaf[d] = r]
<1>1. v.portal = w.portal /\ v.leaf = [w.leaf EXCEPT ![d] = r]
  BY DEF SoundWay
<1>2. v \in [leaf : [Leaves -> Leaf], portal : BOOLEAN]
  BY DEF SoundWay
<1>3. \A e \in Leaves : v.leaf[e] = IF e = d THEN r ELSE w.leaf[e]
  BY <1>1 DEF SoundWay
<1> HIDE DEF v
<1>4. SoundWay(v)
  BY <1>2, <1>3 DEF SoundWay
<1>5. Follows(w) => Follows(v)
  BY <1>1, <1>3 DEF Follows
<1> QED
  BY <1>4, <1>5 DEF v

LEMMA DoorOpenedSound ==
    ASSUME NEW w, NEW d \in Leaves, SoundWay(w)
    PROVE  SoundWay(DoorOpened(w, d)) /\ (Follows(w) => Follows(DoorOpened(w, d)))
<1> DEFINE v == DoorOpened(w, d)
           next(e) == IF e = d THEN Opened(w.leaf[e])
                      ELSE IF Opens(w.leaf[d]) /\ e \in OpenPeers[d] THEN PeerOpened(w.leaf[e])
                      ELSE w.leaf[e]
<1>1. /\ v.portal = (w.portal \/ Opens(w.leaf[d]))
      /\ v.leaf = [e \in Leaves |-> next(e)]
      /\ v = [portal |-> v.portal, leaf |-> v.leaf]
  BY DEF DoorOpened
<1>2. \A e \in Leaves : w.leaf[e] \in Leaf /\ Sound(w.leaf[e])
  BY DEF SoundWay
<1>3. \A e \in Leaves : Sound(next(e)) /\ next(e) \in Leaf
  <2>1. \A e \in Leaves : Sound(next(e))
    BY <1>2, OpenedSound, PeerOpenedSound
  <2> QED
    BY <2>1 DEF Sound
<1>4. v.leaf \in [Leaves -> Leaf] /\ \A e \in Leaves : v.leaf[e] = next(e)
  BY <1>1, <1>3
<1>5. v.portal \in BOOLEAN
  BY <1>1 DEF SoundWay, Opens
<1>6. SoundWay(v)
  <2> HIDE DEF v, next
  <2> QED
    BY <1>1, <1>3, <1>4, <1>5 DEF SoundWay
<1>7. ASSUME Follows(w) PROVE Follows(v)
  <2>1. CASE Opens(w.leaf[d])
    <3>1. v.portal /\ v.leaf[d].isOpen
      <4>1. v.portal
        BY <1>1, <2>1
      <4>2. v.leaf[d] = Opened(w.leaf[d])
        BY <1>4
      <4> QED
        BY <4>1, <4>2, <1>2, <2>1, OpenedSound
    <3> QED
      BY <3>1 DEF Follows
  <2>2. CASE ~Opens(w.leaf[d])
    <3>1. \A e \in Leaves : v.leaf[e].isOpen = w.leaf[e].isOpen
      BY <1>2, <1>4, <2>2, OpenedSound
    <3>2. v.portal = w.portal
      BY <1>1, <2>2 DEF SoundWay
    <3> HIDE DEF v
    <3> QED
      BY <3>1, <3>2, <1>7 DEF Follows
  <2> QED
    BY <2>1, <2>2
<1> QED
  BY <1>6, <1>7

\* A call that gives every leaf a next one with the same flag.
LEMMA SameFlags ==
    ASSUME NEW w, NEW v, SoundWay(w),
           v = [w EXCEPT !.leaf = v.leaf],
           v.leaf \in [Leaves -> Leaf],
           \A e \in Leaves : Sound(v.leaf[e]) /\ v.leaf[e].isOpen = w.leaf[e].isOpen
    PROVE  SoundWay(v) /\ (Follows(w) => Follows(v))
<1>1. v.portal = w.portal /\ v \in [leaf : [Leaves -> Leaf], portal : BOOLEAN]
  BY DEF SoundWay
<1> QED
  BY <1>1 DEF SoundWay, Follows

LEMMA OpenSound ==
    ASSUME NEW w, NEW d \in Leaves, SoundWay(w)
    PROVE  SoundWay(Open(w, d)) /\ (Follows(w) => Follows(Open(w, d)))
<1>1. CASE ~ByHandle(w.leaf[d])
  BY <1>1, DoorOpenedSound DEF Open
<1>2. CASE ByHandle(w.leaf[d])
  <2> DEFINE v == Open(w, d)
  <2>1. v = [w EXCEPT !.leaf = [e \in Leaves |->
              IF e \in {d} \cup OpenPeers[d] THEN Tapped(w.leaf[e]) ELSE w.leaf[e]]]
    BY <1>2 DEF Open
  <2>2. \A e \in Leaves : w.leaf[e] \in Leaf /\ Sound(w.leaf[e])
    BY DEF SoundWay
  <2>3. \A e \in Leaves : Tapped(w.leaf[e]) \in Leaf
    BY <2>2, TappedSound DEF Sound
  <2>4. /\ v.leaf = [e \in Leaves |->
              IF e \in {d} \cup OpenPeers[d] THEN Tapped(w.leaf[e]) ELSE w.leaf[e]]
        /\ v = [w EXCEPT !.leaf = v.leaf]
    BY <2>1 DEF SoundWay
  <2>5. v.leaf \in [Leaves -> Leaf]
    BY <2>2, <2>3, <2>4
  <2>6. \A e \in Leaves : Sound(v.leaf[e]) /\ v.leaf[e].isOpen = w.leaf[e].isOpen
    BY <2>2, <2>4, TappedSound
  <2> HIDE DEF v
  <2>7. SoundWay(v) /\ (Follows(w) => Follows(v))
    BY <2>4, <2>5, <2>6, SameFlags
  <2> QED
    BY <2>7 DEF v
<1> QED
  BY <1>1, <1>2

LEMMA CloseSound ==
    ASSUME NEW w, NEW d \in Leaves, SoundWay(w)
    PROVE  SoundWay(Close(w, d)) /\ (Follows(w) => Follows(Close(w, d)))
<1> DEFINE v == Close(w, d)
           goes(e) == e = d \/ (w.leaf[d].pos # "closed" /\ e \in OpenPeers[d])
<1>1. v = [w EXCEPT !.leaf = [e \in Leaves |->
             IF goes(e) THEN Closed(w.leaf[e]) ELSE w.leaf[e]]]
  BY DEF Close
<1>2. \A e \in Leaves : w.leaf[e] \in Leaf /\ Sound(w.leaf[e])
  BY DEF SoundWay
<1>3. \A e \in Leaves : Closed(w.leaf[e]) \in Leaf
  BY <1>2, ClosedSound DEF Sound
<1>4. /\ v.leaf = [e \in Leaves |-> IF goes(e) THEN Closed(w.leaf[e]) ELSE w.leaf[e]]
      /\ v = [w EXCEPT !.leaf = v.leaf]
  BY <1>1 DEF SoundWay
<1>5. v.leaf \in [Leaves -> Leaf]
  BY <1>2, <1>3, <1>4
<1>6. \A e \in Leaves : Sound(v.leaf[e]) /\ v.leaf[e].isOpen = w.leaf[e].isOpen
  BY <1>2, <1>4, ClosedSound
<1> HIDE DEF v, goes
<1>7. SoundWay(v) /\ (Follows(w) => Follows(v))
  BY <1>4, <1>5, <1>6, SameFlags
<1> QED
  BY <1>7 DEF v

\* Locking and unlocking touch the locks and the pending events only.
LEMMA LockSound ==
    ASSUME NEW w, NEW d \in Leaves, SoundWay(w)
    PROVE  SoundWay(Lock(w, d)) /\ (Follows(w) => Follows(Lock(w, d)))
<1> DEFINE v == Lock(w, d)
           also(e) == w.leaf[e].locked \/ e = d \/ (e \in LockPeers[d] /\ PeersShut(w, e))
<1>1. CASE ~PeersShut(w, d)
  BY <1>1 DEF Lock
<1>2. CASE PeersShut(w, d)
  <2>1. v = [w EXCEPT !.leaf = [e \in Leaves |-> [w.leaf[e] EXCEPT !.locked = also(e)]]]
    BY <1>2 DEF Lock
  <2>2. \A e \in Leaves : w.leaf[e] \in Leaf /\ Sound(w.leaf[e]) /\ also(e) \in BOOLEAN
    BY DEF SoundWay, Leaf
  <2> HIDE DEF also
  <2>3. ASSUME NEW e \in Leaves
        PROVE  /\ Sound([w.leaf[e] EXCEPT !.locked = also(e)])
               /\ [w.leaf[e] EXCEPT !.locked = also(e)].isOpen = w.leaf[e].isOpen
    BY <2>2, SMT DEF Sound, Leaf
  <2>4. /\ v.leaf = [e \in Leaves |-> [w.leaf[e] EXCEPT !.locked = also(e)]]
        /\ v = [w EXCEPT !.leaf = v.leaf]
    BY <2>1 DEF SoundWay
  <2>5. v.leaf \in [Leaves -> Leaf]
    BY <2>3, <2>4 DEF Sound
  <2>6. \A e \in Leaves : Sound(v.leaf[e]) /\ v.leaf[e].isOpen = w.leaf[e].isOpen
    BY <2>3, <2>4
  <2> HIDE DEF v
  <2>7. SoundWay(v) /\ (Follows(w) => Follows(v))
    BY <2>4, <2>5, <2>6, SameFlags
  <2> QED
    BY <2>7 DEF v
<1> QED
  BY <1>1, <1>2

LEMMA UnlockSound ==
    ASSUME NEW w, NEW d \in Leaves, SoundWay(w)
    PROVE  SoundWay(Unlock(w, d)) /\ (Follows(w) => Follows(Unlock(w, d)))
<1> DEFINE v == Unlock(w, d)
           still(e) == w.leaf[e].locked /\ e \notin {d} \cup LockPeers[d]
           soon(e) == IF e = d /\ OpenOnUnlock THEN w.leaf[e].toggling + 1 ELSE w.leaf[e].toggling
           next(e) == [w.leaf[e] EXCEPT !.locked = still(e), !.toggling = soon(e)]
<1>1. v = [w EXCEPT !.leaf = [e \in Leaves |-> next(e)]]
  BY DEF Unlock
<1>2. \A e \in Leaves : w.leaf[e] \in Leaf /\ Sound(w.leaf[e]) /\ still(e) \in BOOLEAN /\ soon(e) \in Nat
  BY SMT DEF SoundWay, Leaf
<1> HIDE DEF still, soon
<1>3. ASSUME NEW e \in Leaves
      PROVE  Sound(next(e)) /\ next(e).isOpen = w.leaf[e].isOpen
  <2> DEFINE r == w.leaf[e]
  <2>1. r \in Leaf /\ Sound(r) /\ still(e) \in BOOLEAN /\ soon(e) \in Nat
    BY <1>2
  <2>2. next(e) = [r EXCEPT !.locked = still(e), !.toggling = soon(e)]
    OBVIOUS
  <2> HIDE DEF r, next
  <2>3. next(e) \in Leaf
    BY <2>1, <2>2 DEF Leaf
  <2>4. /\ next(e).isOpen = r.isOpen /\ next(e).pos = r.pos /\ next(e).goal = r.goal
        /\ next(e).moving = r.moving /\ next(e).locking = r.locking
    BY <2>1, <2>2 DEF Leaf
  <2> QED
    BY <2>1, <2>3, <2>4 DEF Sound, r
<1> HIDE DEF next
<1>4. v.leaf = [e \in Leaves |-> next(e)] /\ v = [w EXCEPT !.leaf = v.leaf]
  BY <1>1 DEF SoundWay
<1>5. v.leaf \in [Leaves -> Leaf]
  BY <1>3, <1>4 DEF Sound
<1>6. \A e \in Leaves : Sound(v.leaf[e]) /\ v.leaf[e].isOpen = w.leaf[e].isOpen
  BY <1>3, <1>4
<1> HIDE DEF v
<1>7. SoundWay(v) /\ (Follows(w) => Follows(v))
  BY <1>4, <1>5, <1>6, SameFlags
<1> QED
  BY <1>7 DEF v

\* A leaf comes to rest: the portal is shut if it was the last.
LEMMA StoppedSound ==
    ASSUME NEW w, NEW d \in Leaves, SoundWay(w), w.leaf[d].goal # "none"
    PROVE  SoundWay(Stopped(w, d)) /\ (Follows(w) => Follows(Stopped(w, d)))
<1> DEFINE v == Stopped(w, d)
           r == Settled(w.leaf[d], d \in AutoClose)
<1>1. v = [portal |-> PortalAfter(w, d), leaf |-> [w.leaf EXCEPT ![d] = r]]
  BY DEF Stopped
<1>2. Sound(r) /\ r.isOpen = (~Shuts(w.leaf[d])) /\ (Shuts(w.leaf[d]) \/ w.leaf[d].isOpen)
  <2>1. w.leaf[d] \in Leaf /\ Sound(w.leaf[d]) /\ (d \in AutoClose) \in BOOLEAN
    BY DEF SoundWay
  <2> QED
    BY <2>1, SettledSound
<1>3. r \in Leaf /\ PortalAfter(w, d) \in BOOLEAN
  BY <1>2 DEF Sound, SoundWay, PortalAfter
<1> HIDE DEF r
<1>4. /\ v.portal = PortalAfter(w, d)
      /\ v.leaf \in [Leaves -> Leaf]
      /\ \A e \in Leaves : v.leaf[e] = IF e = d THEN r ELSE w.leaf[e]
      /\ v \in [leaf : [Leaves -> Leaf], portal : BOOLEAN]
  BY <1>1, <1>3 DEF SoundWay
<1> HIDE DEF v
<1>5. SoundWay(v)
  BY <1>2, <1>4 DEF SoundWay
<1>6. ASSUME Follows(w), Paired PROVE Follows(v)
  <2>1. CASE Shuts(w.leaf[d])
    <3>1. ~v.leaf[d].isOpen
      BY <1>2, <1>4, <2>1
    <3>2. v.portal <=> (w.portal /\ (d \in Transparent \/ \E e \in Leaves \ {d} : w.leaf[e].isOpen))
      BY <1>4, <1>6, <2>1 DEF PortalAfter, Paired
    <3> QED
      BY <1>4, <1>6, <3>1, <3>2 DEF Follows
  <2>2. CASE ~Shuts(w.leaf[d])
    <3>1. v.leaf[d].isOpen /\ w.leaf[d].isOpen
      BY <1>2, <1>4, <2>2
    <3>2. v.portal <=> w.portal
      BY <1>4, <2>2 DEF PortalAfter
    <3> QED
      BY <1>6, <3>1, <3>2 DEF Follows
  <2> QED
    BY <2>1, <2>2
<1>7. ~Paired => Follows(v)
  BY DEF Follows
<1> QED
  BY <1>5, <1>6, <1>7 DEF v

LEMMA ToggleOpenSound ==
    ASSUME NEW w, NEW d \in Leaves, SoundWay(w)
    PROVE  SoundWay(ToggleOpen(w, d)) /\ (Follows(w) => Follows(ToggleOpen(w, d)))
<1>1. CASE ~w.leaf[d].moving
  BY <1>1, OpenSound, CloseSound DEF ToggleOpen
<1>2. CASE w.leaf[d].moving
  <2> DEFINE r == [w.leaf[d] EXCEPT !.interrupted = TRUE]
             u == [w EXCEPT !.leaf[d] = r]
             h == Stopped(u, d)
  <2>1. w.leaf[d] \in Leaf /\ Sound(w.leaf[d])
    BY DEF SoundWay
  <2>2. r \in Leaf /\ Sound(r) /\ r.isOpen = w.leaf[d].isOpen /\ r.goal # "none"
    BY <1>2, <2>1 DEF Sound, Leaf
  <2>3. u = [w EXCEPT !.leaf[d].interrupted = TRUE] /\ u.leaf[d] = r
    BY DEF SoundWay
  <2> HIDE DEF r
  <2>4. SoundWay(u) /\ (Follows(w) => Follows(u)) /\ u.leaf[d].goal # "none"
    BY <2>2, <2>3, OneLeaf
  <2> HIDE DEF u
  <2>5. SoundWay(h) /\ (Follows(w) => Follows(h))
    BY <2>4, StoppedSound
  <2>6. ToggleOpen(w, d) = [h EXCEPT !.leaf[d] = Unrequested(h.leaf[d])]
    BY <1>2, <2>3 DEF ToggleOpen
  <2> HIDE DEF h
  <2>7. /\ Unrequested(h.leaf[d]) \in Leaf /\ Sound(Unrequested(h.leaf[d]))
        /\ Unrequested(h.leaf[d]).isOpen = h.leaf[d].isOpen
    BY <2>5, UnrequestedSound DEF SoundWay, Sound
  <2> QED
    BY <2>5, <2>6, <2>7, OneLeaf
<1> QED
  BY <1>1, <1>2

LEMMA AdvanceSound ==
    ASSUME NEW d \in Leaves, SoundWay(way), Advance(d)
    PROVE  SoundWay(way') /\ (Follows(way) => Follows(way'))
<1> DEFINE leaf == way.leaf[d]
<1>1. leaf \in Leaf /\ Sound(leaf) /\ leaf.goal # "none" /\ leaf.goal \in {"closed", "open"}
  BY DEF Advance, SoundWay, Leaf
<1>2. leaf.isOpen = TRUE /\ leaf.locking = 0
  BY <1>1 DEF Sound, Leaf
<1>3. ASSUME NEW p \in {"closed", "between", "open"}
      PROVE  LET there == [way EXCEPT !.leaf[d].pos = p] IN
             SoundWay(there) /\ (Follows(way) => Follows(there)) /\ there.leaf[d].goal # "none"
  <2> DEFINE r == [leaf EXCEPT !.pos = p]
             there == [way EXCEPT !.leaf[d] = r]
  <2>1. r \in Leaf
    BY <1>1 DEF Leaf
  <2>2. /\ r.isOpen = leaf.isOpen /\ r.goal = leaf.goal /\ r.moving = leaf.moving
        /\ r.locking = leaf.locking
    BY <1>1 DEF Leaf
  <2>3. there = [way EXCEPT !.leaf[d].pos = p] /\ there.leaf[d] = r
    BY DEF SoundWay
  <2> HIDE DEF r
  <2>4. Sound(r)
    BY <1>1, <1>2, <2>1, <2>2 DEF Sound
  <2>5. SoundWay(there) /\ (Follows(way) => Follows(there))
    BY <2>1, <2>2, <2>4, OneLeaf
  <2> QED
    BY <1>1, <2>2, <2>3, <2>5
<1>4. CASE leaf.pos = "between"
  <2> DEFINE there == [way EXCEPT !.leaf[d].pos = leaf.goal]
  <2>1. SoundWay(there) /\ (Follows(way) => Follows(there)) /\ there.leaf[d].goal # "none"
    BY <1>1, <1>3
  <2>2. way' = Stopped(there, d)
    BY <1>4 DEF Advance
  <2> HIDE DEF there
  <2> QED
    BY <2>1, <2>2, StoppedSound
<1>5. CASE leaf.pos # "between"
  <2>1. way' = [way EXCEPT !.leaf[d].pos = "between"]
    BY <1>5 DEF Advance
  <2> QED
    BY <2>1, <1>3
<1> QED
  BY <1>4, <1>5

\* One leaf opens by itself, as when its handle is down.
LEMMA HandleDownSound ==
    ASSUME NEW d \in Leaves, SoundWay(way), HandleDown(d)
    PROVE  SoundWay(way') /\ (Follows(way) => Follows(way'))
<1> DEFINE leaf == way.leaf[d]
           opened == IF leaf.isOpen THEN way
                     ELSE [way EXCEPT !.portal = @ \/ Opens(leaf), !.leaf[d] = Opened(@)]
           r == [opened.leaf[d] EXCEPT !.handle = "up"]
<1>1. leaf \in Leaf /\ Sound(leaf)
  BY DEF SoundWay
<1>2. SoundWay(opened) /\ (Follows(way) => Follows(opened))
  <2>1. CASE leaf.isOpen
    BY <2>1
  <2>2. CASE ~leaf.isOpen
    <3> DEFINE s == Opened(leaf)
    <3>1. /\ opened.portal = (way.portal \/ Opens(leaf))
          /\ opened.leaf = [way.leaf EXCEPT ![d] = s]
          /\ opened \in [leaf : {[way.leaf EXCEPT ![d] = s]}, portal : BOOLEAN]
      BY <2>2 DEF SoundWay, Opens
    <3>2. Sound(s) /\ s \in Leaf /\ (s.isOpen = Opens(leaf))
      <4>1. Sound(s) /\ (Opens(leaf) => s.isOpen) /\ (~Opens(leaf) => s.isOpen = leaf.isOpen)
        BY <1>1, OpenedSound
      <4> HIDE DEF s
      <4>2. s \in Leaf /\ s.isOpen \in BOOLEAN /\ Opens(leaf) \in BOOLEAN
        BY <4>1 DEF Sound, Leaf, Opens
      <4>3. leaf.isOpen = FALSE
        BY <1>1, <2>2 DEF Leaf
      <4> QED
        BY <4>1, <4>2, <4>3
    <3> HIDE DEF s, opened
    <3>3. /\ opened.leaf \in [Leaves -> Leaf]
          /\ \A e \in Leaves : opened.leaf[e] = IF e = d THEN s ELSE way.leaf[e]
      BY <3>1, <3>2 DEF SoundWay
    <3>4. SoundWay(opened)
      BY <3>1, <3>2, <3>3 DEF SoundWay
    <3>5. ASSUME Follows(way) PROVE Follows(opened)
      BY <2>2, <3>1, <3>2, <3>3, <3>5 DEF Follows
    <3> QED
      BY <3>4, <3>5
  <2> QED
    BY <2>1, <2>2
<1>3. way' = [opened EXCEPT !.leaf[d].handle = "up"]
  BY DEF HandleDown
<1> HIDE DEF opened
<1>4. opened.leaf[d] \in Leaf /\ Sound(opened.leaf[d])
  BY <1>2 DEF SoundWay
<1>5. r \in Leaf
  BY <1>4 DEF Leaf
<1>6. /\ r.isOpen = opened.leaf[d].isOpen /\ r.pos = opened.leaf[d].pos
      /\ r.goal = opened.leaf[d].goal /\ r.moving = opened.leaf[d].moving
      /\ r.locking = opened.leaf[d].locking
  BY <1>4 DEF Leaf
<1>7. way' = [opened EXCEPT !.leaf[d] = r]
  BY <1>2, <1>3 DEF SoundWay
<1> HIDE DEF r
<1>8. Sound(r)
  BY <1>4, <1>5, <1>6 DEF Sound
<1> QED
  BY <1>2, <1>5, <1>6, <1>7, <1>8, OneLeaf

\* A leaf stops, bounces or gives way; a bounce does not tell the portal.
LEMMA BlockedSound ==
    ASSUME NEW d \in Leaves, SoundWay(way), Blocked(d), bounces \in Nat
    PROVE  /\ SoundWay(way') /\ bounces' \in Nat
           /\ bounces' = 0 => bounces = 0 /\ (Follows(way) => Follows(way'))
<1> DEFINE r == [way.leaf[d] EXCEPT !.interrupted = TRUE]
           u == [way EXCEPT !.leaf[d] = r]
           h == Stopped(u, d)
           s == [Started(h.leaf[d], "open") EXCEPT !.intentOpen = ~@]
<1>1. way.leaf[d] \in Leaf /\ Sound(way.leaf[d]) /\ way.leaf[d].goal # "none"
  BY DEF SoundWay, Blocked
<1>2. r \in Leaf
  BY <1>1 DEF Leaf
<1>3. /\ r.isOpen = way.leaf[d].isOpen /\ r.pos = way.leaf[d].pos /\ r.goal = way.leaf[d].goal
      /\ r.moving = way.leaf[d].moving /\ r.locking = way.leaf[d].locking
  BY <1>1 DEF Leaf
<1>4. u = [way EXCEPT !.leaf[d].interrupted = TRUE] /\ u.leaf[d] = r
  BY DEF SoundWay
<1> HIDE DEF r
<1>5. Sound(r) /\ r.goal # "none"
  BY <1>1, <1>2, <1>3 DEF Sound
<1>6. SoundWay(u) /\ (Follows(way) => Follows(u)) /\ u.leaf[d].goal # "none"
  BY <1>2, <1>3, <1>4, <1>5, OneLeaf
<1>7. SoundWay(h) /\ (Follows(way) => Follows(h))
  BY <1>6, StoppedSound
<1>8. \/ way' = [h EXCEPT !.leaf[d] = Unrequested(h.leaf[d])] /\ bounces' = bounces
      \/ /\ way' = [[h EXCEPT !.leaf[d] = s] EXCEPT !.leaf[d] = Unrequested(@)]
         /\ bounces' = bounces + 1
      \/ way' = [way EXCEPT !.leaf[d] = Unrequested(way.leaf[d])] /\ bounces' = bounces
  <2> DEFINE halted == Stopped([way EXCEPT !.leaf[d].interrupted = TRUE], d)
             reversed == Started(halted.leaf[d], "open")
             bounced == [halted EXCEPT !.leaf[d] = [reversed EXCEPT !.intentOpen = ~@]]
  <2>1. \/ way' = [halted EXCEPT !.leaf[d] = Unrequested(@)] /\ bounces' = bounces
        \/ way' = [bounced EXCEPT !.leaf[d] = Unrequested(@)] /\ bounces' = bounces + 1
        \/ way' = [way EXCEPT !.leaf[d] = Unrequested(@)] /\ bounces' = bounces
    BY Zenon DEF Blocked
  <2> HIDE DEF u
  <2>2. halted = h
    BY <1>4
  <2> HIDE DEF halted, h
  <2>3. bounced = [h EXCEPT !.leaf[d] = s]
    BY <2>2
  <2> HIDE DEF bounced, s
  <2> QED
    BY <2>1, <2>2, <2>3
<1> HIDE DEF h, u
<1>9. h.leaf[d] \in Leaf /\ Sound(h.leaf[d])
  BY <1>7 DEF SoundWay
<1>10. CASE way' = [h EXCEPT !.leaf[d] = Unrequested(h.leaf[d])] /\ bounces' = bounces
  <2>1. /\ Unrequested(h.leaf[d]) \in Leaf /\ Sound(Unrequested(h.leaf[d]))
        /\ Unrequested(h.leaf[d]).isOpen = h.leaf[d].isOpen
    BY <1>9, UnrequestedSound DEF Sound
  <2> QED
    BY <1>7, <1>10, <2>1, OneLeaf
<1>11. CASE way' = [way EXCEPT !.leaf[d] = Unrequested(way.leaf[d])] /\ bounces' = bounces
  <2>1. /\ Unrequested(way.leaf[d]) \in Leaf /\ Sound(Unrequested(way.leaf[d]))
        /\ Unrequested(way.leaf[d]).isOpen = way.leaf[d].isOpen
    BY <1>1, UnrequestedSound DEF Sound
  <2> QED
    BY <1>11, <2>1, OneLeaf
<1>12. CASE /\ way' = [[h EXCEPT !.leaf[d] = s] EXCEPT !.leaf[d] = Unrequested(@)]
            /\ bounces' = bounces + 1
  <2> DEFINE a == Started(h.leaf[d], "open")
             b == Unrequested(s)
  <2>1. /\ a \in Leaf /\ a.pos = h.leaf[d].pos
        /\ a.pos = "open" => a.isOpen = h.leaf[d].isOpen /\ a.goal = h.leaf[d].goal /\ ~a.moving
        /\ a.pos # "open" => a.isOpen /\ a.goal = "open" /\ a.moving
    BY <1>9, StartedMoves
  <2>2. s = [a EXCEPT !.intentOpen = ~@]
    OBVIOUS
  <2> HIDE DEF a, s
  <2>3. (~a.intentOpen) \in BOOLEAN
    OBVIOUS
  <2>4. s \in Leaf
    BY <2>1, <2>2, <2>3 DEF Leaf
  <2>5. s.pos = a.pos /\ s.isOpen = a.isOpen /\ s.goal = a.goal /\ s.moving = a.moving
    BY <2>1, <2>2 DEF Leaf
  <2>6. b \in Leaf
    BY <2>4 DEF Unrequested, Leaf
  <2>7. /\ b.pos = s.pos /\ b.isOpen = s.isOpen /\ b.goal = s.goal /\ b.moving = s.moving
        /\ b.locking = 0
    BY <2>4 DEF Unrequested, Leaf
  <2>8. way' = [h EXCEPT !.leaf = [h.leaf EXCEPT ![d] = b]]
    BY <1>7, <1>12 DEF SoundWay
  <2> HIDE DEF b
  <2>9. Sound(b)
    <3>1. CASE a.pos = "open"
      BY <1>9, <2>1, <2>5, <2>6, <2>7, <3>1 DEF Sound
    <3>2. CASE a.pos # "open"
      BY <2>1, <2>5, <2>6, <2>7, <3>2 DEF Sound
    <3> QED
      BY <3>1, <3>2
  <2>10. /\ way' \in [leaf : [Leaves -> Leaf], portal : BOOLEAN]
         /\ \A e \in Leaves : way'.leaf[e] = IF e = d THEN b ELSE h.leaf[e]
    BY <1>7, <2>6, <2>8 DEF SoundWay
  <2>11. SoundWay(way')
    BY <1>7, <2>9, <2>10 DEF SoundWay
  <2> QED
    BY <1>12, <2>11
<1> QED
  BY <1>8, <1>10, <1>11, <1>12

-----------------------------------------------------------------------------
(* Every step.                                                              *)

LEMMA InitSound == Init => IInv
<1> SUFFICES ASSUME Init PROVE IInv
  OBVIOUS
<1>1. PICK pos \in [Leaves -> {"closed", "between", "open"}], locked \in [Leaves -> BOOLEAN],
           ajar \in [Leaves -> BOOLEAN] :
        way = [leaf |-> [d \in Leaves |-> Spawned(d, pos[d], locked[d], ajar[d])],
               portal |-> \E d \in Leaves : pos[d] # "closed"]
  BY DEF Init
<1>2. ASSUME NEW d \in Leaves
      PROVE  /\ Sound(Spawned(d, pos[d], locked[d], ajar[d]))
             /\ Spawned(d, pos[d], locked[d], ajar[d]).isOpen <=> pos[d] # "closed"
  <2> DEFINE r == Spawned(d, pos[d], locked[d], ajar[d])
  <2>1. /\ r.pos = pos[d] /\ r.goal = "none" /\ r.isOpen = (pos[d] # "closed")
        /\ r.moving = FALSE /\ r.locking = 0
    BY DEF Spawned
  <2>2. r \in Leaf
    <3> DEFINE shut == pos[d] # "closed"
               intends == pos[d] = "closed" \/ ajar[d]
               grip == IF d \in Handled THEN "rest" ELSE "none"
               soon == IF pos[d] = "open" /\ d \in AutoClose THEN 1 ELSE 0
    <3>1. /\ shut \in BOOLEAN /\ intends \in BOOLEAN /\ soon \in Nat
          /\ grip \in {"none", "rest", "down", "up"}
          /\ pos[d] \in {"closed", "between", "open"} /\ locked[d] \in BOOLEAN
          /\ ajar[d] \in BOOLEAN
      OBVIOUS
    <3>2. r = [pos |-> pos[d], goal |-> "none", moving |-> FALSE, stateChange |-> ajar[d],
               isOpen |-> shut, intentOpen |-> intends, interrupted |-> ajar[d],
               lockOnClose |-> FALSE, locked |-> locked[d], handle |-> grip,
               locking |-> 0, toggling |-> 0, picked |-> 0, closing |-> soon]
      BY DEF Spawned
    <3> HIDE DEF r, shut, intends, grip, soon
    <3> QED
      BY <3>1, <3>2 DEF Leaf
  <2> HIDE DEF r
  <2>3. CASE pos[d] = "closed"
    <3>1. r.isOpen = FALSE
      BY <2>1, <2>3
    <3> QED
      BY <2>1, <2>2, <2>3, <3>1 DEF Sound, r
  <2>4. CASE pos[d] # "closed"
    <3>1. r.isOpen = TRUE
      BY <2>1, <2>4
    <3> QED
      BY <2>1, <2>2, <2>4, <3>1 DEF Sound, r
  <2> QED
    BY <2>3, <2>4
<1>3. /\ way \in [leaf : [Leaves -> Leaf], portal : BOOLEAN]
      /\ \A d \in Leaves : way.leaf[d] = Spawned(d, pos[d], locked[d], ajar[d])
      /\ way.portal = \E d \in Leaves : pos[d] # "closed"
  <2> DEFINE leaf == [d \in Leaves |-> Spawned(d, pos[d], locked[d], ajar[d])]
  <2>1. leaf \in [Leaves -> Leaf]
    BY <1>2 DEF Sound
  <2>2. (\E d \in Leaves : pos[d] # "closed") \in BOOLEAN
    OBVIOUS
  <2>3. \A d \in Leaves : leaf[d] = Spawned(d, pos[d], locked[d], ajar[d])
    OBVIOUS
  <2> HIDE DEF leaf
  <2> QED
    BY <1>1, <2>1, <2>2, <2>3 DEF leaf
<1>4. SoundWay(way)
  BY <1>2, <1>3 DEF SoundWay
<1>5. Follows(way)
  BY <1>2, <1>3 DEF Follows
<1> QED
  BY <1>4, <1>5 DEF IInv, Init

LEMMA InputsCount ==
    ASSUME inputs \in Nat, [Next]_vars
    PROVE  inputs' \in Nat
<1>1. Input => inputs' \in Nat
  BY DEF Input
<1>2. ASSUME NEW d \in Leaves, Frob(d) \/ UseKey(d) \/ PickLock(d)
      PROVE  inputs' \in Nat
  BY <1>1, <1>2 DEF Frob, UseKey, PickLock
<1>3. ASSUME NEW d \in Leaves, AIOpen(d) \/ AIClose(d) \/ AILock(d) \/ Blocked(d)
      PROVE  inputs' \in Nat
  BY <1>1, <1>3 DEF AIOpen, AIClose, AILock, Blocked
<1>4. ASSUME NEW d \in Leaves, Advance(d) \/ HandleDown(d) \/ HandleUp(d) \/ Event(d)
      PROVE  inputs' \in Nat
  BY <1>4 DEF Advance, HandleDown, HandleUp, Event, HandleLockRequest, ToggleAfterUnlock,
              CloseByItself, OnLockPicked
<1>5. UNCHANGED vars => inputs' \in Nat
  BY DEF vars
<1> QED
  BY <1>2, <1>3, <1>4, <1>5 DEF Next

\* Changes of one leaf that matter to none of the invariants: its lock, its
\* handle, the events of others.
LEMMA Bookkeeping ==
    ASSUME NEW w, NEW d \in Leaves, SoundWay(w)
    PROVE  /\ \A b \in BOOLEAN : LET v == [w EXCEPT !.leaf[d].locked = b] IN
                SoundWay(v) /\ (Follows(w) => Follows(v))
           /\ \A b \in BOOLEAN : LET v == [w EXCEPT !.leaf[d].lockOnClose = b] IN
                SoundWay(v) /\ (Follows(w) => Follows(v))
           /\ LET v == [w EXCEPT !.leaf[d].handle = "rest"] IN
                SoundWay(v) /\ (Follows(w) => Follows(v))
           /\ \A n \in Nat : LET v == [w EXCEPT !.leaf[d].toggling = n] IN
                SoundWay(v) /\ (Follows(w) => Follows(v))
           /\ \A n \in Nat : LET v == [w EXCEPT !.leaf[d].closing = n] IN
                SoundWay(v) /\ (Follows(w) => Follows(v))
           /\ \A n \in Nat : LET v == [w EXCEPT !.leaf[d].picked = n] IN
                SoundWay(v) /\ (Follows(w) => Follows(v))
           /\ LET v == [w EXCEPT !.leaf[d].locking = 0] IN
                SoundWay(v) /\ (Follows(w) => Follows(v))
<1> DEFINE r == w.leaf[d]
           Same(s) == /\ s.pos = r.pos /\ s.goal = r.goal /\ s.isOpen = r.isOpen
                      /\ s.moving = r.moving /\ s.locking \in {0, r.locking}
<1>1. r \in Leaf /\ Sound(r)
  BY DEF SoundWay
<1>2. ASSUME NEW s \in Leaf, Same(s)
      PROVE  LET v == [w EXCEPT !.leaf[d] = s] IN
             SoundWay(v) /\ (Follows(w) => Follows(v))
  <2> HIDE DEF r
  <2>1. Sound(s)
    BY <1>1, <1>2 DEF Sound
  <2> QED
    BY <1>2, <2>1, OneLeaf DEF r
<1>3. ASSUME NEW b \in BOOLEAN
      PROVE  [r EXCEPT !.locked = b] \in Leaf /\ Same([r EXCEPT !.locked = b])
  BY <1>1 DEF Leaf
<1>4. ASSUME NEW b \in BOOLEAN
      PROVE  [r EXCEPT !.lockOnClose = b] \in Leaf /\ Same([r EXCEPT !.lockOnClose = b])
  BY <1>1 DEF Leaf
<1>5. [r EXCEPT !.handle = "rest"] \in Leaf /\ Same([r EXCEPT !.handle = "rest"])
  BY <1>1 DEF Leaf
<1>6. ASSUME NEW n \in Nat
      PROVE  [r EXCEPT !.toggling = n] \in Leaf /\ Same([r EXCEPT !.toggling = n])
  BY <1>1 DEF Leaf
<1>7. ASSUME NEW n \in Nat
      PROVE  [r EXCEPT !.closing = n] \in Leaf /\ Same([r EXCEPT !.closing = n])
  BY <1>1 DEF Leaf
<1>8. ASSUME NEW n \in Nat
      PROVE  [r EXCEPT !.picked = n] \in Leaf /\ Same([r EXCEPT !.picked = n])
  BY <1>1 DEF Leaf
<1>9. [r EXCEPT !.locking = 0] \in Leaf /\ Same([r EXCEPT !.locking = 0])
  BY <1>1 DEF Leaf
<1> HIDE DEF Same
<1> QED
  BY <1>2, <1>3, <1>4, <1>5, <1>6, <1>7, <1>8, <1>9

LEMMA LockedAloneSound ==
    ASSUME NEW w, NEW d \in Leaves, SoundWay(w)
    PROVE  SoundWay(LockedAlone(w, d)) /\ (Follows(w) => Follows(LockedAlone(w, d)))
BY Bookkeeping DEF LockedAlone

LEMMA ToggleLockSound ==
    ASSUME NEW w, NEW d \in Leaves, SoundWay(w)
    PROVE  SoundWay(ToggleLock(w, d)) /\ (Follows(w) => Follows(ToggleLock(w, d)))
<1> DEFINE closed == IF w.leaf[d].isOpen THEN Close(w, d) ELSE w
<1>1. SoundWay(closed) /\ (Follows(w) => Follows(closed))
  BY CloseSound
<1>2. ToggleLock(w, d) = IF w.leaf[d].locked THEN Unlock(closed, d) ELSE Lock(closed, d)
  BY DEF ToggleLock
<1> HIDE DEF closed
<1> QED
  BY <1>1, <1>2, LockSound, UnlockSound

LEMMA CloseAndLockSound ==
    ASSUME NEW w, NEW d \in Leaves, SoundWay(w)
    PROVE  SoundWay(CloseAndLock(w, d)) /\ (Follows(w) => Follows(CloseAndLock(w, d)))
<1> DEFINE v == [w EXCEPT !.leaf[d].lockOnClose = TRUE]
<1>1. SoundWay(v) /\ (Follows(w) => Follows(v))
  BY Bookkeeping
<1>2. CloseAndLock(w, d) = IF ~w.leaf[d].locked /\ w.leaf[d].pos # "closed"
                           THEN Close(v, d) ELSE Lock(w, d)
  BY DEF CloseAndLock
<1> HIDE DEF v
<1> QED
  BY <1>1, <1>2, CloseSound, LockSound

\* The events take themselves out of the queue before they do their work.
LEMMA EventSound ==
    ASSUME NEW d \in Leaves, SoundWay(way), Event(d)
    PROVE  SoundWay(way') /\ (Follows(way) => Follows(way'))
<1>1. way.leaf[d] \in Leaf /\ Sound(way.leaf[d])
  BY DEF SoundWay
<1>2. CASE HandleLockRequest(d)
  <2> DEFINE v == [way EXCEPT !.leaf[d].locking = 0]
  <2>1. way.leaf[d].locking - 1 = 0
    BY <1>1, <1>2 DEF HandleLockRequest, Sound
  <2>2. [way EXCEPT !.leaf[d].locking = @ - 1] = v
    BY <2>1
  <2>3. SoundWay(v) /\ (Follows(way) => Follows(v))
    BY Bookkeeping
  <2>4. way' = IF PeersShut(way, d) THEN Lock(v, d) ELSE way
    BY <1>2, <2>2 DEF HandleLockRequest
  <2> HIDE DEF v
  <2> QED
    BY <2>3, <2>4, LockSound
<1>3. CASE ToggleAfterUnlock(d)
  <2> DEFINE n == way.leaf[d].toggling - 1
             v == [way EXCEPT !.leaf[d].toggling = n]
  <2>1. n \in Nat
    BY <1>1, <1>3 DEF ToggleAfterUnlock, Leaf
  <2>2. way' = ToggleOpen(v, d)
    BY <1>3 DEF ToggleAfterUnlock
  <2> HIDE DEF n
  <2>3. SoundWay(v) /\ (Follows(way) => Follows(v))
    BY <2>1, Bookkeeping
  <2> HIDE DEF v
  <2> QED
    BY <2>2, <2>3, ToggleOpenSound
<1>4. CASE CloseByItself(d)
  <2> DEFINE n == way.leaf[d].closing - 1
             v == [way EXCEPT !.leaf[d].closing = n]
  <2>1. n \in Nat
    BY <1>1, <1>4 DEF CloseByItself, Leaf
  <2>2. way' = Close(v, d)
    BY <1>4 DEF CloseByItself
  <2> HIDE DEF n
  <2>3. SoundWay(v) /\ (Follows(way) => Follows(v))
    BY <2>1, Bookkeeping
  <2> HIDE DEF v
  <2> QED
    BY <2>2, <2>3, CloseSound
<1>5. CASE OnLockPicked(d)
  <2> DEFINE n == way.leaf[d].picked - 1
             v == [way EXCEPT !.leaf[d].picked = n]
  <2>1. n \in Nat
    BY <1>1, <1>5 DEF OnLockPicked, Leaf
  <2>2. way' = Unlock(v, d)
    BY <1>5 DEF OnLockPicked
  <2> HIDE DEF n
  <2>3. SoundWay(v) /\ (Follows(way) => Follows(v))
    BY <2>1, Bookkeeping
  <2> HIDE DEF v
  <2> QED
    BY <2>2, <2>3, UnlockSound
<1> QED
  BY <1>2, <1>3, <1>4, <1>5 DEF Event

LEMMA StepSound ==
    ASSUME IInv, [Next]_vars
    PROVE  IInv'
<1> SUFFICES /\ SoundWay(way') /\ bounces' \in Nat
             /\ bounces' = 0 => bounces = 0 /\ (Follows(way) => Follows(way'))
  BY InputsCount DEF IInv
<1>1. SoundWay(way) /\ bounces \in Nat
  BY DEF IInv
<1>2. ASSUME NEW d \in Leaves, Frob(d)
      PROVE  SoundWay(way') /\ (Follows(way) => Follows(way')) /\ bounces' = bounces
  BY <1>1, <1>2, ToggleOpenSound DEF Frob
<1>3. ASSUME NEW d \in Leaves, UseKey(d)
      PROVE  SoundWay(way') /\ (Follows(way) => Follows(way')) /\ bounces' = bounces
  BY <1>1, <1>3, ToggleLockSound, CloseAndLockSound DEF UseKey
<1>4. ASSUME NEW d \in Leaves, PickLock(d)
      PROVE  SoundWay(way') /\ (Follows(way) => Follows(way')) /\ bounces' = bounces
  BY <1>1, <1>4, Bookkeeping DEF PickLock
<1>5. ASSUME NEW d \in Leaves, AIOpen(d)
      PROVE  SoundWay(way') /\ (Follows(way) => Follows(way')) /\ bounces' = bounces
  <2>1. SoundWay(Unlock(way, d)) /\ (Follows(way) => Follows(Unlock(way, d)))
    BY <1>1, UnlockSound
  <2>2. \/ way' = Open(way, d)
        \/ way' = Unlock(way, d)
        \/ way' = Open(Unlock(way, d), d)
    BY <1>5 DEF AIOpen
  <2>3. bounces' = bounces
    BY <1>5 DEF AIOpen
  <2> QED
    BY <1>1, <2>1, <2>2, <2>3, OpenSound
<1>6. ASSUME NEW d \in Leaves, AIClose(d)
      PROVE  SoundWay(way') /\ (Follows(way) => Follows(way')) /\ bounces' = bounces
  BY <1>1, <1>6, CloseSound DEF AIClose
<1>7. ASSUME NEW d \in Leaves, AILock(d)
      PROVE  SoundWay(way') /\ (Follows(way) => Follows(way')) /\ bounces' = bounces
  BY <1>1, <1>7, LockedAloneSound DEF AILock
<1>8. ASSUME NEW d \in Leaves, Blocked(d)
      PROVE  /\ SoundWay(way') /\ bounces' \in Nat
             /\ bounces' = 0 => bounces = 0 /\ (Follows(way) => Follows(way'))
  BY <1>1, <1>8, BlockedSound
<1>9. ASSUME NEW d \in Leaves, Advance(d)
      PROVE  SoundWay(way') /\ (Follows(way) => Follows(way')) /\ bounces' = bounces
  <2>1. bounces' = bounces
    BY <1>9 DEF Advance
  <2> QED
    BY <1>1, <1>9, <2>1, AdvanceSound
<1>10. ASSUME NEW d \in Leaves, HandleDown(d)
       PROVE  SoundWay(way') /\ (Follows(way) => Follows(way')) /\ bounces' = bounces
  <2>1. bounces' = bounces
    BY <1>10 DEF HandleDown
  <2> QED
    BY <1>1, <1>10, <2>1, HandleDownSound
<1>11. ASSUME NEW d \in Leaves, HandleUp(d)
       PROVE  SoundWay(way') /\ (Follows(way) => Follows(way')) /\ bounces' = bounces
  BY <1>1, <1>11, Bookkeeping DEF HandleUp
<1>12. ASSUME NEW d \in Leaves, Event(d)
       PROVE  SoundWay(way') /\ (Follows(way) => Follows(way')) /\ bounces' = bounces
  <2>1. bounces' = bounces
    BY <1>12 DEF Event, HandleLockRequest, ToggleAfterUnlock, CloseByItself, OnLockPicked
  <2> QED
    BY <1>1, <1>12, <2>1, EventSound
<1>13. CASE UNCHANGED vars
  BY <1>1, <1>13 DEF vars
<1>14. CASE Next
  <2>1. PICK d \in Leaves :
          \/ Frob(d) \/ UseKey(d) \/ PickLock(d) \/ AIOpen(d) \/ AIClose(d) \/ AILock(d)
          \/ Blocked(d) \/ Advance(d) \/ HandleDown(d) \/ HandleUp(d) \/ Event(d)
    BY <1>14 DEF Next
  <2>2. CASE Blocked(d)
    BY <1>8, <2>2
  <2>3. CASE ~Blocked(d)
    <3>1. SoundWay(way') /\ (Follows(way) => Follows(way')) /\ bounces' = bounces
      BY <1>2, <1>3, <1>4, <1>5, <1>6, <1>7, <1>9, <1>10, <1>11, <1>12, <2>1, <2>3
    <3> QED
      BY <1>1, <3>1
  <2> QED
    BY <2>2, <2>3
<1> QED
  BY <1>13, <1>14

\* The inductive invariant.
THEOREM DoorwaySound == Spec => []IInv
<1>1. IInv /\ [Next]_vars => IInv'
  BY StepSound
<1> QED
  BY InitSound, <1>1, PTL DEF Spec

\* Every variable keeps its type.
THEOREM TypeCorrect == Spec => []TypeOK
<1>1. IInv => TypeOK
  BY DEF IInv, TypeOK, SoundWay
<1> QED
  BY DoorwaySound, <1>1, PTL

\* "m_Open is only set to false when the door is completely closed."
THEOREM FlagIsTrue == Spec => []FlagTellsClosed
<1>1. IInv => FlagTellsClosed
  BY DEF IInv, FlagTellsClosed, SoundWay, Sound
<1> QED
  BY DoorwaySound, <1>1, PTL

\* A lock request is withdrawn by whatever sets its leaf in motion, and there is
\* never a second one.
THEOREM RequestsWithdrawn == Spec => []RequestMeansClosed
<1>1. IInv => RequestMeansClosed
  BY DEF IInv, RequestMeansClosed, SoundWay, Sound
<1> QED
  BY DoorwaySound, <1>1, PTL

\* The visportal of a single or a double door is open while a leaf is, and only then
\* unless a transparent leaf left it open; or one bounced.
THEOREM PortalRight == ASSUME Paired PROVE Spec => []PortalFollows
<1>1. IInv => PortalFollows
  BY Paired DEF IInv, PortalFollows, Follows
<1> QED
  BY DoorwaySound, <1>1, PTL

-----------------------------------------------------------------------------
(* The mind of an AI.                                                       *)

Minds == [queue : Seq(States), switchState : BOOLEAN, bin : Seq(States), combatState : BOOLEAN]

\* LadderStacked, of any states.
Stacked(states) ==
    \A i \in DOMAIN states :
       (states[i].kind \in Ladder /\ Level[states[i].kind] > 1) =>
          /\ i < Len(states)
          /\ states[i + 1].kind = Backbone[Level[states[i].kind] - 1]

\* A mind whose ladder has all its rungs, on the way between two operations and after.
Whole(m) == m \in Minds /\ Len(m.bin) <= 1 /\ Stacked(m.queue)
Sane(m) == Whole(m) /\ m.queue # <<>>

\* The other variables.
BodyOK ==
    /\ phase \in {"idle", "init", "think"}
    /\ alertIndex \in 0 .. 5 /\ canSearch \in BOOLEAN /\ enemy \in BOOLEAN
    /\ evidence \in BOOLEAN /\ posture \in {"stand", "sit", "getUp"} /\ sight \in BOOLEAN
    /\ hurt \in BOOLEAN /\ fleeing \in BOOLEAN /\ fleeTask \in {"none", "queued", "running"}
    /\ inConversation \in BOOLEAN /\ conversing \in Nat
    /\ disturbances \in Nat /\ talks \in Nat /\ loads \in Nat

\* The dead think of nothing else.
DeadAlone == Holds(mind.queue, "dead") => Len(mind.queue) = 1

\* The inductive invariant.  The ladder is needed for the flight: combat that finds
\* no enemy ends two states at once (CheckEnemyStatus and its caller in
\* CombatState::Think), and the second, one rung below, is no flee state.
MindInv == BodyOK /\ Sane(mind) /\ DeadAlone /\ FlightIsReal

-----------------------------------------------------------------------------
\* The state a level calls for has that level.
LEMMA Levels ==
    /\ \A kind \in Ladder : Level[kind] \in 0 .. 5
    /\ \A kind \in Ladder : Level[kind] >= 1 => Backbone[Level[kind]] = kind
    /\ \A n \in 1 .. 5 : Backbone[n] \in Ladder /\ Level[Backbone[n]] = n
BY DEF Level, Backbone, Ladder, Idles, Searches

LEMMA FreshState == \A kind \in Kinds : Fresh(kind) \in States /\ Fresh(kind).kind = kind
BY DEF Fresh, States

\* PushState, of a state that belongs on what is in front.
LEMMA PushedKeeps ==
    ASSUME NEW m, Whole(m), NEW kind \in Kinds,
           kind \in Ladder /\ Level[kind] > 1 =>
               m.queue # <<>> /\ Head(m.queue).kind = Backbone[Level[kind] - 1]
    PROVE  /\ Sane(Pushed(m, kind)) /\ Pushed(m, kind).switchState
           /\ Head(Pushed(m, kind).queue) = Fresh(kind)
           /\ Len(Pushed(m, kind).queue) = Len(m.queue) + 1
           /\ \A k : Holds(Pushed(m, kind).queue, k) <=> k = kind \/ Holds(m.queue, k)
<1> DEFINE q == m.queue
           p == <<Fresh(kind)>> \o q
<1>1. q \in Seq(States) /\ Len(q) \in Nat /\ DOMAIN q = 1 .. Len(q)
    BY DEF Whole, Minds
<1>2. Fresh(kind) \in States /\ Fresh(kind).kind = kind
    BY FreshState
<1>3. /\ p \in Seq(States) /\ Len(p) = Len(q) + 1 /\ p # <<>>
      /\ p[1] = Fresh(kind) /\ \A i \in 1 .. Len(q) : p[i + 1] = q[i]
    BY <1>1, <1>2
<1>4. \A i \in DOMAIN p : i = 1 \/ (i - 1 \in 1 .. Len(q) /\ p[i] = q[i - 1])
    <2> HIDE DEF q, p
    <2>1. DOMAIN p = 1 .. Len(p)
        BY <1>3
    <2>2. ASSUME NEW i \in 2 .. Len(q) + 1 PROVE i - 1 \in 1 .. Len(q) /\ p[i] = q[i - 1]
        <3>1. i - 1 \in 1 .. Len(q) /\ (i - 1) + 1 = i
            BY <1>1
        <3> QED BY <1>3, <3>1
    <2> QED BY <1>1, <1>3, <2>1, <2>2
<1>5. /\ Pushed(m, kind).queue = p /\ Pushed(m, kind).bin = m.bin /\ Pushed(m, kind) \in Minds
      /\ Pushed(m, kind).switchState
    BY <1>3 DEF Pushed, Whole, Minds
<1>6. Stacked(p)
    <2> SUFFICES ASSUME NEW i \in DOMAIN p, p[i].kind \in Ladder, Level[p[i].kind] > 1
                 PROVE  i < Len(p) /\ p[i + 1].kind = Backbone[Level[p[i].kind] - 1]
        BY DEF Stacked
    <2>1. CASE i = 1
        <3>0. q # <<>>
            BY <1>2, <1>3, <2>1
        <3>1. Head(q) = q[1] /\ p[2] = q[1] /\ 1 \in 1 .. Len(q) /\ 1 < Len(p)
            BY <1>1, <1>3, <3>0
        <3> QED BY <1>2, <1>3, <2>1, <3>1
    <2>2. CASE i # 1
        <3>1. i - 1 \in DOMAIN q /\ p[i] = q[i - 1] /\ i \in Int
            BY <1>1, <1>4, <2>2
        <3>2. i - 1 < Len(q) /\ q[i - 1 + 1].kind = Backbone[Level[q[i - 1].kind] - 1]
            BY <3>1 DEF Whole, Stacked
        <3>3. i \in 1 .. Len(q) /\ i - 1 + 1 = i
            BY <3>1, <3>2, <1>1
        <3> HIDE DEF q, p
        <3>4. p[i + 1] = q[i]
            BY <1>3, <3>3
        <3> QED BY <1>1, <1>3, <3>1, <3>2, <3>3, <3>4
    <2> QED BY <2>1, <2>2
<1>7. \A k : Holds(p, k) <=> k = kind \/ Holds(q, k)
    <2> HIDE DEF q, p
    <2>1. DOMAIN p = 1 .. Len(q) + 1 /\ 1 \in DOMAIN p
        BY <1>1, <1>3
    <2>2. \A i \in 1 .. Len(q) : i + 1 \in DOMAIN p
        BY <1>1, <2>1
    <2>3. \A i \in DOMAIN q : \E j \in DOMAIN p : p[j] = q[i]
        BY <1>1, <1>3, <2>2
    <2>4. \A j \in DOMAIN p : p[j].kind = kind \/ \E i \in DOMAIN q : p[j] = q[i]
        BY <1>1, <1>2, <1>3, <1>4
    <2>5. p[1].kind = kind
        BY <1>2, <1>3
    <2> TAKE k
    <2>6. ASSUME Holds(p, k) PROVE k = kind \/ Holds(q, k)
        BY <2>4, <2>6 DEF Holds
    <2>7. ASSUME Holds(q, k) PROVE Holds(p, k)
        BY <2>3, <2>7 DEF Holds
    <2>8. Holds(p, kind)
        BY <2>1, <2>5 DEF Holds
    <2> QED BY <2>6, <2>7, <2>8
<1>8. Head(p) = Fresh(kind)
    BY <1>3
<1> HIDE DEF p
<1> QED BY <1>3, <1>5, <1>6, <1>7, <1>8 DEF Sane, Whole

\* What is left when the front state goes to the bin.
Popped(m, switch) ==
    [m EXCEPT !.queue = Tail(@), !.switchState = switch, !.bin = <<Head(m.queue)>>]

\* The front state leaves the queue.
LEMMA PoppedKeeps ==
    ASSUME NEW m, Sane(m), NEW switch \in BOOLEAN
    PROVE  /\ Whole(Popped(m, switch))
           /\ Len(Popped(m, switch).queue) = Len(m.queue) - 1
           /\ \A k : Holds(m.queue, k) <=> k = Head(m.queue).kind \/ Holds(Popped(m, switch).queue, k)
<1> DEFINE q == m.queue
           p == Tail(q)
<1>1. q \in Seq(States) /\ q # <<>> /\ Len(q) \in Nat \ {0} /\ DOMAIN q = 1 .. Len(q)
    BY DEF Sane, Whole, Minds
<1>2. Head(q) \in States /\ Head(q) = q[1]
    BY <1>1
<1>3. p \in Seq(States) /\ Len(p) = Len(q) - 1 /\ \A i \in 1 .. Len(q) - 1 : p[i] = q[i + 1]
    BY <1>1
<1>4. DOMAIN p = 1 .. Len(q) - 1
    BY <1>3
<1>5. Popped(m, switch) \in Minds /\ Popped(m, switch).queue = p /\ Len(Popped(m, switch).bin) = 1
    <2> HIDE DEF q
    <2>1. <<Head(q)>> \in Seq(States) /\ Len(<<Head(q)>>) = 1
        BY <1>2
    <2>2. m \in Minds
        BY DEF Sane, Whole
    <2>3. \A a, b \in Seq(States) :
              LET n == [m EXCEPT !.queue = a, !.switchState = switch, !.bin = b]
              IN  n \in Minds /\ n.queue = a /\ n.bin = b
        BY <2>2 DEF Minds
    <2>4. Popped(m, switch) = [m EXCEPT !.queue = p, !.switchState = switch, !.bin = <<Head(q)>>]
        BY <2>2 DEF Popped, Minds, q
    <2> DEFINE old == <<Head(q)>>
               n == [m EXCEPT !.queue = p, !.switchState = switch, !.bin = old]
    <2>5. p \in Seq(States) /\ old \in Seq(States) /\ Len(old) = 1
        BY <1>3, <2>1
    <2> HIDE DEF p, old
    <2>6. n \in Minds /\ n.queue = p /\ n.bin = old
        BY <2>3, <2>5
    <2>7. Popped(m, switch) = n
        BY <2>4 DEF old
    <2> QED BY <2>5, <2>6, <2>7
<1>6. Stacked(p)
    <2> SUFFICES ASSUME NEW i \in DOMAIN p, p[i].kind \in Ladder, Level[p[i].kind] > 1
                 PROVE  i < Len(p) /\ p[i + 1].kind = Backbone[Level[p[i].kind] - 1]
        BY DEF Stacked
    <2> HIDE DEF q, p
    <2>1. i \in 1 .. Len(q) - 1 /\ i + 1 \in DOMAIN q /\ p[i] = q[i + 1]
        BY <1>1, <1>3, <1>4
    <2>2. i + 1 < Len(q) /\ q[i + 1 + 1].kind = Backbone[Level[q[i + 1].kind] - 1]
        BY <2>1 DEF Sane, Whole, Stacked, q
    <2>3. i + 1 \in 1 .. Len(q) - 1 /\ i < Len(p)
        BY <1>1, <1>3, <2>1, <2>2
    <2>4. p[i + 1] = q[i + 1 + 1]
        BY <1>3, <2>3
    <2> QED BY <2>1, <2>2, <2>3, <2>4
<1>7. \A k : Holds(q, k) <=> k = Head(q).kind \/ Holds(p, k)
    <2> HIDE DEF q, p
    <2>1. \A i \in DOMAIN p : \E j \in DOMAIN q : q[j] = p[i]
        BY <1>1, <1>3, <1>4
    <2>2. ASSUME NEW j \in DOMAIN q PROVE j = 1 \/ \E i \in DOMAIN p : p[i] = q[j]
        <3>1. j # 1 => j - 1 \in 1 .. Len(q) - 1 /\ j - 1 + 1 = j
            BY <1>1
        <3> QED BY <1>3, <1>4, <3>1
    <2>3. 1 \in DOMAIN q
        BY <1>1
    <2> QED BY <1>2, <2>1, <2>2, <2>3 DEF Holds
<1> HIDE DEF p
<1> QED BY <1>3, <1>5, <1>6, <1>7 DEF Whole

\* EndState keeps the ladder, and holds a flight unless it ends the flee state.
LEMMA EndedKeeps ==
    ASSUME NEW m, Sane(m)
    PROVE  /\ Sane(Ended(m)) /\ Ended(m).switchState
           /\ Holds(Ended(m).queue, "dead") => Holds(m.queue, "dead")
           /\ Head(m.queue).kind # "flee" /\ Holds(m.queue, "flee") => Holds(Ended(m).queue, "flee")
           /\ Len(m.queue) > 1 => Ended(m).queue = Tail(m.queue)
<1> DEFINE p == Popped(m, TRUE)
<1>0. m \in Minds
    BY DEF Sane, Whole
<1>1. Whole(p) /\ p.switchState /\ Len(p.queue) = Len(m.queue) - 1 /\ p.queue = Tail(m.queue)
    BY <1>0, PoppedKeeps DEF Popped, Minds
<1>2. \A k : Holds(m.queue, k) <=> k = Head(m.queue).kind \/ Holds(p.queue, k)
    BY PoppedKeeps
<1>3. Ended(m) = IF p.queue = <<>> THEN Pushed(p, "idle") ELSE p
    BY DEF Ended, Popped
<1> HIDE DEF p
<1>4. CASE p.queue = <<>>
    <2>1. "idle" \in Kinds /\ ~(Level["idle"] > 1)
        BY DEF Kinds, Ladder, Idles, Level
    <2>2. /\ Sane(Pushed(p, "idle")) /\ Pushed(p, "idle").switchState
          /\ \A k : Holds(Pushed(p, "idle").queue, k) <=> k = "idle" \/ Holds(p.queue, k)
        BY <1>1, <2>1, PushedKeeps
    <2>3. ~(Len(m.queue) > 1)
        BY <1>1, <1>4 DEF Sane, Whole, Minds
    <2> QED BY <1>2, <1>3, <1>4, <2>2, <2>3
<1>5. CASE p.queue # <<>>
    BY <1>1, <1>2, <1>3, <1>5 DEF Sane
<1> QED BY <1>4, <1>5

\* SwitchState to a state that stands on nothing.
LEMMA SwitchedKeeps ==
    ASSUME NEW m, Sane(m), NEW kind \in Kinds \ {"dead"}, kind \in Ladder => Level[kind] <= 1
    PROVE  /\ Sane(Switched(m, kind)) /\ Switched(m, kind).switchState
           /\ Holds(Switched(m, kind).queue, "dead") => Holds(m.queue, "dead")
           /\ (Head(m.queue).kind # "flee" /\ Holds(m.queue, "flee")) \/ kind = "flee"
                  => Holds(Switched(m, kind).queue, "flee")
<1> DEFINE o == Popped(m, TRUE)
           p == [m EXCEPT !.queue = Tail(@), !.bin = <<Head(m.queue)>>]
<1>0. m \in Minds /\ m.queue \in Seq(States) /\ m.queue # <<>> /\ m.switchState \in BOOLEAN
    BY DEF Sane, Whole, Minds
<1>1. Whole(o) /\ \A k : Holds(m.queue, k) <=> k = Head(m.queue).kind \/ Holds(o.queue, k)
    BY PoppedKeeps
<1>2. p \in Minds /\ p.queue = o.queue /\ Len(p.bin) <= 1
    <2>0. o.queue = Tail(m.queue)
        BY <1>0 DEF Popped, Minds
    <2>1. Tail(m.queue) \in Seq(States) /\ <<Head(m.queue)>> \in Seq(States) /\ Len(<<Head(m.queue)>>) = 1
        BY <1>0
    <2>2. \A a, b \in Seq(States) :
              LET n == [m EXCEPT !.queue = a, !.bin = b] IN n \in Minds /\ n.queue = a /\ n.bin = b
        BY <1>0 DEF Minds
    <2>3. p \in Minds /\ p.queue = Tail(m.queue) /\ p.bin = <<Head(m.queue)>>
        BY <2>1, <2>2
    <2> HIDE DEF o, p
    <2> QED BY <2>0, <2>1, <2>3
<1>3. Switched(m, kind) = Pushed(p, kind) /\ Whole(p)
    BY <1>1, <1>2 DEF Switched, Whole
<1> HIDE DEF o, p
<1>4. ~(kind \in Ladder /\ Level[kind] > 1)
    BY Levels
<1>5. /\ Sane(Pushed(p, kind)) /\ Pushed(p, kind).switchState
      /\ \A k : Holds(Pushed(p, kind).queue, k) <=> k = kind \/ Holds(p.queue, k)
    BY <1>3, <1>4, PushedKeeps
<1> QED BY <1>1, <1>2, <1>3, <1>5

\* Init and Think change what a state remembers, never which state it is.
LEMMA MarkedKeeps ==
    ASSUME NEW m, Sane(m), NEW s \in States, s.kind = Head(m.queue).kind,
           NEW n \in Minds, n.queue = [m.queue EXCEPT ![1] = s], n.bin = m.bin
    PROVE  /\ Sane(n) /\ Len(n.queue) = Len(m.queue) /\ Head(n.queue) = s
           /\ \A k : Holds(n.queue, k) <=> Holds(m.queue, k)
<1> DEFINE q == m.queue
           p == [q EXCEPT ![1] = s]
<1>1. q \in Seq(States) /\ q # <<>> /\ Len(q) \in Nat \ {0} /\ DOMAIN q = 1 .. Len(q)
    BY DEF Sane, Whole, Minds
<1>2. p \in Seq(States) /\ Len(p) = Len(q) /\ DOMAIN p = DOMAIN q /\ p # <<>> /\ Head(p) = s
    BY <1>1
<1>3. \A i \in DOMAIN q : p[i].kind = q[i].kind
    BY <1>1
<1>4. n \in Minds /\ n.queue = p /\ n.bin = m.bin
    BY <1>2 DEF Sane, Whole, Minds
<1> HIDE DEF p
<1>5. Stacked(p)
    <2> SUFFICES ASSUME NEW i \in DOMAIN p, p[i].kind \in Ladder, Level[p[i].kind] > 1
                 PROVE  i < Len(p) /\ p[i + 1].kind = Backbone[Level[p[i].kind] - 1]
        BY DEF Stacked
    <2> HIDE DEF q
    <2>1. i \in DOMAIN q /\ p[i].kind = q[i].kind
        BY <1>2, <1>3
    <2>2. i < Len(q) /\ q[i + 1].kind = Backbone[Level[q[i].kind] - 1]
        BY <2>1 DEF Sane, Whole, Stacked, q
    <2>3. i + 1 \in DOMAIN q
        BY <1>1, <2>1, <2>2
    <2> QED BY <1>2, <1>3, <2>1, <2>2, <2>3
<1>6. \A k : Holds(p, k) <=> Holds(q, k)
    <2> HIDE DEF q
    <2> QED BY <1>2, <1>3 DEF Holds
<1> QED BY <1>2, <1>4, <1>5, <1>6 DEF Sane, Whole

-----------------------------------------------------------------------------
(* What a step has to do for the invariant.                                *)

\* The ladder stays whole, nobody dies, and a flight that is held stays held.
Keeps(m, n) ==
    /\ Sane(n)
    /\ Holds(n.queue, "dead") => Holds(m.queue, "dead")
    /\ Holds(m.queue, "flee") => Holds(n.queue, "flee")

\* The same states lie in the same order.
Same(m, n) ==
    /\ Sane(n) /\ Len(n.queue) = Len(m.queue)
    /\ \A kind : Holds(n.queue, kind) <=> Holds(m.queue, kind)

LEMMA FrontHeld == ASSUME Sane(mind) PROVE Holds(mind.queue, Front.kind) /\ Front \in States
<1>1. mind.queue \in Seq(States) /\ mind.queue # <<>>
    BY DEF Sane, Whole, Minds
<1>2. Front = mind.queue[1] /\ 1 \in DOMAIN mind.queue /\ Front \in States
    BY <1>1 DEF Front
<1> QED BY <1>2 DEF Holds

LEMMA FrontAlive ==
    ASSUME MindInv, Front.kind # "dead"
    PROVE  ~Holds(mind.queue, "dead") /\ Alive
<1>1. mind.queue \in Seq(States) /\ mind.queue # <<>>
    BY DEF MindInv, Sane, Whole, Minds
<1>2. Front = mind.queue[1] /\ DOMAIN mind.queue = 1 .. Len(mind.queue) /\ Len(mind.queue) \in Nat
    BY <1>1 DEF Front
<1>3. ~Holds(mind.queue, "dead")
    <2> SUFFICES ASSUME Holds(mind.queue, "dead") PROVE FALSE
        OBVIOUS
    <2>1. DOMAIN mind.queue = 1 .. 1
        BY <1>2 DEF MindInv, DeadAlone
    <2> QED BY <1>2, <2>1 DEF Holds
<1> QED BY <1>3 DEF Holds, Alive

\* What preserves the invariant: the states stay the same, or the ladder is kept
\* while the AI lives, and no flight begins without a flee state.
LEMMA Preserved ==
    ASSUME MindInv, BodyOK',
           (Keeps(mind, mind') /\ ~Holds(mind.queue, "dead")) \/ Same(mind, mind'),
           fleeing' => fleeing \/ Holds(mind'.queue, "flee")
    PROVE  MindInv'
<1>1. Alive <=> ~Holds(mind.queue, "dead")
    BY DEF Alive, Holds
<1>2. Alive' <=> ~Holds(mind'.queue, "dead")
    BY DEF Alive, Holds
<1> QED BY <1>1, <1>2 DEF MindInv, DeadAlone, FlightIsReal, Keeps, Same

LEMMA SameSame ==
    ASSUME MindInv, mind'.queue = mind.queue, mind' \in Minds, Len(mind'.bin) <= 1
    PROVE  Same(mind, mind')
BY DEF MindInv, Same, Sane, Whole

-----------------------------------------------------------------------------
(* The operations, of the mind as it is.                                   *)

LEMMA UnswitchedKeeps ==
    ASSUME Sane(mind)
    PROVE  Sane(Unswitched) /\ Unswitched.queue = mind.queue
<1>1. mind \in Minds
    BY DEF Sane, Whole
<1>2. Unswitched \in Minds /\ Unswitched.queue = mind.queue /\ Unswitched.bin = mind.bin
    BY <1>1 DEF Unswitched, Minds
<1> QED BY <1>2 DEF Sane, Whole

LEMMA FoughtKeeps ==
    ASSUME Sane(mind)
    PROVE  Sane(Fought) /\ Fought.queue = mind.queue
<1>1. mind \in Minds
    BY DEF Sane, Whole
<1>2. Fought \in Minds /\ Fought.queue = mind.queue /\ Fought.bin = mind.bin
    BY <1>1 DEF Fought, Minds
<1> QED BY <1>2 DEF Sane, Whole

LEMMA InitDoneSame ==
    ASSUME Sane(mind), NEW keeps \in {"nothing", "enemy", "endgame", "sight", "dark"}
    PROVE  Same(mind, InitDone(keeps))
<1> DEFINE s == [Front EXCEPT !.inited = TRUE, !.keeps = keeps]
           n == InitDone(keeps)
<1>1. /\ mind.queue[1] = Front /\ mind.queue[1] \in States
      /\ mind.queue \in Seq(States) /\ 1 \in DOMAIN mind.queue
    BY FrontHeld DEF Sane, Whole, Minds, Front
<1>2. s \in States /\ s.kind = Front.kind
    BY <1>1 DEF States
<1>3. n = [Unswitched EXCEPT !.queue = [mind.queue EXCEPT ![1] = s]]
    BY UnswitchedKeeps DEF InitDone, Front
<1> HIDE DEF s
<1>4. [mind.queue EXCEPT ![1] = s] \in Seq(States)
    BY <1>1, <1>2, ExceptSeq, 1 \in DOMAIN mind.queue
<1>5. Unswitched \in Minds /\ Unswitched.bin = mind.bin
    BY UnswitchedKeeps DEF Sane, Whole, Unswitched, Minds
<1>6. n \in Minds /\ n.queue = [mind.queue EXCEPT ![1] = s] /\ n.bin = mind.bin
    BY <1>3, <1>4, <1>5 DEF Minds
<1> HIDE DEF n
<1>7. Sane(n) /\ Len(n.queue) = Len(mind.queue) /\ \A k : Holds(n.queue, k) <=> Holds(mind.queue, k)
    BY <1>2, <1>6, MarkedKeeps DEF Front
<1> QED BY <1>7 DEF Same, n

LEMMA EndgameSame ==
    ASSUME Sane(mind)
    PROVE  Same(mind, [Fought EXCEPT !.queue[1] = [Front EXCEPT !.keeps = "endgame"]])
<1> DEFINE s == [Front EXCEPT !.keeps = "endgame"]
           n == [Fought EXCEPT !.queue[1] = [Front EXCEPT !.keeps = "endgame"]]
<1>0. Fought \in Minds /\ Fought.queue = mind.queue /\ Fought.bin = mind.bin
    <2>1. mind \in Minds
        BY DEF Sane, Whole
    <2> QED BY <2>1 DEF Fought, Minds
<1>1. mind.queue[1] = Front /\ mind.queue[1] \in States /\ mind.queue \in Seq(States) /\ mind \in Minds
      /\ 1 \in DOMAIN mind.queue
    BY FrontHeld DEF Sane, Whole, Minds, Front
<1>2. s \in States /\ s.kind = Front.kind
    BY <1>1 DEF States
<1>3. n = [Fought EXCEPT !.queue = [mind.queue EXCEPT ![1] = s]]
    BY <1>0
<1> HIDE DEF s
<1>4. [mind.queue EXCEPT ![1] = s] \in Seq(States)
    BY <1>1, <1>2, ExceptSeq, 1 \in DOMAIN mind.queue
<1>6. n \in Minds /\ n.queue = [mind.queue EXCEPT ![1] = s] /\ n.bin = mind.bin
    BY <1>0, <1>3, <1>4 DEF Minds
<1> HIDE DEF n
<1>7. Sane(n) /\ Len(n.queue) = Len(mind.queue) /\ \A k : Holds(n.queue, k) <=> Holds(mind.queue, k)
    BY <1>2, <1>6, MarkedKeeps DEF Front
<1> QED BY <1>7 DEF Same, n

Checkable(m, kind, index) ==
    /\ Sane(m) /\ m.queue = mind.queue
    /\ kind \in Ladder /\ Front.kind = kind /\ index \in 0 .. 5

\* CheckAlertLevel climbs and descends the ladder by one rung.
LEMMA CheckedKeeps ==
    ASSUME BodyOK, NEW m, NEW kind, NEW index, Checkable(m, kind, index)
    PROVE  LET c == CheckAlertLevel(m, kind, index) IN
           /\ c.alert \in 0 .. 5 /\ c.posture \in {"stand", "sit", "getUp"}
           /\ c.fits \in BOOLEAN /\ Keeps(mind, c.mind)
<1> DEFINE c == CheckAlertLevel(m, kind, index)
<1>1. /\ c.alert \in 0 .. 5 /\ c.posture \in {"stand", "sit", "getUp"}
      /\ c.fits \in BOOLEAN
    BY DEF BodyOK, Checkable, CheckAlertLevel
<1> DEFINE calm == IF kind = "agitated" THEN [m EXCEPT !.combatState = FALSE] ELSE m
<1>2. \/ c.mind = m
      \/ c.mind = Ended(m)
      \/ c.alert > Level[kind] /\ c.mind = Pushed(calm, Backbone[Level[kind] + 1])
    BY DEF CheckAlertLevel
<1>6. Sane(calm) /\ calm.queue = mind.queue
    <2>1. m \in Minds
        BY DEF Checkable, Sane, Whole
    <2>2. calm \in Minds /\ calm.queue = m.queue /\ calm.bin = m.bin
        BY <2>1 DEF Minds
    <2> QED BY <2>2 DEF Checkable, Sane, Whole
<1> HIDE DEF calm
<1> HIDE DEF c
<1>3. ASSUME c.mind = m PROVE Keeps(mind, c.mind)
    BY <1>3 DEF Checkable, Keeps
<1>4. ASSUME c.mind = Ended(m) PROVE Keeps(mind, c.mind)
    <2>1. Head(m.queue).kind # "flee"
        BY DEF Checkable, Front, Ladder, Idles, Searches
    <2> QED BY <1>4, <2>1, EndedKeeps DEF Checkable, Keeps
<1>5. ASSUME c.alert > Level[kind], c.mind = Pushed(calm, Backbone[Level[kind] + 1])
      PROVE  Keeps(mind, c.mind)
    <2> DEFINE next == Backbone[Level[kind] + 1]
    <2>1. kind \in Ladder /\ Level[kind] \in 0 .. 5 /\ Level[kind] + 1 \in 1 .. 5
        BY <1>1, <1>5, Levels DEF Checkable
    <2>2. next \in Ladder /\ Level[next] = Level[kind] + 1
        BY <2>1, Levels
    <2> HIDE DEF next
    <2>3. Level[next] > 1 => Head(calm.queue).kind = Backbone[Level[next] - 1]
        <3>1. Level[next] - 1 = Level[kind]
            BY <2>1, <2>2
        <3> QED BY <1>6, <2>1, <2>2, <3>1, Levels DEF Checkable, Front
    <2>4. next \in Kinds /\ next # "dead"
        BY <2>2 DEF Kinds, Ladder, Idles, Searches
    <2>5. Sane(calm) /\ Whole(calm) /\ calm.queue # <<>>
        BY <1>6 DEF Sane
    <2>6. /\ Sane(Pushed(calm, next))
          /\ \A k : Holds(Pushed(calm, next).queue, k) <=> k = next \/ Holds(calm.queue, k)
        BY <2>3, <2>4, <2>5, PushedKeeps
    <2> QED BY <1>5, <1>6, <2>4, <2>6 DEF Checkable, Keeps, next
<1> QED BY <1>1, <1>2, <1>3, <1>4, <1>5 DEF c

-----------------------------------------------------------------------------
(* The steps.                                                              *)

LEMMA AlertType ==
    ASSUME NEW index \in 0 .. 5, NEW foe \in BOOLEAN
    PROVE  AlertFor(index, foe) \in 0 .. 5
BY DEF AlertFor

LEMMA CallsType ==
    ASSUME BodyOK
    PROVE  /\ MovementCleared => fleeTask' = "none" /\ fleeing' \in BOOLEAN /\ (fleeing' => fleeing)
           /\ \A choices \in SUBSET BOOLEAN : MovementMayClear(choices) =>
                 fleeTask' \in {"none", "queued", "running"} /\ fleeing' \in BOOLEAN /\ (fleeing' => fleeing)
           /\ \A m : AfterInit(m) => phase' \in {"idle", "think"} /\ mind' = m
           /\ \A m : AfterThink(m) => phase' = "idle" /\ mind' = m
           /\ \A states : CleanedUp(states) \in BOOLEAN
           /\ Decayed \subseteq 0 .. 5
<1>1. MovementCleared => fleeTask' = "none" /\ fleeing' \in BOOLEAN /\ (fleeing' => fleeing)
    BY Zenon DEF BodyOK, MovementCleared
<1>5. \A choices \in SUBSET BOOLEAN : MovementMayClear(choices) =>
          fleeTask' \in {"none", "queued", "running"} /\ fleeing' \in BOOLEAN /\ (fleeing' => fleeing)
    <2> SUFFICES ASSUME NEW choices \in SUBSET BOOLEAN, MovementMayClear(choices)
                 PROVE  fleeTask' \in {"none", "queued", "running"}
                        /\ fleeing' \in BOOLEAN /\ (fleeing' => fleeing)
        OBVIOUS
    <2>1. MovementCleared \/ UNCHANGED flight
        BY Zenon DEF MovementMayClear
    <2>2. CASE MovementCleared
        BY <1>1, <2>2
    <2>3. CASE UNCHANGED flight
        <3>1. fleeTask' = fleeTask /\ fleeing' = fleeing
            BY <2>3 DEF flight
        <3> QED BY <3>1, Zenon DEF BodyOK
    <2> QED BY <2>1, <2>2, <2>3
<1>2. \A m : (AfterInit(m) => phase' \in {"idle", "think"} /\ mind' = m)
              /\ (AfterThink(m) => phase' = "idle" /\ mind' = m)
    BY DEF AfterInit, AfterThink
<1>3. \A states : CleanedUp(states) \in BOOLEAN
    BY Zenon DEF CleanedUp
<1>4. Decayed \subseteq 0 .. 5
    BY DEF BodyOK, Decayed
<1> QED BY <1>1, <1>2, <1>3, <1>4, <1>5

\* Nothing happens to the states of the mind.
LEMMA QuietStep ==
    ASSUME MindInv,
           BeginThink \/ Load \/ FleeTaskStarts \/ FleeTaskEnds \/ StandUp \/ Alert \/ LoseEnemy
    PROVE  MindInv'
<1>1. BodyOK /\ Sane(mind) /\ mind \in Minds /\ Len(mind.bin) <= 1 /\ Len(<<>>) = 0 /\ <<>> \in Seq(States)
    BY DEF MindInv, Sane, Whole
<1>2. BodyOK' /\ (fleeing' => fleeing)
    <2>1. CASE BeginThink
        BY <1>1, <2>1, CallsType DEF BeginThink, BodyOK, body, flight, spent
    <2>2. CASE Load
        BY <1>1, <2>2 DEF Load, BodyOK, body, flight, talk
    <2>5. CASE FleeTaskStarts \/ FleeTaskEnds
        <3>1. fleeing' \in BOOLEAN /\ (fleeing' => fleeing)
            <4>1. fleeing' = FALSE \/ fleeing' = fleeing
                BY <2>5 DEF FleeTaskStarts, FleeTaskEnds
            <4>2. fleeing \in BOOLEAN
                BY <1>1 DEF BodyOK
            <4>3. CASE fleeing' = fleeing
                BY <4>2, <4>3
            <4>4. CASE fleeing' = FALSE
                BY <4>4
            <4> QED BY <4>1, <4>3, <4>4
        <3> QED BY <1>1, <2>5, <3>1 DEF FleeTaskStarts, FleeTaskEnds, BodyOK, body, talk, spent
    <2>6. CASE StandUp
        BY <1>1, <2>6 DEF StandUp, BodyOK, flight, talk, spent
    <2>3. CASE Alert
        <3>1. PICK index \in alertIndex + 1 .. 5, foe \in {enemy, TRUE} :
                  enemy' = foe /\ alertIndex' = AlertFor(index, foe)
            BY <2>3 DEF Alert
        <3>2. index \in 0 .. 5
            BY <1>1 DEF BodyOK
        <3>4. foe \in BOOLEAN
            BY <1>1, Zenon DEF BodyOK
        <3>3. enemy' \in BOOLEAN /\ alertIndex' \in 0 .. 5
            BY <3>1, <3>2, <3>4, AlertType
        <3> QED BY <1>1, <2>3, <3>3 DEF Alert, Disturb, BodyOK, flight
    <2>4. CASE LoseEnemy
        <3>1. enemy' \in BOOLEAN
            BY <2>4, Zenon DEF LoseEnemy
        <3> QED BY <1>1, <2>4, <3>1 DEF LoseEnemy, Disturb, BodyOK, flight
    <2> QED BY <2>1, <2>2, <2>3, <2>4, <2>5, <2>6
<1>3. mind'.queue = mind.queue /\ mind' \in Minds /\ Len(mind'.bin) <= 1
    <2>0. PICK none \in Seq(States) : none = <<>> /\ Len(none) = 0
        BY <1>1, Zenon
    <2>1. \A bin \in Seq(States) :
              LET n == [mind EXCEPT !.bin = bin] IN n.queue = mind.queue /\ n \in Minds /\ n.bin = bin
        BY <1>1 DEF Minds
    <2>2. CASE BeginThink
        <3>1. mind' = [mind EXCEPT !.bin = none]
            BY <2>0, <2>2 DEF BeginThink
        <3>2. Len(none) <= 1
            BY <2>0
        <3> QED BY <2>0, <2>1, <3>1, <3>2, Zenon
    <2>3. CASE Load
        <3>1. \A bin \in Seq(States), switch \in BOOLEAN :
                  LET n == [mind EXCEPT !.switchState = switch, !.bin = bin]
                  IN  n.queue = mind.queue /\ n \in Minds /\ n.bin = bin
            BY <1>1 DEF Minds
        <3>2. mind' = [mind EXCEPT !.switchState = FALSE, !.bin = none]
            BY <2>0, <2>3 DEF Load
        <3>3. Len(none) <= 1 /\ FALSE \in BOOLEAN
            BY <2>0
        <3> QED BY <2>0, <3>1, <3>2, <3>3, Zenon
    <2>4. CASE mind' = mind
        BY <1>1, <2>4
    <2> QED BY <2>2, <2>3, <2>4 DEF FleeTaskStarts, FleeTaskEnds, StandUp, Alert, LoseEnemy
<1> QED BY <1>2, <1>3, SameSame, Preserved

\* The front state has its Init.
LEMMA InitStep ==
    ASSUME MindInv, InitState
    PROVE  MindInv'
<1>1. BodyOK /\ Sane(mind) /\ Sane(Unswitched) /\ Unswitched.queue = mind.queue /\ Holds(mind.queue, Front.kind)
    BY UnswitchedKeeps, FrontHeld DEF MindInv
<1>2. Front.kind # "dead" => ~Holds(mind.queue, "dead")
    BY FrontAlive
<1>3. \A keeps \in {"nothing", "enemy", "endgame", "sight", "dark"} : Same(mind, InitDone(keeps))
    BY <1>1, InitDoneSame
<1>4. Front.kind # "flee" => Keeps(mind, Ended(Unswitched))
    BY <1>1, EndedKeeps DEF Keeps, Front
<1> USE DEF flight, body, talk, spent
<1>5. ASSUME NEW kind \in Ladder, InitLadder(kind) PROVE MindInv'
    <2> DEFINE c == CheckAlertLevel(Unswitched, kind, alertIndex)
    <2>1. Checkable(Unswitched, kind, alertIndex)
        BY <1>1, <1>5 DEF InitLadder, Initialise, Checkable, BodyOK
    <2>2. c.alert \in 0 .. 5 /\ c.posture \in {"stand", "sit", "getUp"} /\ Keeps(mind, c.mind)
        BY <1>1, <2>1, CheckedKeeps
    <2>3. /\ AfterInit(IF c.fits THEN InitDone("nothing") ELSE c.mind)
          /\ alertIndex' = c.alert /\ posture' = c.posture
          /\ MovementMayClear(IF c.fits THEN Stops(kind) ELSE {FALSE})
          /\ UNCHANGED <<canSearch, enemy, evidence, sight, hurt, talk, spent>>
        BY <1>5 DEF InitLadder
    <2> HIDE DEF c
    <2>7. fleeTask' \in {"none", "queued", "running"} /\ fleeing' \in BOOLEAN /\ (fleeing' => fleeing)
        <3>1. Stops(kind) \in SUBSET BOOLEAN /\ {FALSE} \in SUBSET BOOLEAN
            BY DEF Stops
        <3>2. (IF c.fits THEN Stops(kind) ELSE {FALSE}) \in SUBSET BOOLEAN
            BY <3>1
        <3> QED BY <1>1, <2>3, <3>2, CallsType
    <2>4. BodyOK' /\ (fleeing' => fleeing)
        BY <1>1, <2>2, <2>3, <2>7, CallsType DEF BodyOK
    <2>5. mind' = InitDone("nothing") \/ mind' = c.mind
        BY <2>3 DEF AfterInit
    <2>6. Front.kind # "dead"
        BY <2>1 DEF Checkable, Ladder, Idles, Searches
    <2> QED BY <1>2, <1>3, <2>2, <2>4, <2>5, <2>6, Preserved
<1>6. CASE IdleToAlertIdle
    <2>1. Front.kind = "idle" /\ mind' = Switched(Unswitched, "alertIdle")
        BY <1>6 DEF IdleToAlertIdle, Initialise, AfterInit
    <2>2. "alertIdle" \in Kinds \ {"dead"} /\ Level["alertIdle"] <= 1
        BY DEF Kinds, Ladder, Idles, Level
    <2>3. Keeps(mind, mind')
        BY <1>1, <2>1, <2>2, SwitchedKeeps DEF Keeps, Front
    <2>4. BodyOK' /\ fleeing' = fleeing
        BY <1>1, <1>6, CallsType DEF IdleToAlertIdle, BodyOK
    <2> QED BY <1>2, <2>1, <2>3, <2>4, Preserved
<1>7. CASE InitCombat
    <2> DEFINE c == CheckAlertLevel(Unswitched, "combat", alertIndex)
    <2>1. Checkable(Unswitched, "combat", alertIndex) /\ Front.kind = "combat"
        BY <1>1, <1>7 DEF InitCombat, Initialise, Checkable, BodyOK, Ladder
    <2>2. c.alert \in 0 .. 5 /\ Keeps(mind, c.mind)
        BY <1>1, <2>1, CheckedKeeps
    <2>3. /\ alertIndex' = c.alert
          /\ \/ AfterInit(c.mind) /\ UNCHANGED <<enemy, evidence>>
             \/ \E found \in {enemy, TRUE}, stored \in {"enemy", "nothing"} :
                   /\ enemy' = found /\ evidence' = (evidence \/ found)
                   /\ AfterInit(InitDone(stored))
          /\ UNCHANGED <<canSearch, posture, sight, hurt, flight, talk, spent>>
        <3>1. \A found : (IF found /\ ~mind.combatState THEN {"enemy"} ELSE Stored) \subseteq {"enemy", "nothing"}
            BY DEF Stored
        <3> QED BY <1>7, <3>1 DEF InitCombat
    <2> HIDE DEF c
    <2> DEFINE Outcome ==
            /\ enemy' \in BOOLEAN /\ evidence' \in BOOLEAN /\ phase' \in {"idle", "think"}
            /\ mind' = c.mind \/ \E keeps \in {"enemy", "nothing"} : mind' = InitDone(keeps)
    <2>4. Outcome
        <3>1. CASE AfterInit(c.mind) /\ UNCHANGED <<enemy, evidence>>
            BY <1>1, <3>1, CallsType DEF BodyOK
        <3>2. ASSUME NEW found \in {enemy, TRUE}, NEW stored \in {"enemy", "nothing"},
                     enemy' = found, evidence' = (evidence \/ found), AfterInit(InitDone(stored))
              PROVE  Outcome
            <4>1. found \in BOOLEAN /\ evidence' \in BOOLEAN
                BY <1>1, <3>2, Zenon DEF BodyOK
            <4> QED BY <1>1, <3>2, <4>1, CallsType
        <3> QED BY <2>3, <3>1, <3>2
    <2>5. BodyOK' /\ fleeing' = fleeing
        BY <1>1, <2>2, <2>3, <2>4 DEF BodyOK
    <2> QED BY <1>2, <1>3, <2>1, <2>2, <2>4, <2>5, Preserved
<1>8. CASE InitPain
    <2>1. BodyOK' /\ fleeing' = fleeing /\ Front.kind = "pain"
        BY <1>1, <1>8, CallsType DEF InitPain, Initialise, BodyOK
    <2>2. mind' = InitDone("nothing") \/ mind' = Ended(Unswitched)
        BY <1>8 DEF InitPain, AfterInit
    <2> QED BY <1>2, <1>3, <1>4, <2>1, <2>2, Preserved
<1>9. CASE InitBlinded
    <2>1. BodyOK' /\ fleeing' = fleeing
        BY <1>1, <1>9, CallsType DEF InitBlinded, BodyOK
    <2>2. mind' = InitDone("sight") \/ mind' = InitDone("dark")
        BY <1>9 DEF InitBlinded, AfterInit
    <2> QED BY <1>3, <2>1, <2>2, Preserved
<1>10. CASE InitLost
    <2>1. AlertFor(4, enemy) \in 0 .. 5
        BY <1>1, AlertType DEF BodyOK
    <2>2. BodyOK' /\ (fleeing' => fleeing) /\ Front.kind = "lost"
        BY <1>1, <1>10, <2>1, CallsType DEF InitLost, Initialise, BodyOK
    <2>3. mind' = Ended(Unswitched)
        BY <1>10 DEF InitLost, AfterInit
    <2> QED BY <1>2, <1>4, <2>2, <2>3, Preserved
<1>11. CASE InitFlee
    <2>1. BodyOK'
        BY <1>1, <1>11, CallsType DEF InitFlee, BodyOK
    <2>2. Front.kind = "flee" /\ mind' = InitDone("nothing")
        BY <1>11 DEF InitFlee, Initialise, AfterInit
    <2>3. Same(mind, mind') /\ Holds(mind'.queue, "flee")
        BY <1>1, <1>3, <2>2 DEF Same
    <2> QED BY <2>1, <2>3, Preserved
<1>12. CASE InitFleeDone \/ InitConversation \/ InitDead
    <2>1. BodyOK' /\ (fleeing' => fleeing)
        BY <1>1, <1>12, CallsType DEF InitFleeDone, InitConversation, InitDead, BodyOK
    <2>2. mind' = InitDone("nothing")
        BY <1>12 DEF InitFleeDone, InitConversation, InitDead, AfterInit
    <2> QED BY <1>3, <2>1, <2>2, Preserved
<1> QED BY <1>5, <1>6, <1>7, <1>8, <1>9, <1>10, <1>11, <1>12 DEF InitState

\* What the steps of the front state and of the others have to do with mind.
LEMMA AnyOps ==
    ASSUME MindInv, NEW o, Sane(o), o.queue = mind.queue
    PROVE  /\ Same(mind, o)
           /\ Front.kind \notin {"flee", "dead"} =>
                  /\ ~Holds(mind.queue, "dead")
                  /\ Keeps(mind, Ended(o)) /\ Keeps(mind, Switched(o, "flee"))
                  /\ Keeps(mind, Switched(o, "lost")) /\ Keeps(mind, Switched(o, "observant"))
           /\ Front.kind = "combat" => Keeps(mind, Ended(Ended(o)))
<1>1. Sane(o) /\ Same(mind, o) /\ o.queue \in Seq(States) /\ o.queue # <<>>
    BY DEF MindInv, Same, Sane, Whole, Minds
<1>2. ASSUME Front.kind \notin {"flee", "dead"}
      PROVE  /\ ~Holds(mind.queue, "dead") /\ Keeps(mind, Ended(o))
             /\ Keeps(mind, Switched(o, "flee"))
             /\ Keeps(mind, Switched(o, "lost")) /\ Keeps(mind, Switched(o, "observant"))
    <2>1. \A kind \in {"flee", "lost", "observant"} :
             kind \in Kinds \ {"dead"} /\ (kind \in Ladder => Level[kind] <= 1)
        BY DEF Kinds, Ladder, Idles, Searches, Level
    <2>2. \A kind \in {"flee", "lost", "observant"} : Keeps(mind, Switched(o, kind))
        BY <1>1, <1>2, <2>1, SwitchedKeeps DEF Keeps, Front
    <2> QED BY <1>1, <1>2, <2>2, FrontAlive, EndedKeeps DEF Keeps, Front
<1>3. ASSUME Front.kind = "combat" PROVE Keeps(mind, Ended(Ended(o)))
    <2> DEFINE m == Ended(o)
               q == o.queue
    <2>1. q[1].kind = "combat" /\ 1 \in DOMAIN q /\ Len(q) \in Nat
        BY <1>1, <1>3 DEF Front
    <2>2. "combat" \in Ladder /\ Level["combat"] = 5 /\ Backbone[4] = "agitated"
        BY DEF Ladder, Level, Idles, Searches, Backbone
    <2>3. Len(q) > 1 /\ q[2].kind = "agitated"
        BY <1>1, <2>1, <2>2 DEF Sane, Whole, Stacked
    <2>4. Sane(m) /\ m.queue = Tail(q) /\ Keeps(mind, m)
        BY <1>1, <1>2, <1>3, <2>3, EndedKeeps
    <2>5. Head(m.queue).kind = "agitated"
        BY <1>1, <2>3, <2>4
    <2> HIDE DEF m
    <2>6. Keeps(m, Ended(m))
        BY <2>4, <2>5, EndedKeeps DEF Keeps
    <2> QED BY <2>4, <2>6 DEF Keeps, m
<1> QED BY <1>1, <1>2, <1>3

LEMMA MindOps ==
    ASSUME MindInv
    PROVE  /\ Same(mind, mind)
           /\ Front.kind \notin {"flee", "dead"} =>
                  /\ ~Holds(mind.queue, "dead")
                  /\ Keeps(mind, Ended(mind)) /\ Keeps(mind, Switched(mind, "flee"))
                  /\ Keeps(mind, Switched(mind, "lost")) /\ Keeps(mind, Switched(mind, "observant"))
<1>1. Sane(mind)
    BY DEF MindInv
<1> QED BY <1>1, AnyOps

\* Combat thinks.
LEMMA CombatStep ==
    ASSUME MindInv, ThinkCombat
    PROVE  MindInv'
<1> USE DEF flight, body, talk, spent
<1>1. BodyOK /\ Sane(mind)
    BY DEF MindInv
<1>2. Front.kind = "combat"
    BY DEF ThinkCombat, CombatUnfit, CombatGoesOn, EnemyReplaced, NoEnemy, EnemyNoMore,
           EnemyDies, Victor, EnemyOutOfSight, CombatGivesWay, Fights, CombatFits, Thinks
<1>3. /\ Same(mind, Fought) /\ ~Holds(mind.queue, "dead") /\ Keeps(mind, Ended(Fought))
      /\ Keeps(mind, Switched(Fought, "flee")) /\ Keeps(mind, Switched(Fought, "lost"))
      /\ Keeps(mind, Ended(Ended(Fought)))
    BY <1>1, <1>2, FoughtKeeps, AnyOps
<1>4. CASE CombatUnfit
    <2> DEFINE c == CheckAlertLevel(mind, "combat", alertIndex)
    <2>1. Checkable(mind, "combat", alertIndex)
        BY <1>1, <1>2 DEF Checkable, BodyOK, Ladder
    <2>2. c.alert \in 0 .. 5 /\ Keeps(mind, c.mind)
        BY <1>1, <2>1, CheckedKeeps
    <2>3. /\ AfterThink(c.mind) /\ alertIndex' = c.alert
          /\ UNCHANGED <<body, hurt, flight, talk, spent>>
        BY <1>4 DEF CombatUnfit
    <2> HIDE DEF c
    <2>4. BodyOK' /\ fleeing' = fleeing /\ mind' = c.mind
        BY <1>1, <2>2, <2>3, CallsType DEF BodyOK
    <2> QED BY <1>3, <2>2, <2>4, Preserved
<1>5. CASE CombatGoesOn \/ EnemyReplaced \/ NoEnemy \/ CombatGivesWay
    <2>1. /\ UNCHANGED <<alertIndex, body, hurt, talk, spent>> /\ phase' = "idle"
          /\ mind' \in {Fought, Ended(Fought), Ended(Ended(Fought)), Switched(Fought, "flee"),
                        Switched(Fought, "lost")}
          /\ UNCHANGED flight \/ MovementMayClear(BOOLEAN)
        BY <1>5 DEF CombatGoesOn, EnemyReplaced, NoEnemy, CombatGivesWay, AfterThink
    <2>3. fleeTask' \in {"none", "queued", "running"} /\ fleeing' \in BOOLEAN /\ (fleeing' => fleeing)
        <3>1. CASE UNCHANGED flight
            <4>1. fleeTask' = fleeTask /\ fleeing' = fleeing
                BY <3>1
            <4> QED BY <1>1, <4>1, Zenon DEF BodyOK
        <3>2. CASE MovementMayClear(BOOLEAN)
            BY <1>1, <3>2, CallsType
        <3> QED BY <2>1, <3>1, <3>2
    <2>2. BodyOK' /\ (fleeing' => fleeing)
        BY <1>1, <2>1, <2>3 DEF BodyOK
    <2> QED BY <1>3, <2>1, <2>2, Preserved
<1>6. CASE EnemyNoMore
    <2>1. AlertFor(2, enemy) \in 0 .. 5
        BY <1>1, AlertType DEF BodyOK
    <2>2. BodyOK' /\ (fleeing' => fleeing) /\ mind' = Ended(Ended(Fought))
        BY <1>1, <1>6, <2>1, CallsType DEF EnemyNoMore, BodyOK
    <2> QED BY <1>3, <2>2, Preserved
<1>7. CASE EnemyDies
    <2>1. /\ phase' = "idle" /\ enemy' = FALSE
          /\ \/ mind' = [Fought EXCEPT !.queue[1] = [Front EXCEPT !.keeps = "endgame"]]
             \/ mind' = Switched(Fought, "flee")
          /\ UNCHANGED <<alertIndex, canSearch, evidence, posture, sight, hurt, flight, talk, spent>>
        BY <1>7 DEF EnemyDies, AfterThink
    <2>2. BodyOK' /\ fleeing' = fleeing
        BY <1>1, <2>1 DEF BodyOK
    <2>3. Same(mind, mind') \/ Keeps(mind, mind')
        BY <1>1, <1>3, <2>1, EndgameSame
    <2> QED BY <1>3, <2>2, <2>3, Preserved
<1>8. CASE Victor
    <2>1. BodyOK' /\ fleeing' = fleeing /\ mind' = Ended(Fought)
        BY <1>1, <1>8, CallsType DEF Victor, BodyOK
    <2> QED BY <1>3, <2>1, Preserved
<1>9. CASE EnemyOutOfSight
    <2>1. AlertFor(4, FALSE) \in 0 .. 5
        BY DEF AlertFor
    <2>2. BodyOK' /\ fleeing' = fleeing /\ mind' = Ended(Fought)
        BY <1>1, <1>9, <2>1, CallsType DEF EnemyOutOfSight, BodyOK
    <2> QED BY <1>3, <2>2, Preserved
<1> QED BY <1>4, <1>5, <1>6, <1>7, <1>8, <1>9 DEF ThinkCombat

\* The other states think.
LEMMA ThinkStep ==
    ASSUME MindInv, ThinkState, ~ThinkCombat
    PROVE  MindInv'
<1> USE DEF flight, body, talk, spent
<1>1. BodyOK /\ Sane(mind) /\ Same(mind, mind)
    BY MindOps DEF MindInv
<1>2. Front.kind \notin {"flee", "dead"} =>
          /\ ~Holds(mind.queue, "dead")
          /\ Keeps(mind, Ended(mind)) /\ Keeps(mind, Switched(mind, "flee"))
          /\ Keeps(mind, Switched(mind, "observant"))
    BY MindOps
<1>3. ASSUME NEW kind \in Ladder, ThinkLadder(kind) PROVE MindInv'
    <2>1. PICK index \in Decayed :
              LET c == CheckAlertLevel(mind, kind, index) IN
              /\ AfterThink(c.mind) /\ alertIndex' = c.alert /\ posture' = c.posture
              /\ MovementMayClear(IF c.fits /\ kind \in Searches THEN BOOLEAN ELSE {FALSE})
        BY <1>3 DEF ThinkLadder
    <2> DEFINE c == CheckAlertLevel(mind, kind, index)
    <2>2. Checkable(mind, kind, index)
        BY <1>1, <1>3, CallsType DEF ThinkLadder, Thinks, Checkable
    <2>3. c.alert \in 0 .. 5 /\ c.posture \in {"stand", "sit", "getUp"} /\ Keeps(mind, c.mind)
        BY <1>1, <2>2, CheckedKeeps
    <2>4. /\ AfterThink(c.mind) /\ alertIndex' = c.alert /\ posture' = c.posture
          /\ MovementMayClear(IF c.fits /\ kind \in Searches THEN BOOLEAN ELSE {FALSE})
          /\ UNCHANGED <<canSearch, enemy, evidence, sight, hurt, talk, spent>>
        BY <1>3, <2>1 DEF ThinkLadder
    <2> HIDE DEF c
    <2>7. fleeTask' \in {"none", "queued", "running"} /\ fleeing' \in BOOLEAN /\ (fleeing' => fleeing)
        <3>1. (IF c.fits /\ kind \in Searches THEN BOOLEAN ELSE {FALSE}) \in SUBSET BOOLEAN
            OBVIOUS
        <3> QED BY <1>1, <2>4, <3>1, CallsType
    <2>5. BodyOK' /\ (fleeing' => fleeing) /\ mind' = c.mind
        BY <1>1, <2>3, <2>4, <2>7, CallsType DEF BodyOK
    <2>6. Front.kind \notin {"flee", "dead"}
        BY <2>2 DEF Checkable, Ladder, Idles, Searches
    <2> QED BY <1>2, <2>3, <2>5, <2>6, Preserved
<1>4. CASE ThinkPain
    <2>1. /\ UNCHANGED <<alertIndex, body, hurt, flight, talk, spent>> /\ phase' = "idle"
          /\ Front.kind = "pain" /\ mind' \in {mind, Ended(mind), Switched(mind, "flee")}
        BY <1>4 DEF ThinkPain, Thinks, AfterThink
    <2>2. BodyOK' /\ fleeing' = fleeing
        BY <1>1, <2>1 DEF BodyOK
    <2> QED BY <1>1, <1>2, <2>1, <2>2, Preserved
<1>5. CASE BlindedWaits
    <2>1. fleeing' \in BOOLEAN /\ fleeTask' \in {"none", "queued", "running"} /\ (fleeing' => fleeing)
        BY <1>1, <1>5, CallsType DEF BlindedWaits, BodyOK
    <2>2. BodyOK' /\ mind' = mind
        BY <1>1, <1>5, <2>1, CallsType DEF BlindedWaits, BodyOK
    <2> QED BY <1>1, <2>1, <2>2, Preserved
<1>6. CASE BlindedEnds
    <2>1. sight' \in BOOLEAN
        BY <1>6, Zenon DEF BlindedEnds
    <2>2. alertIndex' \in 0 .. 5
        BY <1>1, <1>6, AlertType DEF BlindedEnds, BodyOK
    <2>3. BodyOK' /\ (fleeing' => fleeing) /\ mind' = Ended(mind) /\ Front.kind = "blinded"
        BY <1>1, <1>6, <2>1, <2>2, CallsType DEF BlindedEnds, Thinks, BodyOK
    <2> QED BY <1>2, <2>3, Preserved
<1>7. CASE ThinkFlee
    <2>1. CASE fleeing
        <3>1. BodyOK' /\ mind' = mind
            BY <1>1, <1>7, <2>1, CallsType DEF ThinkFlee, BodyOK
        <3> QED BY <1>1, <2>1, <3>1, Preserved
    <2>2. CASE ~fleeing
        <3>1. BodyOK' /\ ~fleeing' /\ mind' = Switched(mind, "fleeDone") /\ Front.kind = "flee"
            BY <1>1, <1>7, <2>2, CallsType DEF ThinkFlee, Thinks, BodyOK
        <3>2. "fleeDone" \in Kinds \ {"dead"} /\ "fleeDone" \notin Ladder
            BY DEF Kinds, Ladder, Idles, Searches
        <3>3. Sane(mind') /\ ~Holds(mind'.queue, "dead")
            BY <1>1, <3>1, <3>2, SwitchedKeeps, FrontAlive
        <3> QED BY <3>1, <3>3 DEF MindInv, DeadAlone, FlightIsReal
    <2> QED BY <2>1, <2>2
<1>8. CASE ThinkFleeDone \/ ThinkConversation
    <2>1. alertIndex' \in 0 .. 5
        BY <1>1, <1>8, CallsType DEF ThinkFleeDone, ThinkConversation
    <2>2. /\ UNCHANGED <<body, hurt, flight, talk, spent>> /\ phase' = "idle"
          /\ Front.kind \in {"fleeDone", "conversation"}
          /\ mind' \in {mind, Ended(mind), Switched(mind, "observant")}
        BY <1>8 DEF ThinkFleeDone, ThinkConversation, Thinks, AfterThink
    <2>3. BodyOK' /\ fleeing' = fleeing
        BY <1>1, <2>1, <2>2 DEF BodyOK
    <2> QED BY <1>1, <1>2, <2>2, <2>3, Preserved
<1>9. CASE ThinkNothing
    <2>1. BodyOK' /\ fleeing' = fleeing /\ mind' = mind
        BY <1>1, <1>9, CallsType DEF ThinkNothing, BodyOK
    <2> QED BY <1>1, <2>1, Preserved
<1> QED BY <1>3, <1>4, <1>5, <1>6, <1>7, <1>8, <1>9 DEF ThinkState

\* ClearStates, and the DeadState pushed on what is left.
LEMMA OneDead ==
    ASSUME Sane(mind)
    PROVE  LET m == Pushed([mind EXCEPT !.queue = <<>>], "dead") IN
           Sane(m) /\ Holds(m.queue, "dead") /\ Len(m.queue) = 1
<1> DEFINE m == [mind EXCEPT !.queue = <<>>]
<1>1. mind \in Minds /\ <<>> \in Seq(States) /\ Len(mind.bin) <= 1
    BY DEF Sane, Whole
<1>2. \A q \in Seq(States) : LET n == [mind EXCEPT !.queue = q] IN
          n \in Minds /\ n.queue = q /\ n.bin = mind.bin
    BY <1>1 DEF Minds
<1>3. m \in Minds /\ m.queue = <<>> /\ m.bin = mind.bin
    BY <1>1, <1>2, Zenon
<1> HIDE DEF m
<1>4. Whole(m) /\ Len(m.queue) = 0
    BY <1>1, <1>3 DEF Whole, Stacked
<1>5. "dead" \in Kinds /\ "dead" \notin Ladder
    BY DEF Kinds, Ladder, Idles, Searches
<1>6. /\ Sane(Pushed(m, "dead")) /\ Len(Pushed(m, "dead").queue) = Len(m.queue) + 1
      /\ Holds(Pushed(m, "dead").queue, "dead")
    BY <1>4, <1>5, PushedKeeps
<1>7. Len(Pushed(m, "dead").queue) = 1
    BY <1>4, <1>6
<1> QED BY <1>6, <1>7 DEF m

LEMMA PushedQuietly ==
    ASSUME NEW m, Sane(m), NEW kind \in {"pain", "lost", "blinded", "conversation"}
    PROVE  Keeps(m, Pushed(m, kind))
<1>1. kind \in Kinds /\ kind \notin Ladder /\ kind # "dead"
    BY DEF Kinds, Ladder, Idles, Searches
<1> QED BY <1>1, PushedKeeps DEF Keeps, Sane

\* What others do between two Thinks.
LEMMA OutsideStep ==
    ASSUME MindInv,
           Hurt \/ Flash \/ TakeFlight \/ Die \/ StartConversation \/ EndConversation
    PROVE  MindInv'
<1> USE DEF flight, body, talk, spent
<1>1. BodyOK /\ Sane(mind) /\ Same(mind, mind) /\ Front.kind \in Kinds
    BY MindOps, FrontHeld DEF MindInv, States
<1>2. Alive => ~Holds(mind.queue, "dead")
    BY DEF Alive, Holds
<1>3. Disturb => /\ Alive /\ disturbances' \in Nat
                 /\ UNCHANGED <<phase, canSearch, conversing, talks, loads>>
    BY <1>1 DEF Disturb, BodyOK
<1>4. CASE Hurt
    <2>1. Keeps(mind, Pushed(mind, "pain"))
        BY <1>1, PushedQuietly
    <2>2. enemy' \in BOOLEAN /\ hurt' \in BOOLEAN
        <3>1. enemy' \in {enemy, TRUE} /\ hurt' \in {hurt, TRUE}
            BY <1>4 DEF Hurt
        <3>2. enemy \in BOOLEAN /\ hurt \in BOOLEAN
            BY <1>1 DEF BodyOK
        <3> QED BY <3>1, <3>2, Zenon
    <2>3. alertIndex' \in 0 .. 5
        <3>1. AlertFor(4, enemy') \in 0 .. 5
            BY <2>2, AlertType
        <3> QED BY <1>1, <1>4, <3>1 DEF Hurt, BodyOK
    <2>4. mind' = mind \/ mind' = Pushed(mind, "pain")
        BY <1>4 DEF Hurt
    <2>5. BodyOK' /\ fleeing' = fleeing
        BY <1>1, <1>3, <1>4, <2>2, <2>3 DEF Hurt, BodyOK
    <2> QED BY <1>1, <1>2, <1>3, <1>4, <2>1, <2>4, <2>5, Preserved DEF Hurt
<1>5. CASE Flash
    <2> DEFINE left == IF Front.kind = "combat" THEN Ended(mind) ELSE mind
               lost == IF enemy THEN Pushed(left, "lost") ELSE left
    <2>1. Sane(left) /\ Keeps(mind, left)
        <3>1. Front.kind = "combat" => Keeps(mind, Ended(mind))
            BY MindOps
        <3> QED BY <1>1, <3>1 DEF Keeps, Same
    <2>2. mind' = Pushed(lost, "blinded") /\ Disturb /\ enemy' = (enemy /\ Front.kind # "combat")
          /\ UNCHANGED <<alertIndex, evidence, posture, sight, hurt, flight, inConversation>>
        BY <1>5 DEF Flash
    <2> HIDE DEF left
    <2>3. Keeps(left, lost)
        BY <2>1, PushedQuietly DEF Keeps
    <2> HIDE DEF lost
    <2>4. Keeps(lost, Pushed(lost, "blinded"))
        BY <2>3, PushedQuietly DEF Keeps
    <2>5. Keeps(mind, mind')
        BY <2>1, <2>2, <2>3, <2>4 DEF Keeps
    <2>6. enemy' \in BOOLEAN
        BY <2>2, Zenon
    <2>7. BodyOK' /\ fleeing' = fleeing
        BY <1>1, <1>3, <2>2, <2>6 DEF BodyOK
    <2> QED BY <1>2, <1>3, <2>2, <2>5, <2>7, Preserved
<1>6. CASE TakeFlight
    <2>1. BodyOK' /\ fleeing' = fleeing /\ mind' = Switched(mind, "flee") /\ Alive /\ ~fleeing
        BY <1>1, <1>3, <1>6 DEF TakeFlight, BodyOK
    <2>2. "flee" \in Kinds \ {"dead"} /\ "flee" \notin Ladder
        BY DEF Kinds, Ladder, Idles, Searches
    <2>3. Sane(mind') /\ ~Holds(mind'.queue, "dead")
        BY <1>1, <1>2, <2>1, <2>2, SwitchedKeeps
    <2> QED BY <2>1, <2>3 DEF MindInv, DeadAlone, FlightIsReal
<1>7. CASE Die
    <2>1. BodyOK' /\ mind' = Pushed([mind EXCEPT !.queue = <<>>], "dead")
        BY <1>1, <1>3, <1>7, CallsType DEF Die, BodyOK
    <2>2. Sane(mind') /\ Holds(mind'.queue, "dead") /\ Len(mind'.queue) = 1
        BY <1>1, <2>1, OneDead
    <2>3. ~Alive'
        BY <2>2 DEF Alive, Holds
    <2> QED BY <2>1, <2>2, <2>3 DEF MindInv, DeadAlone, FlightIsReal
<1>8. CASE StartConversation
    <2>1. Keeps(mind, Pushed(mind, "conversation"))
        BY <1>1, PushedQuietly
    <2>2. BodyOK' /\ fleeing' = fleeing /\ mind' = Pushed(mind, "conversation") /\ Alive
        BY <1>1, <1>8 DEF StartConversation, BodyOK
    <2> QED BY <1>2, <2>1, <2>2, Preserved
<1>9. CASE EndConversation
    <2>1. conversing' \in Nat
        BY <1>1, <1>9 DEF EndConversation, BodyOK
    <2>2. BodyOK' /\ fleeing' = fleeing
        BY <1>1, <1>9, <2>1 DEF EndConversation, BodyOK
    <2>3. (Front.kind = "conversation" /\ mind' = Ended(mind)) \/ mind' = mind
        BY <1>9 DEF EndConversation
    <2>4. Front.kind = "conversation" => Keeps(mind, Ended(mind)) /\ ~Holds(mind.queue, "dead")
        BY MindOps
    <2> QED BY <1>1, <2>2, <2>3, <2>4, Preserved
<1> QED BY <1>4, <1>5, <1>6, <1>7, <1>8, <1>9

LEMMA InitMindInv == MindInit => MindInv
<1> SUFFICES ASSUME MindInit PROVE MindInv
    OBVIOUS
<1> DEFINE s == Fresh("idle")
<1>1. s \in States /\ s.kind = "idle" /\ Level["idle"] = 0
    BY FreshState DEF Kinds, Ladder, Idles, Level
<1>2. mind = [queue |-> <<s>>, switchState |-> TRUE, bin |-> <<>>, combatState |-> FALSE]
    BY DEF MindInit
<1> HIDE DEF s
<1>3. <<s>> \in Seq(States) /\ Len(<<s>>) = 1 /\ <<s>>[1] = s /\ <<>> \in Seq(States) /\ Len(<<>>) = 0
    BY <1>1
<1>4. mind \in Minds /\ mind.queue = <<s>> /\ mind.bin = <<>>
    BY <1>2, <1>3 DEF Minds
<1>5. DOMAIN <<s>> = 1 .. 1
    OBVIOUS
<1>6. Sane(mind)
    BY <1>1, <1>3, <1>4, <1>5 DEF Sane, Whole, Stacked
<1>7. DeadAlone
    BY <1>3, <1>4 DEF DeadAlone
<1>8. BodyOK
    <2>1. canSearch \in BOOLEAN /\ enemy \in BOOLEAN /\ evidence \in BOOLEAN /\ sight \in BOOLEAN
          /\ hurt \in BOOLEAN /\ fleeing \in BOOLEAN /\ inConversation \in BOOLEAN
        BY Zenon DEF MindInit
    <2> QED BY <2>1 DEF MindInit, BodyOK
<1>9. FlightIsReal
    BY DEF MindInit, FlightIsReal
<1> QED BY <1>6, <1>7, <1>8, <1>9 DEF MindInv

LEMMA StepMindInv == MindInv /\ [MindNext]_mindVars => MindInv'
<1> SUFFICES ASSUME MindInv, [MindNext]_mindVars PROVE MindInv'
    OBVIOUS
<1>1. CASE UNCHANGED mindVars
    <2>1. BodyOK' /\ fleeing' = fleeing /\ mind' = mind
        BY <1>1 DEF MindInv, BodyOK, mindVars, body, flight, talk, spent
    <2> QED BY <2>1, MindOps, Preserved
<1> QED BY <1>1, QuietStep, InitStep, CombatStep, ThinkStep, OutsideStep DEF MindNext

\* Whatever pushes, ends and replaces states (PushState, EndState, SwitchState), below
\* a state of some alert level lies the state of the level below it.
THEOREM LadderWhole == MindSpec => []LadderStacked
<1>1. MindInv => LadderStacked
    BY DEF MindInv, Sane, Whole, Stacked, LadderStacked
<1> QED BY <1>1, InitMindInv, StepMindInv, PTL DEF MindSpec

\* An AI whose memory.fleeing is set has a FleeState, which clears it in the end.
THEOREM FlightsReal == MindSpec => []FlightIsReal
<1>1. MindInv => FlightIsReal
    BY DEF MindInv
<1> QED BY <1>1, InitMindInv, StepMindInv, PTL DEF MindSpec

\* Every variable of the mind keeps its type; the queue is never empty, the recycle
\* bin never holds two states.
THEOREM MindTypeCorrect == MindSpec => []MindTypeOK
<1>1. MindInv => MindTypeOK
    BY DEF MindInv, Sane, Whole, BodyOK, Minds, MindTypeOK
<1> QED BY <1>1, InitMindInv, StepMindInv, PTL DEF MindSpec
=============================================================================
