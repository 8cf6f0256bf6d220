------------------------------- MODULE FrobDoor -------------------------------
(***************************************************************************)
(* The leaves of one doorway: a door, or a double door (game/FrobDoor.cpp on *)
(* top of game/BinaryFrobMover.cpp).  A leaf is moved by the player, by AI,  *)
(* by its peers, by its handle and by events posted earlier: a lock request  *)
(* 250 ms after a leaf told to lock has closed, the opening after the sound  *)
(* of unlocking, the unlocking after the last pin was picked.  The leaves    *)
(* share a visportal, which may be shut only while both are.                 *)
(*                                                                         *)
(* Leaves rotate or slide but do not do both, can be interrupted and do not  *)
(* open by themselves (auto_open_time is not set).                           *)
(* Controllers and the fine control by mouse are left out.                   *)
(***************************************************************************)
EXTENDS Naturals

CONSTANTS
    Leaves,             \* the doors of the doorway
    OpenPeers,          \* m_OpenPeers of each
    LockPeers,          \* m_LockPeers of each
    DoubleDoor,         \* m_DoubleDoor of each: one leaf or none
    Transparent,        \* the leaves that do not shut the portal
    Handled,            \* the leaves with a handle
    AutoClose,          \* the leaves with an auto_close_time
    OpenOnUnlock,       \* tdm_door_auto_open_on_unlock and open_on_unlock
    MaxInputs           \* bound: what the player and the AI do

ASSUME FrobDoorAssumption ==
    /\ OpenPeers \in [Leaves -> SUBSET Leaves] /\ \A d \in Leaves : d \notin OpenPeers[d]
    /\ LockPeers \in [Leaves -> SUBSET Leaves] /\ \A d \in Leaves : d \notin LockPeers[d]
    /\ DoubleDoor \in [Leaves -> SUBSET Leaves] /\ Transparent \subseteq Leaves
    /\ Handled \subseteq Leaves /\ AutoClose \subseteq Leaves
    /\ OpenOnUnlock \in BOOLEAN /\ MaxInputs \in Nat

VARIABLES
    way,                \* the leaves, and the visportal: is it open
    inputs,             \* how much the player and the AI have done
    bounces             \* how often a leaf has bounced off an AI

vars == <<way, inputs, bounces>>

\* pos is where the physics has the leaf and goal where it is taking it; moving is
\* m_Rotating or m_Translating; handle is the handle's own movement; the numbers
\* count pending events, locking is HandleLockRequest.
Leaf == [pos : {"closed", "between", "open"}, goal : {"none", "closed", "open"},
         moving : BOOLEAN, stateChange : BOOLEAN, isOpen : BOOLEAN, intentOpen : BOOLEAN,
         interrupted : BOOLEAN, lockOnClose : BOOLEAN, locked : BOOLEAN,
         handle : {"none", "rest", "down", "up"},
         locking : Nat, toggling : Nat, closing : Nat, picked : Nat]

-----------------------------------------------------------------------------
(* What happens to one leaf.                                               *)

\* StartMoving.  A leaf that is at its target is not stopped.
Started(r, target) ==
    IF r.pos = target
    THEN [r EXCEPT !.moving = FALSE, !.stateChange = FALSE, !.interrupted = FALSE]
    ELSE [r EXCEPT !.moving = TRUE, !.stateChange = TRUE, !.interrupted = FALSE,
                   !.goal = target, !.isOpen = TRUE]

\* Mutant of Unrequested: the flag is cleared, the pending request is not cancelled.
KeepsRequest(r) == [r EXCEPT !.lockOnClose = FALSE]

Unrequested(r) == [r EXCEPT !.lockOnClose = FALSE, !.locking = 0]

\* Will OpenDoor get to OnStartOpen?
Opens(r) == ~r.locked /\ r.pos # "open"

\* OpenDoor(false)
Opened(r) ==
    IF r.locked THEN r
    ELSE LET started == Started(r, "open")
         IN  [(IF started.moving THEN Unrequested(started) ELSE started) EXCEPT !.intentOpen = FALSE]

\* Tap: a handle that moves is not interrupted.
Tapped(r) == IF r.handle = "rest" THEN [r EXCEPT !.handle = "down"] ELSE r

ByHandle(r) == r.handle # "none" /\ ~r.interrupted

\* OpenClosePeers of a master
PeerOpened(r) == IF r.pos = "closed" /\ ByHandle(r) THEN Tapped(r) ELSE Opened(r)

\* Close(false)
Closed(r) == [Started(r, "closed") EXCEPT !.intentOpen = TRUE]

\* Will DoneStateChange get to OnClosedPositionReached?
Shuts(r) == r.stateChange /\ r.pos = "closed"

\* DoneStateChange, the movement being over.
Settled(r, autoCloses) ==
    LET still == [r EXCEPT !.goal = "none", !.moving = FALSE, !.stateChange = FALSE] IN
    IF ~r.stateChange THEN still
    ELSE [still EXCEPT
            !.isOpen = (r.pos # "closed"),
            !.locking = IF Shuts(r) /\ r.lockOnClose THEN @ + 1 ELSE @,
            !.lockOnClose = r.lockOnClose /\ ~Shuts(r),
            !.closing = IF r.pos = "open" /\ autoCloses THEN @ + 1 ELSE @]

-----------------------------------------------------------------------------
(* What happens to the doorway.  Each takes the leaves and the portal and    *)
(* gives the next.                                                         *)

\* OpenDoor(true)
DoorOpened(w, d) ==
    [portal |-> w.portal \/ Opens(w.leaf[d]),
     leaf |-> [e \in Leaves |->
                 IF e = d THEN Opened(w.leaf[e])
                 ELSE IF Opens(w.leaf[d]) /\ e \in OpenPeers[d] THEN PeerOpened(w.leaf[e])
                 ELSE w.leaf[e]]]

\* Open(true)
Open(w, d) ==
    IF ByHandle(w.leaf[d])
    THEN [w EXCEPT !.leaf = [e \in Leaves |->
            IF e \in {d} \cup OpenPeers[d] THEN Tapped(w.leaf[e]) ELSE w.leaf[e]]]
    ELSE DoorOpened(w, d)

\* Close(true)
Close(w, d) ==
    LET starts == w.leaf[d].pos # "closed" IN
    [w EXCEPT !.leaf = [e \in Leaves |->
       IF e = d \/ (starts /\ e \in OpenPeers[d]) THEN Closed(w.leaf[e]) ELSE w.leaf[e]]]

\* Mutant of PortalAfter: the leaf that closes does not look at the other one.
PortalAlone(w, d) == w.portal /\ ~(Shuts(w.leaf[d]) /\ d \notin Transparent)

\* ClosePortal, when d comes to a stop.
PortalAfter(w, d) ==
    w.portal /\ ~(/\ Shuts(w.leaf[d]) /\ d \notin Transparent
                 /\ \A e \in DoubleDoor[d] : ~w.leaf[e].isOpen)

\* Event_StopRotating and Event_StopMoving
Stopped(w, d) ==
    [portal |-> PortalAfter(w, d),
     leaf |-> [w.leaf EXCEPT ![d] = Settled(@, d \in AutoClose)]]

ToggleOpen(w, d) ==
    IF w.leaf[d].moving
    THEN LET halted == Stopped([w EXCEPT !.leaf[d].interrupted = TRUE], d)
         IN  [halted EXCEPT !.leaf[d] = Unrequested(@)]
    ELSE IF w.leaf[d].intentOpen THEN Open(w, d) ELSE Close(w, d)

\* Lock(true) and Lock(false).
PeersShut(w, d) == \A p \in LockPeers[d] : w.leaf[p].pos = "closed"
LockedAlone(w, d) == IF PeersShut(w, d) THEN [w EXCEPT !.leaf[d].locked = TRUE] ELSE w

\* Mutant of Lock: the peers are left unlocked.
LockNoPeers(w, d) == LockedAlone(w, d)

Lock(w, d) ==
    IF ~PeersShut(w, d) THEN w
    ELSE [w EXCEPT !.leaf = [e \in Leaves |->
           [w.leaf[e] EXCEPT !.locked = @ \/ e = d \/ (e \in LockPeers[d] /\ PeersShut(w, e))]]]

\* Unlock(true)
Unlock(w, d) ==
    [w EXCEPT !.leaf = [e \in Leaves |->
       [w.leaf[e] EXCEPT !.locked = @ /\ e \notin {d} \cup LockPeers[d],
                         !.toggling = IF e = d /\ OpenOnUnlock THEN @ + 1 ELSE @]]]

ToggleLock(w, d) ==
    LET closed == IF w.leaf[d].isOpen THEN Close(w, d) ELSE w
    IN  IF w.leaf[d].locked THEN Unlock(closed, d) ELSE Lock(closed, d)

CloseAndLock(w, d) ==
    IF ~w.leaf[d].locked /\ w.leaf[d].pos # "closed"
    THEN Close([w EXCEPT !.leaf[d].lockOnClose = TRUE], d)
    ELSE Lock(w, d)

-----------------------------------------------------------------------------
(* The player and the AI.                                                  *)

Input ==
    /\ inputs < MaxInputs
    /\ inputs' = inputs + 1

\* The frob action script, a trigger, an impulse.
Frob(d) == Input /\ way' = ToggleOpen(way, d) /\ UNCHANGED bounces

\* UseByItem of a key that fits.
UseKey(d) ==
    /\ Input
    /\ way' = IF way.leaf[d].locked \/ way.leaf[d].pos = "closed"
              THEN ToggleLock(way, d) ELSE CloseAndLock(way, d)
    /\ UNCHANGED bounces

\* OnLockpickPinSuccess of the last pin.
PickLock(d) ==
    /\ Input
    /\ way.leaf[d].locked /\ way.leaf[d].picked = 0
    /\ way' = [way EXCEPT !.leaf[d].picked = 1]
    /\ UNCHANGED bounces

\* HandleDoorTask::OpenDoor: unlocks if it can, and then opens unless that does.
AIOpen(d) ==
    /\ Input
    /\ \/ way' = Open(way, d)
       \/ /\ way.leaf[d].locked
          /\ way' = IF OpenOnUnlock THEN Unlock(way, d) ELSE Open(Unlock(way, d), d)
    /\ UNCHANGED bounces

AIClose(d) == Input /\ way' = Close(way, d) /\ UNCHANGED bounces

\* HandleDoorTask::Perform, EStateClosingDoor
AILock(d) ==
    /\ Input
    /\ ~way.leaf[d].isOpen
    /\ way' = LockedAlone(way, d)
    /\ UNCHANGED bounces

\* OnTeamBlocked.  A leaf that need not stop only forgets its lock request.
Blocked(d) ==
    LET halted == Stopped([way EXCEPT !.leaf[d].interrupted = TRUE], d)
        reversed == Started(halted.leaf[d], "open")
        bounced == [halted EXCEPT !.leaf[d] = [reversed EXCEPT !.intentOpen = ~@]]
    IN  /\ Input
        /\ way.leaf[d].goal # "none"
        /\ \/ way' = [halted EXCEPT !.leaf[d] = Unrequested(@)] /\ UNCHANGED bounces
           \/ way' = [bounced EXCEPT !.leaf[d] = Unrequested(@)] /\ bounces' = bounces + 1
           \/ way' = [way EXCEPT !.leaf[d] = Unrequested(@)] /\ UNCHANGED bounces

-----------------------------------------------------------------------------
(* The physics and the events.                                             *)

Advance(d) ==
    LET leaf == way.leaf[d]
        there == [way EXCEPT !.leaf[d].pos = leaf.goal]
    IN  /\ leaf.goal # "none"
        /\ way' = IF leaf.pos = "between" THEN Stopped(there, d)
                  ELSE [way EXCEPT !.leaf[d].pos = "between"]
        /\ UNCHANGED <<inputs, bounces>>

\* OnOpenPositionReached of the handle.
HandleDown(d) ==
    LET opened == IF way.leaf[d].isOpen THEN way
                  ELSE [way EXCEPT !.portal = @ \/ Opens(way.leaf[d]), !.leaf[d] = Opened(@)]
    IN  /\ way.leaf[d].handle = "down"
        /\ way' = [opened EXCEPT !.leaf[d].handle = "up"]
        /\ UNCHANGED <<inputs, bounces>>

HandleUp(d) ==
    /\ way.leaf[d].handle = "up"
    /\ way' = [way EXCEPT !.leaf[d].handle = "rest"]
    /\ UNCHANGED <<inputs, bounces>>

\* Event_HandleLockRequest: if a peer is not shut, the event is posted again.
HandleLockRequest(d) ==
    /\ way.leaf[d].locking > 0
    /\ way' = IF PeersShut(way, d) THEN Lock([way EXCEPT !.leaf[d].locking = @ - 1], d) ELSE way
    /\ UNCHANGED <<inputs, bounces>>

ToggleAfterUnlock(d) ==
    /\ way.leaf[d].toggling > 0
    /\ way' = ToggleOpen([way EXCEPT !.leaf[d].toggling = @ - 1], d)
    /\ UNCHANGED <<inputs, bounces>>

CloseByItself(d) ==
    /\ way.leaf[d].closing > 0
    /\ way' = Close([way EXCEPT !.leaf[d].closing = @ - 1], d)
    /\ UNCHANGED <<inputs, bounces>>

OnLockPicked(d) ==
    /\ way.leaf[d].picked > 0
    /\ way' = Unlock([way EXCEPT !.leaf[d].picked = @ - 1], d)
    /\ UNCHANGED <<inputs, bounces>>

-----------------------------------------------------------------------------
\* After PostSpawn: shut, open, or ajar with first_frob_open; and perhaps locked.
Spawned(d, pos, locked, ajar) ==
    [pos |-> pos, goal |-> "none", moving |-> FALSE, stateChange |-> ajar,
     isOpen |-> pos # "closed", intentOpen |-> pos = "closed" \/ ajar, interrupted |-> ajar,
     lockOnClose |-> FALSE, locked |-> locked,
     handle |-> IF d \in Handled THEN "rest" ELSE "none",
     locking |-> 0, toggling |-> 0, picked |-> 0,
     closing |-> IF pos = "open" /\ d \in AutoClose THEN 1 ELSE 0]

Init ==
    /\ \E pos \in [Leaves -> {"closed", "between", "open"}], locked \in [Leaves -> BOOLEAN],
          ajar \in [Leaves -> BOOLEAN] :
          /\ \A d \in Leaves : ajar[d] => pos[d] = "between"
          /\ way = [leaf |-> [d \in Leaves |-> Spawned(d, pos[d], locked[d], ajar[d])],
                    portal |-> \E d \in Leaves : pos[d] # "closed"]
    /\ inputs = 0 /\ bounces = 0

Event(d) == HandleLockRequest(d) \/ ToggleAfterUnlock(d) \/ CloseByItself(d) \/ OnLockPicked(d)

Next ==
    \E d \in Leaves :
       \/ Frob(d) \/ UseKey(d) \/ PickLock(d)
       \/ AIOpen(d) \/ AIClose(d) \/ AILock(d) \/ Blocked(d)
       \/ Advance(d) \/ HandleDown(d) \/ HandleUp(d) \/ Event(d)

Spec == Init /\ [][Next]_vars

\* The physics runs each frame and an event is served when its time has come.
FairSpec ==
    /\ Spec
    /\ \A d \in Leaves :
          /\ WF_vars(Advance(d)) /\ WF_vars(HandleDown(d)) /\ WF_vars(HandleUp(d))
          /\ WF_vars(HandleLockRequest(d)) /\ WF_vars(ToggleAfterUnlock(d))
          /\ WF_vars(CloseByItself(d)) /\ WF_vars(OnLockPicked(d))

-----------------------------------------------------------------------------
(* Properties.                                                             *)

\* The values of the variables.
TypeOK ==
    /\ way \in [leaf : [Leaves -> Leaf], portal : BOOLEAN]
    /\ inputs \in Nat /\ bounces \in Nat

\* A leaf that is marked as closed is shut and at rest: "m_Open is only set to
\* false when the door is completely closed".
FlagTellsClosed ==
    \A d \in Leaves : ~way.leaf[d].isOpen =>
       way.leaf[d].pos = "closed" /\ way.leaf[d].goal = "none"

\* While a lock request is pending its leaf stays shut; the request itself looks
\* at the peers only, so that nobody else keeps a leaf from being locked open.
RequestMeansClosed ==
    \A d \in Leaves : way.leaf[d].locking > 0 =>
       /\ way.leaf[d].locking = 1
       /\ way.leaf[d].pos = "closed" /\ way.leaf[d].goal = "none"

\* The portal is open if a leaf is, whichever of them moved last, and only then
\* unless a transparent leaf left it open; or one bounced off an AI.
PortalFollows ==
    bounces = 0 =>
       /\ (\E d \in Leaves : way.leaf[d].isOpen) => way.portal
       /\ way.portal => \E d \in Leaves : way.leaf[d].isOpen \/ d \in Transparent

\* Is every leaf shut or being shut, with nothing pending that would change that?
OnlyClosing ==
    \A e \in Leaves :
       LET r == way.leaf[e] IN
       /\ r.toggling = 0 /\ r.closing = 0 /\ r.picked = 0 /\ r.handle # "down"
       /\ \/ r.goal = "closed" /\ r.stateChange
          \/ r.goal = "none" /\ r.pos = "closed"

\* A key turned at an open door closes and then locks it together with the leaves
\* locked with it, if nobody interferes and those close with it.
KeyLocks ==
    \A d \in Leaves, n \in 0 .. MaxInputs :
       LET leaves == {d} \cup LockPeers[d] IN
       LockPeers[d] \subseteq OpenPeers[d] =>
          ((way.leaf[d].lockOnClose /\ way.leaf[d].moving /\ OnlyClosing /\ inputs = n)
             ~> (inputs # n \/ \A e \in leaves : way.leaf[e].locked))
=============================================================================
