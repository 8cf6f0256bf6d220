------------------------------ MODULE EventQueue ------------------------------
(***************************************************************************)
(* The event system of the game (game/gamesys/Event.cpp): objects post      *)
(* events for themselves with a delay, and idGameLocal::RunFrame serves in  *)
(* each tic, after the entities have thought, what is due.  Serving calls   *)
(* into the object, which may post, cancel, delete objects (itself too) or  *)
(* fail.                                                                    *)
(*                                                                         *)
(* An event is a member of a pool, taken from FreeEvents and returned to    *)
(* it; the model counts the free ones.  Arguments are left out.             *)
(***************************************************************************)
EXTENDS Naturals, Sequences, SequencesExt

CONSTANTS
    Objects,            \* objects of a map that respond to events and are saved
    EventDefs,          \* event definitions
    None,               \* no event, and no saved game
    MAX_EVENTS,         \* size of the pool
    MAX_EVENTSPERFRAME, \* events served in one call, before it is an overflow
    MaxDelay,           \* bound: delay of an event
    MaxTime,            \* bound: game time
    MaxOrder,           \* bound: numbers of the events due at one time
    MaxChanges          \* bound: errors and loaded games

ASSUME EventAssumption ==
    /\ MAX_EVENTS \in Nat \ {0} /\ MAX_EVENTSPERFRAME \in Nat
    /\ MaxDelay \in Nat /\ MaxTime \in Nat /\ MaxOrder \in Nat /\ MaxChanges \in Nat

VARIABLES
    time,               \* gameLocal.time
    queue,              \* EventQueue
    FreeEventsNum,
    serving,            \* the event ServiceEvents has taken off the queue
    num,                \* events served by this call of ServiceEvents
    phase,              \* "think" (entities think, or a map is spawned), "service",
                        \* "converse" (and search), or "between" two tics
    alive,              \* objects that exist
    saved,              \* the saved game
    changes             \* spent bound

vars == <<time, queue, FreeEventsNum, serving, num, phase, alive, saved, changes>>

\* posted numbers the events due at the same time in the order they were posted; the
\* code keeps no such number.
Event == [object : Objects, eventdef : EventDefs, time : Nat, posted : Nat]

Game == [time : Nat, queue : Seq(Event), alive : SUBSET Objects]

ASSUME NoneAssumption ==
    None \notin Game \cup [now : Nat, pending : SUBSET Event]

\* Game code runs: the entities think, an event calls back, or conversations and
\* searches go on.
GameCode == phase \in {"think", "converse"} \/ serving # None

Init ==
    /\ time = 0 /\ queue = <<>> /\ FreeEventsNum = MAX_EVENTS
    /\ serving = None /\ num = 0 /\ phase = "think"
    /\ alive = Objects /\ saved = None /\ changes = 0

-----------------------------------------------------------------------------
(* idEvent.                                                                *)

ScheduledFirst(event) ==
    LET ahead == {i \in DOMAIN queue : \A j \in 1 .. i : event.time > queue[j].time}
    IN  InsertAt(queue, Cardinality(ahead) + 1, event)

\* Schedule: behind every event that is due no later.
Scheduled(event) ==
    LET ahead == {i \in DOMAIN queue : \A j \in 1 .. i : event.time >= queue[j].time}
    IN  InsertAt(queue, Cardinality(ahead) + 1, event)

At(t) == {e \in Range(queue) : e.time = t}

\* PostEventArgs: Alloc, which needs a free event, and Schedule.
Post(object, eventdef, delay) ==
    LET event == [object |-> object, eventdef |-> eventdef, time |-> time + delay,
                  posted |-> 1 + Max({0} \cup {e.posted : e \in At(time + delay)})]
    IN  /\ GameCode /\ object \in alive
        /\ event.posted <= MaxOrder
        /\ FreeEventsNum > 0
        /\ FreeEventsNum' = FreeEventsNum - 1
        /\ queue' = Scheduled(event)
        /\ UNCHANGED <<time, serving, num, phase, alive, saved, changes>>

\* A list after the events of a set have been taken out of it one by one.
Without(events, gone) ==
    LET kept[i \in 0 .. Len(events)] ==
          IF i = 0 THEN <<>>
          ELSE IF events[i] \in gone THEN kept[i - 1] ELSE Append(kept[i - 1], events[i])
    IN  kept[Len(events)]

\* CancelEvents frees what it finds in the queue; the event being served is not
\* there.
Freeing(gone) ==
    /\ queue' = Without(queue, gone)
    /\ FreeEventsNum' = FreeEventsNum + Len(queue) - Len(queue')

CancelEvents(object, eventdef) ==
    /\ GameCode /\ object \in alive
    /\ Freeing({e \in Range(queue) : e.object = object /\ e.eventdef = eventdef})
    /\ UNCHANGED <<time, serving, num, phase, alive, saved, changes>>

DeleteKeepsEvents(object) ==
    /\ GameCode /\ object \in alive
    /\ alive' = alive \ {object}
    /\ UNCHANGED <<time, queue, FreeEventsNum, serving, num, phase, saved, changes>>

\* ~idClass cancels whatever the object has posted.
Delete(object) ==
    /\ GameCode /\ object \in alive
    /\ alive' = alive \ {object}
    /\ Freeing({e \in Range(queue) : e.object = object})
    /\ UNCHANGED <<time, serving, num, phase, saved, changes>>

\* ServiceEvents: the head of the queue, if it is due, leaves the queue before
\* its object is called.
HeadIsDue == queue # <<>> /\ Head(queue).time <= time

BeginService ==
    /\ phase = "think"
    /\ phase' = "service"
    /\ UNCHANGED <<time, queue, FreeEventsNum, serving, num, alive, saved, changes>>

ServeUncounted ==
    /\ phase = "service" /\ serving = None
    /\ HeadIsDue
    /\ serving' = Head(queue) /\ queue' = Tail(queue)
    /\ UNCHANGED <<time, FreeEventsNum, num, phase, alive, saved, changes>>

Serve ==
    /\ phase = "service" /\ serving = None
    /\ num <= MAX_EVENTSPERFRAME
    /\ HeadIsDue
    /\ num' = num + 1
    /\ serving' = Head(queue)
    /\ queue' = Tail(queue)
    /\ UNCHANGED <<time, FreeEventsNum, phase, alive, saved, changes>>

\* The callback returns: the event goes back to the pool.
Served ==
    /\ serving # None
    /\ serving' = None
    /\ FreeEventsNum' = FreeEventsNum + 1
    /\ UNCHANGED <<time, queue, num, phase, alive, saved, changes>>

EndService ==
    /\ phase = "service" /\ serving = None
    /\ num <= MAX_EVENTSPERFRAME
    /\ ~HeadIsDue
    /\ phase' = "converse" /\ num' = 0
    /\ UNCHANGED <<time, queue, FreeEventsNum, serving, alive, saved, changes>>

-----------------------------------------------------------------------------
(* The game around it.                                                     *)

\* ProcessConversations and ProcessSearches are done; what they have posted waits
\* for the next tic.
EndFrame ==
    /\ phase = "converse"
    /\ phase' = "between"
    /\ UNCHANGED <<time, queue, FreeEventsNum, serving, num, alive, saved, changes>>

\* A tic of RunFrame.
Advance ==
    /\ phase = "between" /\ time < MaxTime
    /\ time' = time + 1
    /\ phase' = "think"
    /\ UNCHANGED <<queue, FreeEventsNum, serving, num, alive, saved, changes>>

\* The map is shut down: every object is deleted, and its events with it, but
\* an event that is being served, or is lost by Alloc, is in no list.  A new map
\* is spawned at time 0.
Restart(lost) ==
    /\ queue' = <<>>
    /\ lost <= FreeEventsNum
    /\ FreeEventsNum' = FreeEventsNum + Len(queue) - lost
    /\ serving' = None /\ num' = 0 /\ phase' = "think"
    /\ alive' = Objects /\ time' = 0
    /\ UNCHANGED saved

\* gameLocal.Error is thrown by game code, by Alloc or Restore without a free event,
\* and by ServiceEvents after too many events.  Alloc also throws when the arguments
\* are wrong; the event it has taken is lost.
Error ==
    /\ GameCode /\ changes < MaxChanges
    /\ changes' = changes + 1
    /\ \E lost \in {0, 1} : Restart(lost)

NoFreeEvents ==
    /\ \/ GameCode /\ FreeEventsNum = 0
       \/ phase = "between" /\ saved # None /\ FreeEventsNum + Len(queue) < Len(saved.queue)
    /\ Restart(0) /\ UNCHANGED changes

Overflow ==
    /\ phase = "service" /\ serving = None /\ num > MAX_EVENTSPERFRAME
    /\ Restart(0) /\ UNCHANGED changes

\* Between two tics the session saves the game, or shuts the map down and loads
\* one.
Save ==
    /\ phase = "between" /\ saved = None
    /\ saved' = [time |-> time, queue |-> queue, alive |-> alive]
    /\ UNCHANGED <<time, queue, FreeEventsNum, serving, num, phase, alive, changes>>

Restore ==
    /\ phase = "between" /\ saved # None
    /\ changes < MaxChanges
    /\ changes' = changes + 1
    /\ FreeEventsNum + Len(queue) >= Len(saved.queue)
    /\ FreeEventsNum' = FreeEventsNum + Len(queue) - Len(saved.queue)
    /\ queue' = saved.queue /\ time' = saved.time /\ alive' = saved.alive
    /\ UNCHANGED <<serving, num, phase, saved>>

Next ==
    \/ \E o \in Objects, d \in EventDefs :
          CancelEvents(o, d) \/ \E delay \in 0 .. MaxDelay : Post(o, d, delay)
    \/ \E o \in Objects : Delete(o)
    \/ Advance \/ BeginService \/ Serve \/ Served \/ EndService \/ EndFrame
    \/ Error \/ NoFreeEvents \/ Overflow \/ Save \/ Restore

Spec == Init /\ [][Next]_vars

\* Every callback returns; nothing forces game code to post, cancel or save.
FairSpec == Spec /\ WF_vars(Serve \/ Served \/ EndService \/ Overflow)

-----------------------------------------------------------------------------
(* Properties.                                                             *)

\* The values of the variables; the pool has room for the queue.
TypeOK ==
    /\ time \in Nat /\ num \in 0 .. MAX_EVENTSPERFRAME + 1
    /\ queue \in Seq(Event) /\ serving \in Event \cup {None}
    /\ FreeEventsNum \in Nat /\ FreeEventsNum + Len(queue) <= MAX_EVENTS
    /\ phase \in {"think", "service", "converse", "between"} /\ alive \subseteq Objects
    /\ saved \in Game \cup {None}

\* No object is called after its destructor: whatever has been deleted has nothing
\* in the queue, also after a game has been loaded (ServiceEvents calls
\* event->object without a check but an assertion).
NoDeadReceiver == \A e \in Range(queue) : e.object \in alive

\* An event that posts itself again without a delay does not hang the game: the
\* call of ServiceEvents ends, by the overflow error if by nothing else.
ServiceEnds == phase = "service" ~> phase # "service"

\* The events are served as the game objects expect: once, on time, in order, not
\* after they have been cancelled, and again as they were in a loaded game.
Promise == INSTANCE EventPromise WITH
    now <- time, pending <- Range(queue), Events <- Event, NoGame <- None,
    games <- IF saved = None THEN None
             ELSE [now |-> saved.time, pending |-> Range(saved.queue)]
KeepsPromise == Promise!Spec
=============================================================================
