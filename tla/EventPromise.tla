----------------------------- MODULE EventPromise -----------------------------
(***************************************************************************)
(* What the event system promises to the game objects: an event they post   *)
(* is served once, not before it is due and not after the frame that        *)
(* follows, unless it is cancelled; what is due at the same time is served  *)
(* in the order it was posted; a saved game brings back what was pending.   *)
(***************************************************************************)
EXTENDS Naturals

CONSTANTS Events, NoGame

VARIABLES
    now,            \* game time
    pending,        \* posted, neither served nor cancelled
    games           \* the saved game: its time and what was pending in it

vars == <<now, pending, games>>

Before(e, f) == e.time < f.time \/ (e.time = f.time /\ e.posted < f.posted)

Init == now = 0 /\ pending = {} /\ games = NoGame

Post == \E e \in pending' \ pending :
    /\ e \in Events /\ e.time >= now
    /\ \A f \in pending : f.time = e.time => f.posted < e.posted
    /\ pending' = pending \cup {e}
    /\ UNCHANGED <<now, games>>

Serve == \E e \in pending :
    /\ e.time <= now
    /\ \A f \in pending \ {e} : Before(e, f)
    /\ pending' = pending \ {e}
    /\ UNCHANGED <<now, games>>

\* All events of an object, or those of one definition.
Cancel == \E e \in pending :
    /\ \/ pending' = {f \in pending : f.object # e.object}
       \/ pending' = {f \in pending : f.object # e.object \/ f.eventdef # e.eventdef}
    /\ UNCHANGED <<now, games>>

\* A frame begins when all that was due in the one before has been served.
Advance ==
    /\ now' > now
    /\ \A e \in pending : e.time >= now
    /\ UNCHANGED <<pending, games>>

Save == games' = [now |-> now, pending |-> pending] /\ UNCHANGED <<now, pending>>

\* Another map, or a saved game.
Change ==
    /\ \/ now' = 0 /\ pending' = {}
       \/ games # NoGame /\ now' = games.now /\ pending' = games.pending
    /\ UNCHANGED games

Next == Post \/ Serve \/ Cancel \/ Advance \/ Save \/ Change
Spec == Init /\ [][Next]_vars
=============================================================================
