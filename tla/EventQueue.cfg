SPECIFICATION FairSpec
CONSTANTS
    Objects = {guard, torch}
    EventDefs = {think}
    None = None
    MAX_EVENTS = 3
    MAX_EVENTSPERFRAME = 2
    MaxDelay = 1
    MaxTime = 1
    MaxOrder = 2
    MaxChanges = 1
INVARIANTS NoDeadReceiver
PROPERTIES KeepsPromise ServiceEnds
CHECK_DEADLOCK FALSE
