SPECIFICATION WorkerFairSpec
CONSTANTS
    Clients = {c1, c2}
    SpuriousWakeups = FALSE
    MaxSignals = 2
    MaxStarts = 2
INVARIANTS WaitMeansServed StoppedMeansOver NoLostSignal
PROPERTIES WaitEnds StopEnds
