SPECIFICATION FairSpec
CONSTANTS
    A = A
    B = B
    None = None
    Lists = {A, B}
    NumThreads = 1
    Capacity = 1
    CounterSize = 8
    NumDoneGuards = 4
    Priority <- EqualPriority
    WaitsFor <- NoChain
    MaxJobs = 1
    MaxVersion = 3
INVARIANTS RingIntact
PROPERTIES SubmissionEnds FreeEnds
