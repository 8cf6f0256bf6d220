SPECIFICATION Spec
CONSTANTS
    A = A
    B = B
    None = None
    Lists = {A, B}
    NumThreads = 2
    Capacity = 2
    CounterSize = 8
    NumDoneGuards = 4
    Priority <- MixedPriority
    WaitsFor <- NoChain
    MaxJobs = 2
    MaxVersion = 1
INVARIANTS NoUseAfterFree
