SPECIFICATION FairSpec
CONSTANTS
    NumThreads = 2
    MaxJobs = 2
    PairedSyncs = TRUE
    MaxItems <- ItemsOfEach
    MaxVersion = 2
INVARIANTS GuardMeansExecuted Quiescent
PROPERTIES KeepsPromise WaitReturns InlineCompletes
