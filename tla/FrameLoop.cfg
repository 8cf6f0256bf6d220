SPECIFICATION FairSpec
CONSTANTS
    ErrorSources = {"main", "frontend", "backend"}
    MaxFrames = 4
    MaxErrors = 2
    MaxSwitches = 1
    MaxReloads = 1
INVARIANTS BuffersApart FrontendAtRest LatencyOne ErrorsSettled OneErrorIsCaught
PROPERTIES FrameEnds ShutdownEnds
