SPECIFICATION Spec
CONSTANTS
    s1 = s1
    s2 = s2
    Surfaces = {s1, s2}
    ScreenRect = ScreenRect
    NoCache = NoCache
    MinSize = 2
    SizeLimit = 4
    FrameNumbers = 16
    MaxFrames = 5
    MaxInFlight = 2
    MaxDemand = 4
    MaxExtra = 1
    MaxTroubles = 1
SYMMETRY Interchangeable
CHECK_DEADLOCK FALSE
INVARIANTS DrawsIntact CurrentMeansWritten
