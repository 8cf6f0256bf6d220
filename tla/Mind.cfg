SPECIFICATION MindFairSpec
CONSTANTS
    MaxDisturbances = 2
    MaxTalks = 1
    MaxLoads = 1
CHECK_DEADLOCK FALSE
INVARIANTS LadderStacked FlightIsReal
PROPERTIES CalmsDown
