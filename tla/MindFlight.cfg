SPECIFICATION MindSpec
CONSTANTS
    MaxDisturbances = 2
    MaxTalks = 1
    MaxLoads = 1
CHECK_DEADLOCK FALSE
PROPERTIES FlightGoesOn
