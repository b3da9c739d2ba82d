SPECIFICATION Spec
CONSTANTS
    Desks = {d1}
    HoldLengths = {1}
    PhaseLengths = {1}
    BlinkCounts = {0, 1}
    MaxClicks = 3
    MaxInFlight = 2
    MaxClock = 2
PROPERTY ModeChangeTurnsOff
