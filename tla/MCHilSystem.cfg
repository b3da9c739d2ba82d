SPECIFICATION FairSpec
CONSTANTS
    Desks = {d1, d2}
    HoldLengths = {1}
    PhaseLengths = {1}
    BlinkCounts = {0, 1}
    MaxClicks = 3
    MaxInFlight = 2
    MaxClock = 2
INVARIANTS
    HilTypeOK
    OnlyUsersCommand
PROPERTY
    WindowsConverge
