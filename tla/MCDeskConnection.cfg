SPECIFICATION FairSpec
CONSTANTS
    MaxAsked = 2
    MaxPipe = 2
INVARIANTS
    DeskTypeOK
    SocketHeldWhileReading
    ReaderJoined
    DisconnectedIsDark
    ConnectedIsShown
PROPERTIES
    DisconnectEnds
    LossNoticed
\* The application ends.
CHECK_DEADLOCK FALSE
