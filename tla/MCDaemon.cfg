SPECIFICATION DaemonFairSpec
CONSTANTS
  r1 = r1
  Relays <- OneRelay
  FaultyLines = {}
  Seconds = {1}
  Millis = {1}
  Counts = {1}
  MsPerSecond = 1
  TickPeriod = 1
  Word32 = 64
  Word64 = 4096
  MaxClock = 2
  MaxSignals = 3
INVARIANTS DaemonTypeOK TickThreadJoined
PROPERTIES ShutdownCompletes
CHECK_DEADLOCK FALSE
