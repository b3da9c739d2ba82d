SPECIFICATION DaemonSpec
CONSTANTS
  r1 = r1
  Relays <- OneRelay
  FaultyLines = {}
  Seconds = {1}
  Millis = {2}
  Counts = {1}
  MsPerSecond = 3
  TickPeriod = 2
  Word32 = 64
  Word64 = 4096
  MaxClock = 4
  MaxSignals = 2
INVARIANTS NoPureVirtualCall
CHECK_DEADLOCK FALSE
