SPECIFICATION FairSpec
CONSTANTS
  r1 = r1
  Relays <- OneRelay
  FaultyLines = {}
  Seconds = {1}
  Millis = {0, 2, 5}
  Counts = {0, 2}
  MsPerSecond = 3
  TickPeriod = 2
  Word32 = 6
  Word64 = 64
  MaxClock = 8
INVARIANTS TypeOK ChannelCoherent PinFollowsState NothingOverdue
PROPERTIES KeepsPromise PlansProgress
