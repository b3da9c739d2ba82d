SPECIFICATION RpcFairSpec
CONSTANTS
  Relays <- TwoRelays
  FaultyLines = {1}
  Seconds = {1}
  Millis = {2}
  Counts = {2}
  MsPerSecond = 3
  TickPeriod = 2
  Word32 = 16
  Word64 = 256
  MaxClock = 2
  Conns = {"a", "b"}
  Lines <- AllLines
  MaxLines = 1
INVARIANTS RpcTypeOK AnswersMatch
PROPERTIES SuccessMeansDone EveryLineAnswered
CHECK_DEADLOCK FALSE
