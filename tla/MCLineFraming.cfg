SPECIFICATION FairSpec
CONSTANTS
  MaxConns = 2
  MaxRequests = 2
  BlankLines <- SomeBlanks
INVARIANTS FramingTypeOK
PROPERTIES EmptyMeansEnd Answered ImplementsChannel
CHECK_DEADLOCK FALSE
