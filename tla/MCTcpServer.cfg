SPECIFICATION FairSpec
CONSTANTS
  c1 = c1
  c2 = c2
  o1 = o1
  o2 = o2
  Clients <- TwoClients
  Fds = {5}
  Addresses <- TwoAddresses
  Transports = {FALSE, TRUE}
  MaxRequests = 2
INVARIANTS TypeOK FdOwned SessionsTrack StoppedIsQuiet RequestsAccountedFor
INVARIANTS SslAlive
PROPERTIES StopTerminates RequestsTakenUp
CHECK_DEADLOCK FALSE
