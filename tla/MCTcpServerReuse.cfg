SPECIFICATION Spec
CONSTANTS
  c1 = c1
  c2 = c2
  o1 = o1
  o2 = o2
  Clients <- TwoClients
  Fds = {5}
  Addresses <- TwoAddresses
  Transports = {TRUE}
  MaxRequests = 1
INVARIANTS OwnSsl
CHECK_DEADLOCK FALSE
