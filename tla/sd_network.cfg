SPECIFICATION NetSpec
CONSTANTS
  Multicast <- OnTheGroup
  Wanted = {"a", "b", "c"}
  TIMEOUT = 5
  INBOX = 1
  Advertiser = Advertiser
  Owner = Owner
  NoThread = NoThread
  MAX_SESSION = 1
  SERVICE = "a"
  PORT = 1
  PERIOD = 1
  JITTER = 1
INVARIANTS NothingMissed EndpointIsOffered RunningServerFound
PROPERTY DiscoverReturns
CHECK_DEADLOCK FALSE
