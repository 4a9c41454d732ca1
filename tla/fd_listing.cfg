\* Two clients, one of which lists twice over one data connection.
SPECIFICATION Spec
CONSTANTS
  Session = {s1, s2}
  Server = Server
  MaxFd = 8
  PasvAttempts = 2
INVARIANTS ListingReachesItsClient
CHECK_DEADLOCK FALSE
