SPECIFICATION MCSpec
CONSTANTS
  Users <- MCUsers
  Sockets = {s1, s2}
  Names = {laptop}
  Codes = {c1, c2}
  Capabilities <- MCCapabilities
  Calls <- MCCalls
  UserOf <- MCUserOf
  InputOf <- MCInputOf
  MaxPerUser = 1
  MaxRetries = 1
  MaxNodes = 2
  Shared = TRUE
  Routed = TRUE
INVARIANTS TypeOK WaitersTracked CountsAgree
PROPERTIES PairingSpendsCode ServesCalls EveryCallEnds
CHECK_DEADLOCK FALSE
