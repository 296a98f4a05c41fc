CONSTANTS
  Sockets = {s1, s2}
  Messages = {m}
  Keys = {"address", "token", "other"}
  MaxReconnects = 1
  Window <- MCWindow
  Limit <- MCLimit
  MaxConnects = 2
  MaxFaults = 1
SPECIFICATION MCSpec
CHECK_DEADLOCK FALSE
INVARIANTS OneLink WindowHeld
PROPERTY LinkComesBack
