CONSTANTS
  Users = {"all", "ann"}
  Anonymous = "all"
  Calls = {"tty", "claude", "node"}
  UserOf <- MCUserOf
  KindOf <- MCKindOf
  MaxSessions = 2
  MaxClaude = 1
  MaxStops = 2
  Keys = {"k", "l"}
  Starts = {"start1", "start2", "start3"}
  Uses = {"use1", "use2"}
  Closes = {"close1", "close2"}
  KeyOf <- MCKeyOf
  MaxConcurrent = 1
SPECIFICATION MCSpec
CHECK_DEADLOCK FALSE
INVARIANTS TypeOK CountsAgree NothingEscapes PageIsLent
PROPERTY SlotsComeBack
