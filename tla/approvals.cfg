CONSTANTS
  r1 = r1
  r2 = r2
  o1 = o1
  o2 = o2
  o3 = o3
  Requests <- MCRequests
  Operations <- MCOperations
  SentTo <- MCSentTo
  MaxBegun = 3
  MaxFaults = 2
SYMMETRY MCSymmetry
SPECIFICATION Spec
CHECK_DEADLOCK FALSE
INVARIANTS TypeOK OneVerdict AnnouncedIsOnFile ShownHolds
