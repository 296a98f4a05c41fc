CONSTANTS
  t1 = t1
  t2 = t2
  t3 = t3
  t4 = t4
  c1 = c1
  c2 = c2
  Tasks <- MCTasks
  Channels <- MCChannels
  ChannelOf <- MCChannelOf
  MaxQueue = 2
  MaxApprovals = 0
  Wired = FALSE
SPECIFICATION Spec
SYMMETRY MCSymmetry
INVARIANTS SerialExecution NoTaskLost RunningIsGuarded DoneReportedOnce
PROPERTIES ServesInOrder
CHECK_DEADLOCK FALSE
