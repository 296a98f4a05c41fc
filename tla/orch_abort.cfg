CONSTANTS
  t1 = t1
  t2 = t2
  t3 = t3
  t4 = t3
  c1 = c1
  c2 = c2
  Tasks <- MCTasks
  Channels <- MCChannels
  ChannelOf <- MCChannelOf
  MaxQueue = 3
  MaxApprovals = 0
  Wired = FALSE
SPECIFICATION Spec
PROPERTIES AbortedNotStarted
CHECK_DEADLOCK FALSE
