CONSTANTS
  i1 = i1
  i2 = i2
  i3 = i3
  i4 = i4
  run = run
  read = read
  Invs <- MCInvs
  Tools <- MCTools
  ToolOf <- MCToolOf
  Gated <- MCGated
  MaxConcurrent = 2
SPECIFICATION FairSpec
INVARIANTS TypeOK CountLedger WithinLimit RecordMatchesCall
PROPERTIES RunsAtMostOnce EventuallySettles
