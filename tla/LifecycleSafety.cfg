SPECIFICATION FairSpec
CONSTANTS
  d1 = d1
  d2 = d2
  Dev <- TwoDevs
  LookupDevs <- TwoDevs
  InitStates <- OnlyOn
  Whens <- AllTimes
  ReloadWhens <- None
  MaxChans = 1
  ReloadOverlaps = FALSE
  MayUnload = TRUE
  TtyFaults = TRUE
  Losses = TRUE
INVARIANTS OneMonitor FreedStopped PostponedWaits
PROPERTIES CutOnlyIfUrgent CommandsKept CarriedOut
CHECK_DEADLOCK FALSE
