SPECIFICATION FairSpec
CONSTANTS
  d1 = d1
  d2 = d2
  Dev <- OneDev
  LookupDevs <- None
  InitStates <- OnlyOn
  Whens <- NowOnly
  ReloadWhens <- None
  MaxChans = 1
  ReloadOverlaps = FALSE
  MayUnload = TRUE
  TtyFaults = FALSE
  Losses = FALSE
PROPERTIES UnloadCompletes
CHECK_DEADLOCK FALSE
