SPECIFICATION Spec
CONSTANTS
  d1 = d1
  d2 = d2
  Dev <- TwoDevs
  LookupDevs <- None
  InitStates <- OnlyOn
  Whens <- NowOrConvenient
  ReloadWhens <- NowOnly
  MaxChans = 1
  ReloadOverlaps = FALSE
  MayUnload = FALSE
  TtyFaults = FALSE
  Losses = TRUE
SYMMETRY Interchangeable
PROPERTIES OnlyUnwantedFreed ReloadFollowsConfig
