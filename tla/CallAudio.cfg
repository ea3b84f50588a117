SPECIFICATION Spec
CONSTANTS
  Cpvt = {c1,c2}
  NoOne = NoOne
  c1 = c1
  c2 = c2
  MaxLen = 3
  Sounds <- MCSounds
  Old <- MCOld
  Size = 4
  FrameSize = 2
  FrameLens = {3}
INVARIANTS
  PositionsAgree
  OneMaster
  StreamsFollowCalls
PROPERTY MixesVoices
SYMMETRY Symmetry
CHECK_DEADLOCK FALSE
