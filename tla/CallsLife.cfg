SPECIFICATION Spec
CONSTANTS
  InitScript <- MCInit
  NoVoiceScript <- MCInit
  TaskIds <- MCTasks
  Cpvt = {c1,c2,c3}
  c1 = c1
  c2 = c2
  c3 = c3
  MaxCallIdx = 3
  ModemCalls = 2
  Opts <- Join2
  DialKinds = {"dial"}
  MaxTasks = 1
  TtyCap = 2
  ModemRefuses = FALSE
  PbxFaults = FALSE
  EarlyHangup = FALSE
  Switches = FALSE
  Glare = FALSE
  Disconnects = FALSE
  NoCpvt = NoCpvt
  Sys = Sys
INVARIANTS
  CallHasChannel
  CpvtHasCall
  StatesAgree
CHECK_DEADLOCK FALSE
