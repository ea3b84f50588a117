SPECIFICATION Spec
CONSTANTS
  InitScript <- MCInit
  NoVoiceScript <- MCInit
  TaskIds <- MCTasks
  Cpvt = {c1,c2}
  c1 = c1
  c2 = c2
  MaxCallIdx = 3
  ModemCalls = 1
  Opts <- NoOption
  DialKinds = {"dialPlain"}
  MaxTasks = 1
  TtyCap = 1
  ModemRefuses = FALSE
  PbxFaults = FALSE
  EarlyHangup = TRUE
  Switches = FALSE
  Glare = FALSE
  Disconnects = FALSE
  NoCpvt = NoCpvt
  Sys = Sys
INVARIANT NoZombie
CHECK_DEADLOCK FALSE
