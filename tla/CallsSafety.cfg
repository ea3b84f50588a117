SPECIFICATION Spec
CONSTANTS
  InitScript <- MCInit
  NoVoiceScript <- MCInit
  TaskIds <- MCTasks
  Cpvt = {c1,c2}
  c1 = c1
  c2 = c2
  MaxCallIdx = 3
  ModemCalls = 2
  Opts <- Join2
  DialKinds = {"dialPlain"}
  MaxTasks = 1
  TtyCap = 0
  ModemRefuses = TRUE
  PbxFaults = TRUE
  EarlyHangup = TRUE
  Switches = TRUE
  Glare = TRUE
  Disconnects = TRUE
  NoCpvt = NoCpvt
  Sys = Sys
INVARIANTS
  TypeOK
  CountsAgree
  NoDangling
CHECK_DEADLOCK FALSE
