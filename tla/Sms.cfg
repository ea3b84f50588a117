CONSTANTS
  InitScript <- MCInit
  NoVoiceScript <- MCInit
  TaskIds = {1, 2, 3, 4}
  m1 = m1
  f1 = f1
  f2 = f2
  Own = {m1}
  Foreign = {f1, f2}
  Content <- MCContent
  ForeignPdu <- MCForeign
  NoMessage = NoMessage
  Slots = {1, 2}
  AutoDelete = {TRUE}
  DisableSms = FALSE
  MaxUser = 1
  Whens = {"gracefully", "convenient"}
  MaxRestarts = 1
  MaxLosses = 1
  WriteFaults = TRUE
  EmptyReadsOk = TRUE
SPECIFICATION FairSpec
INVARIANTS TypeOK ReportsTrue ArrivesAsSent NothingDeletedUnread
CHECK_DEADLOCK FALSE
PROPERTY RestartComes
