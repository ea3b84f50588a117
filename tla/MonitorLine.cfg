SPECIFICATION FairSpec
CONSTANTS
  InitScript <- MCInit
  NoVoiceScript <- MCNoVoice
  TaskIds = {t1, t2, t3, t4}
  t1 = t1
  t2 = t2
  t3 = t3
  t4 = t4
  Kinds = {"sms", "dial", "user"}
  UrcKinds = {"clcc", "retrieve"}
  MaxTasks = 2
  MaxUrcs = 1
  TtyCap = 2
  WriteFaults = TRUE
  PortFaults = TRUE
  Chatty = FALSE
  ModemForgets = TRUE
INVARIANTS
  CountersMatch
  BegunIsHead
  AnswersInStep
  TextMeetsPrompt
PROPERTIES
  NothingDroppedUnanswered
  SerialService
  HeadMovesOn
