SPECIFICATION ReadSpec
CONSTANTS
  Char <- MCChars
  Messages <- MCMessages
  Blank = "."
  Size = 16
  MaxSent = 3
INVARIANTS BytesInOrder SearchFindsFirst ResultsAsSent NothingLeft
CHECK_DEADLOCK FALSE
