SPECIFICATION KeySpec
CONSTANTS
  KeyLength = 2
  Strings <- MCStrings
INVARIANTS PrintedKeyIsRead
CHECK_DEADLOCK FALSE
