SPECIFICATION KeySpec
CONSTANTS
  KeyLength = 2
  Strings <- MCStrings
INVARIANTS OtherSymbolsAreRefused
CHECK_DEADLOCK FALSE
