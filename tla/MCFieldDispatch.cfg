SPECIFICATION Spec
CONSTANTS
  Channels <- MCChannels
  Arguments <- MCArguments
INVARIANTS EachLineFillsItsField
CHECK_DEADLOCK FALSE
