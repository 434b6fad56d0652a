SPECIFICATION Spec
CONSTANTS
  Channels <- MCChannels
  Arguments <- MCArguments
INVARIANTS IntUnitBelongsToIntValue
CHECK_DEADLOCK FALSE
