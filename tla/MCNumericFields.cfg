SPECIFICATION Spec
CONSTANTS
  IntBits = 16
  Bits <- MCBits
  Fields <- MCFields
  Lines <- MCLines
INVARIANTS FieldHoldsTheLine SmallNumbersDoNotOverflow
CHECK_DEADLOCK FALSE
