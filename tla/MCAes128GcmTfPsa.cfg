SPECIFICATION Spec
CONSTANTS
  Keys = {k1, k2}
  NoKey = NoKey
  Garbage = Garbage
  KeyIds = {1, 2}
  Operations = 2
  Messages <- MCMessages
INVARIANTS NoOperationLeaks NoKeyLeaks
PROPERTIES ImplementsDecryptor
