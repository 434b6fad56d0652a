SPECIFICATION BothSpec
CONSTANTS
  Keys = {k1, k2, k3}
  NoKey = NoKey
  Messages <- MCMessages
PROPERTIES ImplementsDecryptor MbedTlsImplementsDecryptor
