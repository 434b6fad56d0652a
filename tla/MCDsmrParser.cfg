SPECIFICATION Spec
CONSTANTS
  Telegrams <- MCTelegrams
  LaterTelegrams <- MCLaterTelegrams
  FieldIds <- MCFieldIds
  IdentificationId <- MCIdentificationId
  ReadObis <- MCReadObis
  ReadField <- MCReadField
  Consumes <- MCConsumes
INVARIANTS ScanStaysInside AcceptsTheFormat HoldsTheTelegram
PROPERTIES FirstValueStays
CHECK_DEADLOCK FALSE
