CONSTANTS
  RecordMax = 2
  BlockMax = 7
  MsgMax = 5
  MaxFile = 16
SPECIFICATION Spec
CHECK_DEADLOCK FALSE
INVARIANTS
  TypeOK
  OnlyLongFilesAreReset
PROPERTIES
  ImplementsTransfer
  TransferEnds
