SPECIFICATION PolicySpec
CONSTANTS
  None = None
  Width = 3
  Tags = {t1, t2}
  Values = {0, 4}
  IsNegative <- MCNegative
  IsZero <- MCZero
  Gprs = {r1}
  Requests <- MCRequests
  Payloads <- MCPayloads
  Depth = 2
  RenameDepth = 2
  Generations = 2
  Regs = {r1}
  MaxSerial = 3
  AddressCount = 4
  ResetPc = 1
  Sets = 2
  Vsids = {0}
  Pages = {0, 2}
  Entries <- MCEntries
  BlockBits = 2
  LengthBits = 2
  OffsetBits = 1
  UpperData <- MCUpper
  LowerData <- MCLower
  MaxAddress = 63
INVARIANTS
  FlagsCommitted
  RecoveryExact
  StreamIsWanted
  TranslationExact
  ReferencesAgree
  BusAnswersExact
PROPERTIES
  FlagEdgesSound
CHECK_DEADLOCK FALSE
