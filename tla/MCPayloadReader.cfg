CONSTANTS
  Pages <- MCPages
  Readable <- MCReadable
  MinCacheCapacity = 2
  DefaultCacheSize = 0
  Cells <- MCCells
  Link <- MCLink
  Chain <- MCChain
  PageSize = 5
  OverflowCapacity = 2
  MaxReads = 4
  None = None
SPECIFICATION ReaderSpec
INVARIANTS
  ReaderTypeOK
  PayloadExact
  IdlePinsNothing
PROPERTIES
  UsesPagerAsAssumed
  ImplementsStore
