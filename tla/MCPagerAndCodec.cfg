CONSTANTS
  Pages <- MCPages
  Readable <- MCReadable
  MinCacheCapacity = 3
  DefaultCacheSize = 2
  MaxClock = 7
  ByteBits = 3
  DatabaseHeaderSize = 3
  UsableSize = 480
  Files <- MCFiles
SPECIFICATION MCSpec
INVARIANTS
  TypeOK
  OneSlotPerPage
  LatestGetCurrent
  LoadedStays
  PinsExact
  NeverExhausted
  RecentPagesCached
  RowAsStored
  ExitsOnUnreadable
  TreeAsStored
