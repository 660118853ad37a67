CONSTANTS
  ByteBits = 3
  DatabaseHeaderSize = 3
  UsableSize = 480
  Files <- MCFiles
SPECIFICATION ReaderSpec
INVARIANT
  SignedAsStored
