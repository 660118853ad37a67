SPECIFICATION MCSpec
CONSTANTS
  Letters = {"a", "s", "x", "_"}
  Lower <- MCLower
  MaxNodes = 5
  Digits = {"1"}
  HexLetters = {"a", "A"}
  Tables <- MCTables
  Texts <- MCTexts
  Probes <- MCProbes
  Keys = {"k1", "k2", "k3", "k4", "k5"}
  Values = {1, 2}
  NoValue = 0
  Hash <- MCHash
  InitialCapacity = 1
  LoadNumerator = 3
  LoadDenominator = 4
  MinCapacity = 2
  SizeMax = 7
  ArenaSizeMax = 31
  MinArenaCapacity = 2
  ArenaRequests = {0, 3}
  Sizes = {0, 1, 5, 30}
  Alignments = {1, 4}
  MaxMoves = 1
  MaxBlocks = 4
INVARIANTS ReservedAsInserted TokensAreLexemes TokensTileText ChainsConsistent BlocksApart
PROPERTY ImplementsDictionary
