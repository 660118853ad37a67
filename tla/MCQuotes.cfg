SPECIFICATION Spec
CONSTANTS
  Letters = {"a", "s", "x", "_"}
  Lower <- MCLower
  MaxNodes = 5
  Digits = {"1"}
  HexLetters = {"a", "A"}
  Tables <- MCTables
  Texts <- MCTexts
  Probes <- MCProbes
INVARIANT TakenBetweenQuotes
