SPECIFICATION Spec
CONSTANTS
  BufferSize = 4
  NextTokens <- MCNextTokens
  SentenceLength = 3
  FreeLength = 8
  FreeAlphabet = {"SELECT", "FROM", "IDENTIFIER", "STAR", "LEFT_PAREN", "RIGHT_PAREN"}
  Substitutes = {}
INVARIANT CountSupported
