SPECIFICATION Spec
CONSTANTS
  BufferSize = 4
  NextTokens <- GrammarNextTokens
  SentenceLength = 3
  FreeLength = 0
  FreeAlphabet = {}
  Substitutes = {}
INVARIANT ReadsGrammar
