SPECIFICATION Spec
CONSTANTS
  BufferSize = 4
  NextTokens <- MCNextTokens
  SentenceLength = 9
  FreeLength = 9
  FreeAlphabet = {"SELECT", "FROM", "WHERE", "IDENTIFIER", "STAR", "COMMA", "EQUAL",
                  "STRING", "LEFT_PAREN", "RIGHT_PAREN"}
  Substitutes = {"IDENTIFIER", "COMMA", "LEFT_PAREN", "RIGHT_PAREN", "DOT", "STRING", "ERROR"}
INVARIANTS TypeOK LookaheadIsNext AcceptsSelectLanguage ParsersAgree
           SupportedIsReadWhole ColumnsAsDeclared
PROPERTY Terminates
