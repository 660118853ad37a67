CONSTANTS
  PrefixOf <- MCPrefixOf
  Files <- MCFiles
  Statements <- MCStatements
  LastNumber = 1
SPECIFICATION Spec
INVARIANTS
  
  NothingInvented
  AggregateOnce
PROPERTIES
  StatementEnds
