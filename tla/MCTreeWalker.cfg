CONSTANTS
  Databases <- MCDatabases
  Predicates <- MCPredicates
  MaxRowid = 4
  Keys = {0, 1, 2, 3}
  FewKeys = {2, 3}
  LastNumber = 1
SPECIFICATION Spec
INVARIANTS
  TypeOK
  PagesWalkedOnce
  StacksArePaths
PROPERTIES
  ImplementsCursor
  ScanEnds
