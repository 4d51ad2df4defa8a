SPECIFICATION Spec
CONSTANTS
  Source = 1
  Sink = 4
  Scenarios <- MCScenarios
INVARIANTS
  BooksClose
  MacColumnIsTerminal
  BooksFollowCopies
  ReorderingAsDefined
