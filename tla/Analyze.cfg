CONSTANTS
  N = 3
  Paths <- MCPaths
SPECIFICATION MCSpec
INVARIANTS
  TypeOK
  DependenciesFirst
  StuckMeansCycle
  UnknownMeansMissing
  TypedAgainstItsImports
PROPERTY Terminates
