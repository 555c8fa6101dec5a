CONSTANTS
  Types <- MCTypes
  Names = {"main", "f", "g"}
  Main = "main"
SPECIFICATION MCSpec
INVARIANTS
  TypeOK
  SchemaBuildEnds
  CutsOnlyCycles
  NamesResolve
  ResolvesInOrder
  ConstantsHoldFunctions
  InterfaceEmitted
PROPERTY Terminates
