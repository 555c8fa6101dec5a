CONSTANTS
  Types <- MCTypes
  Names = {"main", "f", "g"}
  Main = "main"
SPECIFICATION MCSpec
INVARIANT DroppedIsDead
