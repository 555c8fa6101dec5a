CONSTANTS
  Modules = {"s", "m", "t", "d", "e", "x", "gleeunit"}
  Packages = {"p1", "p2"}
  Gleeunit = "gleeunit"
SPECIFICATION MCSpec
INVARIANTS
  TypeOK
  PackagesOnDemand
  RequiresProvided
PROPERTIES
  Terminates
  CollectsClosure
