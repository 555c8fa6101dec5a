CONSTANTS
  Modules <- MCModules
  Library = {"lib"}
  Project = {"app"}
  Texts <- MCTexts
  TextsOf <- MCTextsOf
  None = None
  Torn = Torn
  MaxRuns = 2
  MaxEdits = 2
SPECIFICATION Spec
INVARIANTS
  FailsForACause
  OutputIsOneVersion
PROPERTIES
  WritesAccepted
  Terminates
