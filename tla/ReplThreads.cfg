CONSTANTS
  Threads = {t1, t2}
  Modules = {"a", "b", "e", "n/b"}
  Files <- MCFiles
  Stem <- MCStem
  Resolve <- MCResolve
  Texts <- ThreadTexts
  NoFile = NoFile
  Torn = Torn
  Imports <- MCImports
  IllTyped = {}
  Faulty = {"aThrows"}
  Edits <- ThreadEdits
  InitDisk <- ThreadDisk
  Snippets <- NoSnippets
  Entries <- ThreadEntries
SYMMETRY ThreadSymmetry
SPECIFICATION Spec
INVARIANTS
  TypeOK
  TempsOwned
  RequiresAreLoaded
  CachedWasLoaded
