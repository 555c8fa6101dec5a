CONSTANTS
  Threads = {t1}
  Modules = {"a", "b", "c", "d", "s", "n/b"}
  Files <- MCFiles
  Stem <- MCStem
  Resolve <- MCResolve
  Texts <- SessionTexts
  NoFile = NoFile
  Torn = Torn
  Imports <- MCImports
  IllTyped = {"aIll", "sIll"}
  Faulty = {"aThrows"}
  Edits <- SessionEdits
  InitDisk <- SessionDisk
  Snippets <- SessionSnippets
  Entries <- SessionEntries
SPECIFICATION FairSpec
INVARIANTS
  RequiresAreLoaded
  LoadedIsCoherent
  HitIsCurrent
  EvalRunsItsSource
  SnippetsDeleted
PROPERTY CallsReturn
