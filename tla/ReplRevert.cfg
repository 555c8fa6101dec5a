CONSTANTS
  Threads = {t1}
  Modules = {"a"}
  Files <- MCFiles
  Stem <- MCStem
  Resolve <- MCResolve
  Texts <- RevertTexts
  NoFile = NoFile
  Torn = Torn
  Imports <- MCImports
  IllTyped = {}
  Faulty = {}
  Edits <- RevertEdits
  InitDisk <- RevertDisk
  Snippets <- NoSnippets
  Entries <- RevertEntries
SPECIFICATION Spec
INVARIANT HitIsCurrent
