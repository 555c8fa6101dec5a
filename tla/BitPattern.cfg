CONSTANTS
  Patterns <- MCPatterns
  Subjects <- MCSubjects
  Outer <- MCOuter
  Base = 3
  Crash = Crash
SPECIFICATION Spec
INVARIANTS
  AgreesWithGleam
  CrashHasACause
