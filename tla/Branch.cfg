CONSTANTS
  Nil = Nil
  Endings <- MCEndings
  Names <- MCNames
SPECIFICATION MCSpec
INVARIANTS
  SameClause
  SameBindings
  RunsLikeGleam
  OneForm
  RecurInTail
