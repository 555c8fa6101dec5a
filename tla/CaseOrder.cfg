CONSTANTS
  Nil = Nil
  Endings <- MCEndings
  Names <- MCNames
SPECIFICATION MCSpec
INVARIANT
  ShadowsComeLast
