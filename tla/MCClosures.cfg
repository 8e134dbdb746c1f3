\* Two texts of at most six tokens in all.
CONSTANTS
  fname = fname
  xname = xname
  None = None
  Names <- MCNames
  Builtins <- MCBuiltins
  Known <- MCKnown
  ArgLists <- MCArgLists
  MaxTexts = 2
  MaxTokens = 6
  MaxNested = 2
SPECIFICATION Spec
INVARIANTS
  WordsMean
  GlobalsMean
CHECK_DEADLOCK FALSE
