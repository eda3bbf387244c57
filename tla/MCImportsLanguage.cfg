CONSTANTS
  Inputs <- MCInputs
  ProjectOf <- MCProjectOf
  Libraries = {1, 2}
  Before <- MCBefore
  Language <- MCLanguage
  Pool <- MCLanguagePool
  MaxUses = 3
SPECIFICATION FairSpec
INVARIANT OrderHasNoPriority
CHECK_DEADLOCK FALSE
