CONSTANTS
  Inputs <- MCInputs
  ProjectOf <- MCProjectOf
  Libraries = {1, 2}
  Before <- MCBefore
  Language <- MCLanguage
  Pool <- MCGroupPool
  MaxUses = 3
SPECIFICATION FairSpec
INVARIANT MeantFilesAreParsed
CHECK_DEADLOCK FALSE
