CONSTANTS
  Inputs <- MCInputs
  ProjectOf <- MCProjectOf
  Libraries = {1, 2}
  Before <- MCBefore
  Language <- MCLanguage
  Pool <- MCPool
  MaxUses = 3
SPECIFICATION FairSpec
INVARIANTS OrderHasNoPriority MeantFilesAreParsed PrivateStaysPrivate FindingsStand
PROPERTY ResolutionEnds
CHECK_DEADLOCK FALSE
