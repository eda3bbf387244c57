CONSTANTS
  Locals = {"xs", "m", "i", "j", "t", "u", "v", "z", "n", "r", "q", "w", "a", "c", "p", "out"}
  References = {"r", "q", "w", "a", "c", "p", "out"}
  Temporaries = {"t", "u", "v", "z", "a", "c", "out"}
  Owning = {"xs", "m"}
  Maps = {"m"}
  Dropping = {}
  Parameters = {"xs", "m", "i", "j", "p"}
  Result = "out"
  Numbers = {"i", "j", "t", "u", "v", "z"}
  Number = {0, 1}
  Inputs <- MCInputs
  Caller = "caller"
  Bodies <- MCBodies
  MaxSteps = 40
SPECIFICATION Spec
INVARIANTS NothingSpoiledIsUsed ArgumentsApart KnownIsTrue ReturnedPointsOutside PanicsAreReal
CHECK_DEADLOCK FALSE
