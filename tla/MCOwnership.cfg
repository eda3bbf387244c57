CONSTANTS
  Locals = {"a", "b", "c", "d", "e", "t", "r", "n", "out"}
  References = {"r"}
  Temporaries = {"t"}
  Owning = {"a", "b", "c", "d", "e", "t", "out"}
  Maps = {}
  Dropping = {}
  Parameters = {}
  Result = "out"
  Leaves <- MCLeaves
  Bodies <- MCBodies
  MaxSteps = 26
SPECIFICATION Spec
INVARIANTS NothingEmptyIsUsed NothingLeaks HoldersAreTracked ErrorsAreOnPaths
CHECK_DEADLOCK FALSE
