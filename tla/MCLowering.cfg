CONSTANTS
  Functions <- MCFunctions
  Answers <- MCAnswers
  MaxInt = 3
SPECIFICATION Spec
INVARIANT BodiesAreValid
INVARIANT SameEvents
INVARIANT StackKeepsSmall
CHECK_DEADLOCK FALSE
