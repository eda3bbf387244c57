CONSTANTS
  Functions <- MCFunctions
  Answers <- MCAnswers
  MaxInt = 3
SPECIFICATION Spec
INVARIANT TailCallsDoNotGrow
CHECK_DEADLOCK FALSE
