CONSTANTS
  Blocks = {0, 1, 2, 3}
  First = 0
  Locals = {"x", "y"}
  States <- MCStates
  None <- MCNone
  EntryState <- MCEntry
  JoinAll <- UnionAndCommon
  Effects <- MCEffects
  Apply <- AddRemove
  Below <- MayAndMust
  Graphs <- MCGraphs
  Bodies <- MCBodies
SPECIFICATION DataflowSpec
INVARIANTS OrderIsReachable OrderFollowsEdges Solved MostPrecise LiveSolved LiveIsUsed UnreadIsNeverRead
PROPERTY AnalysesEnd
CHECK_DEADLOCK FALSE
