CONSTANTS
  N = 3
  OtherKind = 0
  Projects <- MCProjects
  References <- MCReferences
  NoReference <- MCNoReference
  Graphs <- MCGraphs
SPECIFICATION PrepareSpec
INVARIANTS AcceptsOnlyAcyclic VerdictRight DiagnosticFollowsCycle
PROPERTY Decides
CHECK_DEADLOCK FALSE
