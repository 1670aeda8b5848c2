CONSTANTS
  a = a
  b = b
  c = c
  d = d
  e = e
  Nodes = {a, b, c, d}
  Edges <- JoinAndBranch
  Conditional <- NoEdges
  Sources <- TwoSources
  MaxConcurrency = 2
  MaxSteps = 6
  Outcomes <- SourceInterrupts
  Gates <- MayPass
  TimesOut = {}
  CanAbort = TRUE
  CanBreak = FALSE
SPECIFICATION FairSpec
CHECK_DEADLOCK FALSE
PROPERTY InvocationEnds
