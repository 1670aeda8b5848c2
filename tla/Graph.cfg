CONSTANTS
  a = a
  b = b
  c = c
  d = d
  e = e
  Nodes = {a, b, c, d, e}
  Edges <- ForkAndJoin
  Conditional <- IntoE
  Sources <- ThreeSources
  MaxConcurrency = 2
  MaxSteps = 6
  Outcomes <- Mixed
  Gates <- SomeGated
  TimesOut = {a}
  CanAbort = TRUE
  CanBreak = TRUE
SPECIFICATION FairSpec
CHECK_DEADLOCK FALSE
INVARIANT TypeOK
INVARIANT NoOrphanedExecution
INVARIANT ResultsComplete
INVARIANT ExecutedOnce
INVARIANT FreshDownstreamRuns
PROPERTY DependenciesFirst
PROPERTY EndsUnlessStopped
