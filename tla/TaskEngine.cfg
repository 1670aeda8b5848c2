\* Three tasks compete for two slots, with timeouts; fair, so no symmetry.
SPECIFICATION FairSpec
CONSTANTS
  Tasks = {t1, t2, t3}
  Interrupts = {i1, i2}
  Waiters = {w1}
  MaxConcurrency = 2
  HasTimeout = TRUE
INVARIANTS
  TypeOK
  PhysicalBound
  WorkConserving
  NoStrandedTask
  DisownedToolsAreAborted
  NoLostWakeup
PROPERTIES
  TerminalIsFinal
  ImplementsPool
  QueuedEventuallyStarts
