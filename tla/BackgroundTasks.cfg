CONSTANTS
  search = search
  ask = ask
  Tasks = {search, ask}
  MaxConcurrency = 1
  Asking = {ask}
  WaitForCompletion = TRUE
  MaxMicro = 2
SPECIFICATION Spec
INVARIANT TypeOK
INVARIANT DeliveredOnce
INVARIANT NothingForgotten
INVARIANT WaitsForKnownTasks
INVARIANT AskedWhileWaiting
INVARIANT NothingOwedAtEnd
PROPERTY CancelEndsWaiting
PROPERTY WaitEnds
