CONSTANTS
  delete = delete
  ask = ask
  Uses = {delete, ask}
  HookGated = {delete}
  ToolGated = {ask}
  BatchGated = "first"
  Executors = {"concurrent", "sequential"}
  BreakAt <- SafeYields
  SaveOn = "invocation"
  Resumes = TRUE
SPECIFICATION FairSpec
INVARIANT TypeOK
INVARIANT PairedHistory
INVARIANT ResultsAreReal
INVARIANT AppendedOnce
INVARIANT InterruptedCanResume
INVARIANT RunOnce
INVARIANT GatedToolsWaitWhileRead
PROPERTY CancelEnds
