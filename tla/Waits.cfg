SPECIFICATION Spec
CONSTANTS
  Flow <- TimedWaitFlow
  TargetStatus = "EM_EXECUCAO"
  Presses <- Actions
  Trigger = {"EM_EXECUCAO", "assigned"}
  TimeoutAction = "continue"
  Schema = "public"
  Handlers <- AllButReassign
  DeskStatus <- DeskMoves
  Task = {t1, t2, t3}
  MayFail = TRUE
  MaxRuns = 1
  MaxCrashes = 1
  MaxRollbacks = 1
SYMMETRY TaskSymmetry
INVARIANTS WorkflowTypeOK WaitsRespected StepsContiguous DoneOnce
PROPERTIES ResolvedOnce
CHECK_DEADLOCK FALSE
