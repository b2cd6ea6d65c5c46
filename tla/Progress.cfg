SPECIFICATION FairSpec
CONSTANTS
  Flow <- DelayFlow
  TargetStatus = "EM_EXECUCAO"
  Presses <- Actions
  Trigger = {"OFERTADA"}
  TimeoutAction = "cancel"
  Schema = "public"
  Handlers <- ProgressHandlers
  DeskStatus <- ProgressMoves
  Task = {t1, t2}
  MayFail = FALSE
  MaxRuns = 2
  MaxCrashes = 0
  MaxRollbacks = 0
INVARIANTS DelayContinues
PROPERTIES WaitEnds
CHECK_DEADLOCK FALSE
