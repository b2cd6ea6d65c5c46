SPECIFICATION FairSpec
CONSTANTS
  Flow <- WaitFlow
  TargetStatus = "EM_EXECUCAO"
  Presses <- Actions
  Trigger = {}
  TimeoutAction = "continue"
  Schema = "tenant"
  Handlers <- TechnicianAndClock
  DeskStatus <- ToExecution
  Task = {t1}
  MayFail = FALSE
  MaxRuns = 1
  MaxCrashes = 0
  MaxRollbacks = 0
PROPERTIES WaitEnds
CHECK_DEADLOCK FALSE
