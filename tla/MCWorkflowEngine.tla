-------------------------- MODULE MCWorkflowEngine --------------------------
(* Instances of WorkflowEngine for TLC: the template and the environment of *)
(* each run.                                                                *)
EXTENDS WorkflowEngine, TLC

(* A wait between two actions, with a system block behind it; the first run *)
(* has a delay left to a timer before.                                      *)
TimedWaitFlow == <<"LONG_DELAY", "NOTIFY", "ACTION", "WAIT_FOR", "STATUS", "ACTION">>
WaitFlow == <<"NOTIFY", "ACTION", "WAIT_FOR", "STATUS", "ACTION">>

(* A delay the request sleeps through, among system blocks, and two waits: *)
(* a start passes over the first, the technician's advance stops at both.  *)
DelayFlow == <<"NOTIFY", "DELAY", "STATUS", "WAIT_FOR", "NOTIFY", "ACTION", "WAIT_FOR", "ACTION">>

Actions == {"ACTION"}
TechnicianAndClock == {"advance", "expire"}
ProgressHandlers == {"advance", "position", "expire", "reassign"}
AllButReassign == {"advance", "expire", "assign"}

DeskMoves == {"OFERTADA", "EM_EXECUCAO", "CONCLUIDA", "CANCELADA"}
ToExecution == {"ATRIBUIDA", "EM_EXECUCAO"}
ProgressMoves == {"OFERTADA", "RECUSADA", "CANCELADA"}

TaskSymmetry == Permutations(Task)
=============================================================================
