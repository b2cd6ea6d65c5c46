--------------------------- MODULE WorkflowEngine ---------------------------
(***************************************************************************)
(* The workflow of one service order: the engine that walks the blocks of  *)
(* its template (workflow-engine.service.ts) and the waits that suspend    *)
(* and resume it (wait-for.service.ts).  Requests, timers, events and cron *)
(* calls run as concurrent tasks; an action is what a task does between    *)
(* two awaits.  A transaction's own rows stay in the task until it         *)
(* commits, while the effects of system blocks, written on a connection of *)
(* their own, are seen at once and survive a rollback.                     *)
(***************************************************************************)
EXTENDS OrderStatus, Integers, Sequences, FiniteSetsExt

CONSTANTS
  Flow,            \* the kinds of the template's blocks in order, START and END left out
  TargetStatus,    \* the status its STATUS blocks write
  Presses,         \* the kinds of block the technician's client submits
  Trigger,         \* the events that resolve a wait early: statuses, and "assigned"
  TimeoutAction,   \* "continue" or "cancel"
  Schema,          \* where the order's rows live: "public" or "tenant"
  Handlers,        \* what the desk, the technician's position and the clock do in a run
  DeskStatus,      \* the statuses the desk asks for
  Task,            \* slots for concurrent asynchronous work
  MayFail,         \* whether the write of a system block may fail
  MaxRuns, MaxCrashes, MaxRollbacks

VARIABLES
  status,      \* ServiceOrder.status
  entered,     \* ServiceOrder.proximityEnteredAt is set
  logs,        \* WorkflowStepLog by its unique stepOrder
  waits,       \* PendingWorkflowWait, in order of creation
  tasks,       \* the asynchronous work in flight
  run,         \* how often the workflow was started from scratch
  performed,   \* how often each block was executed since then
  crashes,     \* restarts of the process so far
  rollbacks    \* transactions rolled back so far, but for a taken step order

vars == <<status, entered, logs, waits, tasks, run, performed, crashes, rollbacks>>

Kind == {"ACTION", "NOTIFY", "STATUS", "DELAY", "LONG_DELAY", "WAIT_FOR"}

ASSUME FlowAssumption == Flow \in Seq(Kind) /\ TargetStatus \in Status
ASSUME BoundAssumption == MaxRuns \in Nat \ {0} /\ MaxCrashes \in Nat /\ MaxRollbacks \in Nat

Block == 1..Len(Flow)
KindOf(b) == IF b \in Block THEN Flow[b] ELSE "END"

(* Where a walk over system blocks ends: END or an actionable block. *)
Halts(b) == KindOf(b) \in {"ACTION", "END"}

StepLog(b, waiting) == [block |-> b, waiting |-> waiting]

(* Rows with more of them; a step order that is taken keeps its row.       *)
With(rows, more) ==
  [k \in DOMAIN rows \cup DOMAIN more |-> IF k \in DOMAIN rows THEN rows[k] ELSE more[k]]
Row(k, b, waiting) == [j \in {k} |-> StepLog(b, waiting)]

Idle == [op |-> "none", pc |-> "idle", block |-> 0, order |-> 0, own |-> <<>>,
         promote |-> FALSE, wait |-> 0, todo |-> {}]

Start == [Idle EXCEPT !.op = "start", !.pc = "walk", !.block = 1]

(* Task t goes to pc, with the other changes already made to its record. *)
Goto(t, rec, pc) == tasks' = [tasks EXCEPT ![t] = [rec EXCEPT !.pc = pc]]
End(t) == tasks' = [tasks EXCEPT ![t] = Idle]

(* A unique key that another task inserted and has not committed yet. *)
Held(t, k) == \E u \in Task \ {t} : k \in DOMAIN tasks[u].own

(***************************************************************************)
(* getProgressV2: the last log of a block decides, an actionable block     *)
(* stops until it has one, a WAIT_FOR only while its log is waiting; other *)
(* system blocks count as passed, logged or not.                           *)
(***************************************************************************)
LogsOf(b) == {k \in DOMAIN logs : logs[k].block = b}

(* Mutant: the case of a pending WAIT_FOR forgotten. *)
StopsAtActionsOnly(b) == KindOf(b) = "ACTION" /\ LogsOf(b) = {}

Stops(b) ==
  \/ KindOf(b) = "ACTION" /\ LogsOf(b) = {}
  \/ KindOf(b) = "WAIT_FOR" /\ LogsOf(b) # {} /\ logs[Max(LogsOf(b))].waiting

Complete == \A b \in Block : ~Stops(b)
CurrentBlock == IF Complete THEN Len(Flow) + 1 ELSE Min({b \in Block : Stops(b)})

(* executeSystemBlock, with its own connection.  Only STATUS writes the    *)
(* order; DELAY and WAIT_FOR have no case there and return.                *)
ExecuteSystemBlock(b) ==
  /\ status' = IF KindOf(b) = "STATUS" THEN TargetStatus ELSE status
  /\ performed' = [performed EXCEPT ![b] = @ + 1]

(* The same when its write fails. *)
SystemBlockFails == MayFail /\ UNCHANGED <<status, performed>>

(***************************************************************************)
(* executeWorkflowFromStart: no transaction, each log by itself, every     *)
(* error swallowed.                                                        *)
(***************************************************************************)
FromStart(t) ==
  LET me == tasks[t]
      next == [me EXCEPT !.block = @ + 1]
  IN
  /\ me.op = "start" /\ me.pc = "walk"
  /\ \/ Halts(me.block) /\ End(t) /\ UNCHANGED <<status, performed>>
     \/ /\ KindOf(me.block) \in {"NOTIFY", "STATUS"}
        /\ \/ ExecuteSystemBlock(me.block) /\ Goto(t, me, "log")
           \/ SystemBlockFails /\ Goto(t, next, "walk")
     \/ KindOf(me.block) = "DELAY" /\ Goto(t, me, "sleep") /\ UNCHANGED <<status, performed>>
     \/ /\ KindOf(me.block) = "LONG_DELAY"
        /\ Goto(t, [next EXCEPT !.op = "timer"], "sleep")
        /\ UNCHANGED <<status, performed>>
     \/ KindOf(me.block) = "WAIT_FOR" /\ Goto(t, me, "log") /\ UNCHANGED <<status, performed>>
  /\ UNCHANGED <<entered, logs, waits, run, crashes, rollbacks>>

(* The sleep inside a request ends, or the timer of a long delay fires. *)
Wake(t) ==
  /\ tasks[t].pc = "sleep"
  /\ Goto(t, tasks[t], IF tasks[t].op = "timer" THEN "walk" ELSE "log")
  /\ UNCHANGED <<status, entered, logs, waits, run, performed, crashes, rollbacks>>

(* Mutant: the first conflict ends the walk, as in the timer's callback. *)
LogFromStartOrEnd(t) ==
  LET me == tasks[t]
      k == me.order + 1
  IN
  /\ me.op = "start" /\ me.pc = "log" /\ ~Held(t, k)
  /\ logs' = With(logs, Row(k, me.block, FALSE))
  /\ IF k \in DOMAIN logs THEN End(t)
     ELSE Goto(t, [me EXCEPT !.order = k, !.block = @ + 1], "walk")
  /\ UNCHANGED <<status, entered, waits, run, performed, crashes, rollbacks>>

LogFromStart(t) ==
  LET me == tasks[t]
      k == me.order + 1
  IN
  /\ me.op = "start" /\ me.pc = "log" /\ ~Held(t, k)
  /\ logs' = With(logs, Row(k, me.block, FALSE))
  /\ Goto(t, [me EXCEPT !.order = k, !.block = @ + 1], "walk")
  /\ UNCHANGED <<status, entered, waits, run, performed, crashes, rollbacks>>

(* The callback of a long delay: it leaves at the first failure, and every *)
(* log it writes has the step order after the last one before the delay.   *)
Timer(t) ==
  LET me == tasks[t] IN
  /\ me.op = "timer" /\ me.pc = "walk"
  /\ \/ Halts(me.block) /\ End(t) /\ UNCHANGED <<status, performed>>
     \/ ~Halts(me.block) /\ ExecuteSystemBlock(me.block) /\ Goto(t, me, "log")
     \/ KindOf(me.block) \in {"NOTIFY", "STATUS"} /\ SystemBlockFails /\ End(t)
  /\ UNCHANGED <<entered, logs, waits, run, crashes, rollbacks>>

LogTimer(t) ==
  LET me == tasks[t]
      k == me.order + 1
  IN
  /\ me.op = "timer" /\ me.pc = "log" /\ ~Held(t, k)
  /\ logs' = With(logs, Row(k, me.block, FALSE))
  /\ IF k \in DOMAIN logs THEN End(t) ELSE Goto(t, [me EXCEPT !.block = @ + 1], "walk")
  /\ UNCHANGED <<status, entered, waits, run, performed, crashes, rollbacks>>

(***************************************************************************)
(* advanceStep and advanceBlockV2: the block and the step order come from  *)
(* a read made before the transaction.                                     *)
(***************************************************************************)
Advanceable ==
  status \in {"OFERTADA", "ATRIBUIDA", "A_CAMINHO", "EM_EXECUCAO", "AJUSTE"} /\ ~Complete

(* Mutant: the step order one too high. *)
NextStepOrderPlusOne == Cardinality(DOMAIN logs) + 2

NextStepOrder == Cardinality(DOMAIN logs) + 1

Advancing ==
  [Idle EXCEPT !.op = "advance", !.pc = "first", !.block = CurrentBlock,
               !.order = NextStepOrder,
               !.promote = /\ status \in {"ATRIBUIDA", "AJUSTE"}
                           /\ \A b \in Block : KindOf(b) # "STATUS"]

AdvanceStep(t) ==
  /\ "advance" \in Handlers
  /\ tasks[t] = Idle /\ Advanceable /\ KindOf(CurrentBlock) \in Presses
  /\ tasks' = [tasks EXCEPT ![t] = Advancing]
  /\ UNCHANGED <<status, entered, logs, waits, run, performed, crashes, rollbacks>>

(* submitPosition inside the radius for the first time: it advances        *)
(* without naming a block.                                                 *)
SubmitPosition(t) ==
  /\ "position" \in Handlers
  /\ tasks[t] = Idle /\ ~entered /\ status # "CANCELADA"
  /\ entered' = TRUE
  /\ tasks' = IF Advanceable THEN [tasks EXCEPT ![t] = Advancing] ELSE tasks
  /\ UNCHANGED <<status, logs, waits, run, performed, crashes, rollbacks>>

(***************************************************************************)
(* The transaction of an advance or of a resumed wait: the block's log,    *)
(* then the system blocks that follow, up to an actionable block, the end  *)
(* or a WAIT_FOR, which it logs as waiting.                                *)
(***************************************************************************)
InTransaction(t) == tasks[t].op \in {"advance", "event", "timeout"}

(* advance answers with an error; resumeWorkflow catches it and goes on    *)
(* with the next wait.                                                     *)
Return(t) ==
  IF tasks[t].op = "advance" THEN End(t)
  ELSE Goto(t, [tasks[t] EXCEPT !.own = <<>>], "next")

WalkBlocks(t) ==
  LET me == tasks[t]
      insert == [me EXCEPT !.order = @ + 1]
  IN
  /\ InTransaction(t) /\ me.pc = "walk"
  /\ \/ Halts(me.block) /\ Goto(t, me, "commit") /\ UNCHANGED <<status, performed>>
     \/ /\ KindOf(me.block) = "WAIT_FOR"
        /\ Goto(t, insert, "wait") /\ UNCHANGED <<status, performed>>
     \/ /\ ~Halts(me.block) /\ KindOf(me.block) # "WAIT_FOR"
        /\ ExecuteSystemBlock(me.block) \/ SystemBlockFails
        /\ Goto(t, insert, "insert")
  /\ UNCHANGED <<entered, logs, waits, run, crashes, rollbacks>>

InsertLog(t) ==
  LET me == tasks[t]
      row == Row(me.order, me.block, me.pc = "wait")
  IN
  /\ me.pc \in {"first", "insert", "wait"}
  /\ me.order \notin DOMAIN logs /\ ~Held(t, me.order)
  /\ IF me.pc = "wait"
     THEN Goto(t, [me EXCEPT !.own = With(@, row)], "commit")
     ELSE Goto(t, [me EXCEPT !.own = With(@, row), !.block = @ + 1], "walk")
  /\ performed' = IF me.pc = "first" THEN [performed EXCEPT ![me.block] = @ + 1]
                  ELSE performed
  /\ UNCHANGED <<status, entered, logs, waits, run, crashes, rollbacks>>

(* The unique index refuses the step order, or the transaction times out   *)
(* on a row another one holds.                                             *)
Abort(t) ==
  /\ tasks[t].pc \in {"first", "insert", "wait"}
  /\ tasks[t].order \in DOMAIN logs \/ Held(t, tasks[t].order)
  /\ Return(t)
  /\ UNCHANGED <<status, entered, logs, waits, run, performed, crashes, rollbacks>>

(* One of its queries fails, or comes after the five seconds Prisma gives  *)
(* a transaction: nothing of it is kept but what its system blocks did.    *)
RolledBack == rollbacks < MaxRollbacks /\ rollbacks' = rollbacks + 1

Rollback(t) ==
  /\ InTransaction(t) /\ tasks[t].pc \in {"first", "walk", "insert", "wait", "commit"}
  /\ RolledBack /\ Return(t)
  /\ UNCHANGED <<status, entered, logs, waits, run, performed, crashes>>

(* Those seconds end while a system block runs: the rows are gone at once, *)
(* and the block goes on, to find the transaction closed.                  *)
TimeOut(t) ==
  LET me == tasks[t] IN
  /\ InTransaction(t) /\ me.pc = "walk" /\ ~Halts(me.block) /\ KindOf(me.block) # "WAIT_FOR"
  /\ RolledBack /\ Goto(t, [me EXCEPT !.own = <<>>], "late")
  /\ UNCHANGED <<status, entered, logs, waits, run, performed, crashes>>

FinishLate(t) ==
  /\ tasks[t].pc = "late"
  /\ ExecuteSystemBlock(tasks[t].block) \/ SystemBlockFails
  /\ Return(t)
  /\ UNCHANGED <<entered, logs, waits, run, crashes, rollbacks>>

CommitLogs(t) ==
  LET me == tasks[t]
      waiting == {k \in DOMAIN me.own : me.own[k].waiting}
      NewWait(k) == [block |-> me.own[k].block, status |-> "WAITING", order |-> k,
                     expired |-> FALSE, run |-> run]
  IN
  /\ me.pc = "commit"
  /\ logs' = With(me.own, logs)
  /\ waits' = IF waiting = {} THEN waits ELSE Append(waits, NewWait(Max(waiting)))
  /\ status' = IF me.promote THEN "EM_EXECUCAO" ELSE status
  /\ Goto(t, [me EXCEPT !.own = <<>>], "progress")
  /\ UNCHANGED <<entered, run, performed, crashes, rollbacks>>

ReadProgress(t) ==
  /\ tasks[t].pc = "progress"
  /\ IF Complete /\ status \notin {"CONCLUIDA", "APROVADA", "RECUSADA", "CANCELADA"}
     THEN Goto(t, tasks[t], "conclude")
     ELSE Return(t)
  /\ UNCHANGED <<status, entered, logs, waits, run, performed, crashes, rollbacks>>

Conclude(t) ==
  /\ tasks[t].pc = "conclude"
  /\ status' = "CONCLUIDA"
  /\ Return(t)
  /\ UNCHANGED <<entered, logs, waits, run, performed, crashes, rollbacks>>

(***************************************************************************)
(* wait-for.service.ts                                                     *)
(***************************************************************************)
Waiting == {i \in DOMAIN waits : waits[i].status = "WAITING"}

(* Mutant: the comparison with expiresAt turned round. *)
NotYetExpired == {i \in Waiting : ~waits[i].expired}

Expired == {i \in Waiting : waits[i].expired}

(* expiresAt passes. *)
Expire ==
  /\ "expire" \in Handlers
  /\ \E i \in Waiting : ~waits[i].expired /\ waits' = [waits EXCEPT ![i].expired = TRUE]
  /\ UNCHANGED <<status, entered, logs, tasks, run, performed, crashes, rollbacks>>

(* The cron runs without a tenant, so its queries go to the public schema. *)
HandleExpiredWaits(t) ==
  /\ "expire" \in Handlers
  /\ tasks[t] = Idle /\ Schema = "public" /\ Expired # {}
  /\ Goto(t, [Idle EXCEPT !.op = "timeout", !.todo = Expired], "next")
  /\ UNCHANGED <<status, entered, logs, waits, run, performed, crashes, rollbacks>>

(* Mutant: the condition on WAITING dropped. *)
CancelEveryWait(t) ==
  /\ tasks[t].op = "cancelled"
  /\ waits' = [i \in DOMAIN waits |-> [waits[i] EXCEPT !.status = "CANCELLED"]]
  /\ End(t)
  /\ UNCHANGED <<status, entered, logs, run, performed, crashes, rollbacks>>

(* checkEarlyTrigger of a cancelled order. *)
CancelWaits(t) ==
  /\ tasks[t].op = "cancelled"
  /\ waits' = [i \in DOMAIN waits |->
                IF i \in Waiting THEN [waits[i] EXCEPT !.status = "CANCELLED"] ELSE waits[i]]
  /\ End(t)
  /\ UNCHANGED <<status, entered, logs, run, performed, crashes, rollbacks>>

(* checkEarlyTrigger of an event the waits listen to. *)
CheckEarlyTrigger(t) ==
  /\ tasks[t].op = "event" /\ tasks[t].pc = "find"
  /\ Goto(t, [tasks[t] EXCEPT !.todo = Waiting], "next")
  /\ UNCHANGED <<status, entered, logs, waits, run, performed, crashes, rollbacks>>

(* Mutant: the wait resolved without looking at its status again. *)
ResolveWaitUnconditionally(t) ==
  LET me == tasks[t]
      i == Min(me.todo)
  IN
  /\ me.pc = "next" /\ me.todo # {}
  /\ waits' = [waits EXCEPT ![i].status = IF me.op = "timeout" THEN "EXPIRED" ELSE "TRIGGERED"]
  /\ Goto(t, [me EXCEPT !.wait = i, !.todo = @ \ {i}], "note")
  /\ UNCHANGED <<status, entered, logs, run, performed, crashes, rollbacks>>

(* The next wait of the list is resolved if it is still WAITING. *)
ResolveWait(t) ==
  LET me == tasks[t]
      i == Min(me.todo)
      rest == [me EXCEPT !.wait = i, !.todo = @ \ {i}]
  IN
  /\ me.pc = "next" /\ me.todo # {}
  /\ IF i \in Waiting
     THEN /\ waits' = [waits EXCEPT ![i].status =
                         IF me.op = "timeout" THEN "EXPIRED" ELSE "TRIGGERED"]
          /\ Goto(t, rest, "note")
     ELSE UNCHANGED waits /\ Goto(t, rest, "next")
  /\ UNCHANGED <<status, entered, logs, run, performed, crashes, rollbacks>>

NoMoreWaits(t) ==
  /\ tasks[t].pc = "next" /\ tasks[t].todo = {}
  /\ End(t)
  /\ UNCHANGED <<status, entered, logs, waits, run, performed, crashes, rollbacks>>

(* logWaitResolution; a timeout with action "cancel" is not resumed. *)
LogWaitResolution(t) ==
  LET me == tasks[t] IN
  /\ me.pc = "note"
  /\ logs' = [k \in DOMAIN logs |->
               IF logs[k].block = waits[me.wait].block
               THEN [logs[k] EXCEPT !.waiting = FALSE] ELSE logs[k]]
  /\ Goto(t, me, IF me.op = "timeout" /\ TimeoutAction = "cancel" THEN "next" ELSE "resume")
  /\ UNCHANGED <<status, entered, waits, run, performed, crashes, rollbacks>>

(* Mutant: resumed at the WAIT_FOR itself, not at the block behind it. *)
ResumeFromWait(t) ==
  LET me == tasks[t] IN
  /\ me.pc = "resume"
  /\ Goto(t, [me EXCEPT !.block = waits[me.wait].block, !.order = Max(DOMAIN logs)], "walk")
  /\ UNCHANGED <<status, entered, logs, waits, run, performed, crashes, rollbacks>>

(* resumeFromBlock up to its transaction: neither the order's status nor   *)
(* its progress is looked at.                                              *)
ResumeFromBlock(t) ==
  LET me == tasks[t]
      lastStepOrder == IF DOMAIN logs = {} THEN waits[me.wait].order ELSE Max(DOMAIN logs)
  IN
  /\ me.pc = "resume"
  /\ Goto(t, [me EXCEPT !.block = waits[me.wait].block + 1, !.order = lastStepOrder], "walk")
  /\ UNCHANGED <<status, entered, logs, waits, run, performed, crashes, rollbacks>>

(***************************************************************************)
(* The desk.  Its handlers' own races are those of module ServiceOrder;    *)
(* here a handler is one step, followed by its event in a task of its own. *)
(***************************************************************************)
Event(name) ==
  CASE name = "CANCELADA" -> [Idle EXCEPT !.op = "cancelled", !.pc = "find"]
    [] name \in Trigger \ {"CANCELADA"} -> [Idle EXCEPT !.op = "event", !.pc = "find"]
    [] OTHER -> Idle

UpdateStatus(t) ==
  /\ tasks[t] = Idle
  /\ \E s \in DeskStatus \cap ALLOWED_TRANSITIONS[status] :
       status' = s /\ tasks' = [tasks EXCEPT ![t] = Event(s)]
  /\ UNCHANGED <<entered, logs, waits, run, performed, crashes, rollbacks>>

Assign(t) ==
  /\ "assign" \in Handlers
  /\ tasks[t] = Idle /\ status \notin TERMINAL_STATUSES
  /\ status' = "ATRIBUIDA"
  /\ tasks' = [tasks EXCEPT ![t] = Event("assigned")]
  /\ UNCHANGED <<entered, logs, waits, run, performed, crashes, rollbacks>>

(* reassign of a refused order: the logs are deleted and the workflow      *)
(* starts again; the waits and proximityEnteredAt stay.                    *)
Reassign(t) ==
  /\ "reassign" \in Handlers
  /\ tasks[t] = Idle /\ status = "RECUSADA" /\ run < MaxRuns
  /\ status' = "ABERTA" /\ logs' = <<>>
  /\ tasks' = [tasks EXCEPT ![t] = Start]
  /\ run' = run + 1 /\ performed' = [b \in Block |-> 0]
  /\ UNCHANGED <<entered, waits, crashes, rollbacks>>

(* The process restarts: whatever was in flight, timers included, is gone. *)
Crash ==
  /\ crashes < MaxCrashes
  /\ crashes' = crashes + 1 /\ tasks' = [t \in Task |-> Idle]
  /\ UNCHANGED <<status, entered, logs, waits, run, performed, rollbacks>>

-----------------------------------------------------------------------------
(* create, which starts the workflow in the background. *)
Init ==
  /\ status = "ABERTA" /\ entered = FALSE
  /\ logs = <<>> /\ waits = <<>>
  /\ \E t \in Task : tasks = [u \in Task |-> IF u = t THEN Start ELSE Idle]
  /\ run = 1 /\ performed = [b \in Block |-> 0] /\ crashes = 0 /\ rollbacks = 0

(* What a task does once started. *)
Continue(t) ==
  \/ FromStart(t) \/ Wake(t) \/ LogFromStart(t) \/ Timer(t) \/ LogTimer(t)
  \/ WalkBlocks(t) \/ InsertLog(t) \/ Abort(t) \/ FinishLate(t) \/ CommitLogs(t)
  \/ ReadProgress(t) \/ Conclude(t)
  \/ CancelWaits(t) \/ CheckEarlyTrigger(t) \/ ResolveWait(t) \/ NoMoreWaits(t)
  \/ LogWaitResolution(t) \/ ResumeFromBlock(t)

Next ==
  \/ \E t \in Task :
       \/ Continue(t) \/ Rollback(t) \/ TimeOut(t)
       \/ AdvanceStep(t) \/ SubmitPosition(t) \/ HandleExpiredWaits(t)
       \/ UpdateStatus(t) \/ Assign(t) \/ Reassign(t)
  \/ Expire \/ Crash

Spec == Init /\ [][Next]_vars

(* A started task goes on, time passes, and the cron is called every minute. *)
Fairness ==
  /\ \A t \in Task : WF_vars(Continue(t))
  /\ WF_vars(Expire)
  /\ SF_vars(\E t \in Task : HandleExpiredWaits(t))

FairSpec == Spec /\ Fairness

-----------------------------------------------------------------------------
OpName == {"none", "start", "timer", "advance", "event", "timeout", "cancelled"}
PcName == {"idle", "walk", "sleep", "log", "first", "insert", "wait", "late", "commit", "progress",
           "conclude", "find", "next", "note", "resume"}

(* The variables keep their types, and no run logs more steps than the     *)
(* flow has blocks.                                                        *)
WorkflowTypeOK ==
  /\ status \in Status /\ entered \in BOOLEAN
  /\ DOMAIN logs \subseteq Block
  /\ \A k \in DOMAIN logs : logs[k] \in [block : Block, waiting : BOOLEAN]
  /\ Len(waits) <= MaxRuns * Cardinality({b \in Block : KindOf(b) = "WAIT_FOR"})
  /\ waits \in Seq([block : Block, order : Nat, expired : BOOLEAN, run : 1..MaxRuns,
                    status : {"WAITING", "TRIGGERED", "EXPIRED", "CANCELLED"}])
  /\ \A t \in Task : /\ tasks[t].op \in OpName /\ tasks[t].pc \in PcName
                     /\ tasks[t].order \in Nat /\ tasks[t].block \in 0..(Len(Flow) + 1)
                     /\ tasks[t].todo \subseteq DOMAIN waits
  /\ performed \in [Block -> Nat] /\ run \in 1..MaxRuns
  /\ crashes \in 0..MaxCrashes /\ rollbacks \in 0..MaxRollbacks

(* A block after a WAIT_FOR is logged only once a wait of that block, begun *)
(* in the same run of the workflow, is over: what WAIT_FOR is for.          *)
WaitsRespected ==
  \A k \in DOMAIN logs : \A b \in 1..(logs[k].block - 1) : KindOf(b) = "WAIT_FOR" =>
    \E i \in DOMAIN waits :
      waits[i].block = b /\ waits[i].run = run /\ waits[i].status # "WAITING"

(* The step orders are 1, 2, 3...: an advance numbers its step by counting *)
(* the logs, so behind a gap every advance would hit the unique index.     *)
StepsContiguous == DOMAIN logs = 1..Cardinality(DOMAIN logs)

(* However many requests, events and timeouts race, no block is logged     *)
(* twice, and none is executed more often than once and once for each      *)
(* restart and each rollback, which undo a step but not its system blocks. *)
DoneOnce ==
  /\ \A j, k \in DOMAIN logs : logs[j].block = logs[k].block => j = k
  /\ \A b \in Block : performed[b] <= 1 + crashes + rollbacks

(* A wait that is over stays as it ended: an event, a timeout and a        *)
(* cancellation that race for it do not each resolve it.                   *)
ResolvedOnce ==
  [][\A i \in DOMAIN waits : waits[i].status # "WAITING" => waits'[i].status = waits[i].status]_vars

(* Every wait ends, by its event, its cancellation or its timeout. *)
IsWaiting(i) == i \in DOMAIN waits /\ waits[i].status = "WAITING"
WaitEnds ==
  \A i \in 1..(MaxRuns * Cardinality({b \in Block : KindOf(b) = "WAIT_FOR"})) :
    IsWaiting(i) ~> ~IsWaiting(i)

Quiet == \A t \in Task : tasks[t] = Idle

(* When nothing is in flight, the system blocks before the first actionable *)
(* block have been executed: a delay is slept through and the flow goes on, *)
(* even when the technician's own steps take the step orders meanwhile.     *)
DelayContinues ==
  Quiet => \A b \in Block :
    (\A c \in 1..b : KindOf(c) # "ACTION") /\ KindOf(b) \in {"NOTIFY", "STATUS"}
      => performed[b] > 0
=============================================================================
