--------------------------- MODULE WorkflowProofs ---------------------------
(***************************************************************************)
(* Proofs about WorkflowEngine.  TypeInv holds whatever the constants are. *)
(* Without reassign the logs are only appended to, and their step orders   *)
(* serve as the version of the list: who has read it at length n can only  *)
(* add step n + 1, so of all who read the same list one succeeds (Chain).  *)
(* Where only actions are submitted, each block then has one who may walk  *)
(* to it: the start, the advance that logged the action before it, or the  *)
(* task that resolved the wait before it (Once); and where a wait follows  *)
(* an action without another wait between, its block is logged with the    *)
(* action's, and passed when it is over (Respected).  What the start walks *)
(* over is executed or still before it (Reaching), also with reassign.     *)
(* A rolled back transaction hands its walk back: each restart and each    *)
(* rollback makes a block due at most once more, and a block that goes on  *)
(* behind its rolled back transaction is counted as executed (Counts).     *)
(***************************************************************************)
EXTENDS WorkflowEngine, FiniteSetTheorems, TLAPS

----------------------------------------------------------------------------
(* Types *)

WaitStatus == {"WAITING", "TRIGGERED", "EXPIRED", "CANCELLED"}
WaitRow == [block : Block, status : WaitStatus, order : Nat, expired : BOOLEAN, run : 1..MaxRuns]

IsLogs(rows) ==
  /\ \E n \in Nat : DOMAIN rows \subseteq 1..n
  /\ \A k \in DOMAIN rows : rows[k] \in [block : Block, waiting : BOOLEAN]

InTx == {"advance", "event", "timeout"}
Resumes == {"event", "timeout"}
Starts == {"start", "timer"}

(* What a task may be doing.                                               *)
Does(op, pc) ==
  \/ op = "none" /\ pc = "idle"
  \/ op \in Starts /\ pc \in {"walk", "sleep", "log"}
  \/ op = "advance" /\ pc = "first"
  \/ op \in InTx /\ pc \in {"walk", "insert", "wait", "late", "commit", "progress", "conclude"}
  \/ op \in Resumes /\ pc \in {"next", "note", "resume"}
  \/ op \in {"event", "cancelled"} /\ pc = "find"

(* The record of a task with its fields named.                             *)
Rec(op, pc, block, order, own, promote, wait, todo) ==
  [op |-> op, pc |-> pc, block |-> block, order |-> order, own |-> own, promote |-> promote,
   wait |-> wait, todo |-> todo]
At(x, pc, block, order, own) == Rec(x.op, pc, block, order, own, x.promote, x.wait, x.todo)
Here(x, pc) == At(x, pc, x.block, x.order, x.own)
IsRec(x) == x = Rec(x.op, x.pc, x.block, x.order, x.own, x.promote, x.wait, x.todo)

(* A record of a task, as far as it stands alone.                          *)
IsTask(x) ==
  /\ IsRec(x)
  /\ x.op \in OpName /\ Does(x.op, x.pc)
  /\ x.block \in 0..(Len(Flow) + 1) /\ x.order \in Nat
  /\ IsLogs(x.own)
  /\ x.promote \in BOOLEAN
  /\ x.pc \in {"first", "log", "insert", "wait", "late"} \/ (x.op = "start" /\ x.pc = "sleep") => x.block \in Block
  /\ x.pc \in {"insert", "late"} => KindOf(x.block) \notin {"ACTION", "WAIT_FOR"}
  /\ x.pc = "wait" => KindOf(x.block) = "WAIT_FOR"
  /\ x.pc = "log" \/ (x.op = "start" /\ x.pc = "sleep") => KindOf(x.block) # "ACTION"
  /\ x.pc \in {"walk", "sleep"} => x.block >= 1
  /\ x.pc \in {"first", "insert", "wait"} => x.order >= 1
  /\ x.op \notin InTx \/ x.pc \notin {"walk", "insert", "wait", "commit"} => DOMAIN x.own = {}
  /\ \A k \in DOMAIN x.own : x.own[k].waiting =>
       x.pc = "commit" /\ k = x.order /\ KindOf(x.own[k].block) = "WAIT_FOR"

(* With the table of waits it refers to.                                   *)
Refers(x, rows) ==
  /\ x.todo \subseteq DOMAIN rows
  /\ x.op \in Resumes /\ x.pc \in {"note", "resume"} => x.wait \in DOMAIN rows

TypeInv ==
  /\ status \in Status /\ entered \in BOOLEAN
  /\ IsLogs(logs)
  /\ waits \in Seq(WaitRow)
  /\ DOMAIN tasks = Task
  /\ \A t \in Task : IsTask(tasks[t]) /\ Refers(tasks[t], waits)
  /\ performed \in [Block -> Nat] /\ run \in 1..MaxRuns
  /\ crashes \in 0..MaxCrashes /\ rollbacks \in 0..MaxRollbacks

----------------------------------------------------------------------------
(* Without reassign *)

Growing == "reassign" \notin Handlers

Last == Cardinality(DOMAIN logs)

InWalk(x) == x.op \in InTx /\ x.pc \in {"first", "walk", "insert", "wait", "commit"}

(* The step orders a transaction has inserted end here.                    *)
Top(x) == IF x.pc \in {"first", "insert", "wait"} THEN x.order - 1 ELSE x.order

(* ... and follow on a prefix of the logs as long as they were when read.  *)
Chained(x, n) ==
  /\ x.op \in Starts => x.order <= n
  /\ InWalk(x) => \E base \in 0..n : base <= Top(x) /\ DOMAIN x.own = (base + 1)..Top(x)

Chain ==
  /\ DOMAIN logs = 1..Last
  /\ waits # <<>> => Last >= 1
  /\ \A t \in Task : Chained(tasks[t], Last) /\ DOMAIN tasks[t].own \cap DOMAIN logs = {}
  /\ \A t, u \in Task : t # u => DOMAIN tasks[t].own = {} \/ DOMAIN tasks[u].own = {}

----------------------------------------------------------------------------
(* Where only actions are submitted *)

Linear == Growing /\ "position" \notin Handlers /\ Presses \subseteq {"ACTION"}

(* The blocks that the start of the workflow walks over.                   *)
Opening == {c \in Block : \A e \in 1..c : KindOf(e) # "ACTION"}

(* The action or wait whose end makes a task walk as far as c.             *)
Heads(d, c) ==
  /\ d \in Block /\ d < c /\ KindOf(d) \in {"ACTION", "WAIT_FOR"}
  /\ \A e \in (d + 1)..(c - 1) : KindOf(e) \notin {"ACTION", "WAIT_FOR"}

Logged(rows) == {rows[k].block : k \in DOMAIN rows}
Taken(b) == b \in Logged(logs) \/ \E t \in Task : b \in Logged(tasks[t].own)

Walking(x) == x.op \in InTx /\ x.pc \in {"walk", "insert", "wait"}
Resuming(x) == x.op \in Resumes /\ x.pc \in {"note", "resume", "walk", "insert", "wait"}
Noted(x) == x.op \in Resumes /\ x.pc \in {"note", "resume"}

(* Whoever walks on from d has yet to begin.                               *)
Dormant(d) ==
  IF KindOf(d) = "ACTION" THEN ~Taken(d)
  ELSE \A i \in DOMAIN waits : waits[i].block = d =>
         waits[i].status = "WAITING" \/ \E t \in Task : Noted(tasks[t]) /\ tasks[t].wait = i

(* c is ahead of a task that walks from d.                                 *)
AheadOf(x, d, c) == Walking(x) /\ Heads(d, x.block) /\ (x.block < c \/ (x.block = c /\ x.pc = "walk"))

(* A block that may still be performed, no crash needed.                   *)
Due(c) ==
  IF KindOf(c) = "ACTION" THEN ~Taken(c)
  ELSE \E d \in Block : Heads(d, c) /\ (Dormant(d) \/ \E t \in Task : AheadOf(tasks[t], d, c))

(* No block is logged twice.                                               *)
Injective(rows) == \A j, k \in DOMAIN rows : rows[j].block = rows[k].block => j = k
Distinct ==
  /\ Injective(logs)
  /\ \A t \in Task : Injective(tasks[t].own)
  /\ \A t \in Task : Logged(tasks[t].own) \cap Logged(logs) = {}

(* What follows an action up to the next wait is not logged without it.    *)
HeadsIn(S) ==
  \A c \in S, d \in Block : Heads(d, c) /\ KindOf(d) = "ACTION" /\ KindOf(c) # "ACTION" => d \in S
Headed == HeadsIn(Logged(logs)) /\ \A t \in Task : HeadsIn(Logged(tasks[t].own))

Rows ==
  /\ \A i \in DOMAIN waits : /\ waits[i].block \in Logged(logs) /\ waits[i].block \notin Opening
                             /\ KindOf(waits[i].block) = "WAIT_FOR"
  /\ \A i, j \in DOMAIN waits : waits[i].block = waits[j].block => i = j

(* What a task walks on from, and that it walks alone.                     *)
Led(x, rows) ==
  /\ Walking(x) => \E d \in Block :
       /\ Heads(d, x.block)
       /\ \/ KindOf(d) = "ACTION" /\ x.op = "advance" /\ d \in Logged(x.own)
          \/ KindOf(d) = "WAIT_FOR" /\ x.op \in Resumes /\ rows[x.wait].block = d
  /\ Resuming(x) => x.wait \in DOMAIN rows /\ rows[x.wait].status # "WAITING"

Walkers ==
  /\ \A t \in Task : Led(tasks[t], waits)
  /\ \A t, u \in Task : Resuming(tasks[t]) /\ Resuming(tasks[u]) /\ tasks[t].wait = tasks[u].wait => t = u
  /\ \A t \in Task : tasks[t].pc \in {"insert", "wait"} => ~Taken(tasks[t].block)
  /\ \A t \in Task : Logged(tasks[t].own) \cap Opening = {}
  /\ \A t \in Task : tasks[t].pc = "first" =>
       /\ KindOf(tasks[t].block) = "ACTION"
       /\ tasks[t].order \notin DOMAIN logs => tasks[t].block \notin Logged(logs)

(* The start: alone, and ahead of what is done of the opening.             *)
Beyond(x, c) == x.block < c \/ (x.block = c /\ x.pc # "log")
Starters ==
  /\ \A t, u \in Task : tasks[t].op \in Starts /\ tasks[u].op \in Starts => t = u
  /\ \A t \in Task : tasks[t].op \in Starts =>
       /\ \A e \in 1..(tasks[t].block - 1) : KindOf(e) # "ACTION"
       /\ \A c \in Opening : /\ Taken(c) => c < tasks[t].block
                             /\ Beyond(tasks[t], c) => performed[c] = 0

(* Who still executes a block behind a transaction that is rolled back,    *)
(* and how often the block is executed when they are through.              *)
Late(c) == {t \in Task : tasks[t].pc = "late" /\ tasks[t].block = c}
Effects(c) == performed[c] + Cardinality(Late(c))
Undone == crashes + rollbacks
Counts ==
  /\ \A c \in Opening : performed[c] <= 1 /\ Late(c) = {}
  /\ \A c \in Block \ Opening :
       IsFiniteSet(Late(c)) /\ Effects(c) <= Undone + 1 /\ (Due(c) => Effects(c) <= Undone)

NotAgain == \A c \in Block \ Opening : Taken(c) => ~Due(c)

Once == Distinct /\ Headed /\ Rows /\ Walkers /\ Starters /\ Counts /\ NotAgain

----------------------------------------------------------------------------
(* Where every wait follows an action *)

Separated ==
  \A w \in Block : KindOf(w) = "WAIT_FOR" => \E a \in Block : Heads(a, w) /\ KindOf(a) = "ACTION"

Over(w) == \E i \in DOMAIN waits : waits[i].block = w /\ waits[i].status # "WAITING"

PassedBefore(b) == \A w \in Block : w < b /\ KindOf(w) = "WAIT_FOR" => Over(w)

(* What an advance has logged follows its action without a gap.            *)
Whole(x) == \A a \in Logged(x.own) : KindOf(a) = "ACTION" =>
  /\ Walking(x) => Heads(a, x.block) /\ \A c \in (a + 1)..(x.block - 1) : c \in Logged(x.own)
  /\ x.pc = "commit" => \A c \in Block : Heads(a, c) /\ KindOf(c) # "ACTION" => c \in Logged(x.own)

(* The logged wait of row k has been opened, and is over once the log no   *)
(* longer waits.                                                           *)
OpenedFor(k) ==
  \E i \in DOMAIN waits : waits[i].block = logs[k].block /\ (logs[k].waiting \/ waits[i].status # "WAITING")

Respected ==
  /\ \A b \in Block : Taken(b) => PassedBefore(b)
  /\ \A t \in Task : tasks[t].pc = "first" => PassedBefore(tasks[t].block)
  /\ \A t \in Task : Whole(tasks[t])
  /\ \A a \in Logged(logs), c \in Block :
       KindOf(a) = "ACTION" /\ Heads(a, c) /\ KindOf(c) # "ACTION" => c \in Logged(logs)
  /\ \A k \in DOMAIN logs : KindOf(logs[k].block) = "WAIT_FOR" => OpenedFor(k)
  /\ \A t \in Task : \A k \in DOMAIN tasks[t].own : KindOf(tasks[t].own[k].block) = "WAIT_FOR" => tasks[t].own[k].waiting
  /\ run = 1 /\ \A i \in DOMAIN waits : waits[i].run = 1

----------------------------------------------------------------------------
(* What each action makes of its task *)

Move(t, y) ==
  /\ DOMAIN tasks' = Task /\ tasks'[t] = y
  /\ \A u \in Task : u # t => tasks'[u] = tasks[u]

Performs(b) == performed' = [c \in Block |-> IF c = b THEN performed[c] + 1 ELSE performed[c]]

(* A record with its fields named is that record with fields replaced.     *)
LEMMA Named ==
  ASSUME NEW o, NEW p, NEW q, NEW r, NEW s, NEW u, NEW v, NEW w
  PROVE IsRec(Rec(o, p, q, r, s, u, v, w))
  BY DEF IsRec, Rec

LEMMA SetPc ==
  ASSUME NEW x, IsRec(x), NEW b
  PROVE [x EXCEPT !.pc = b] = Here(x, b) /\ IsRec([x EXCEPT !.pc = b])
<1>1. PICK o, p, q, r, s, u, v, w : x = Rec(o, p, q, r, s, u, v, w)
  BY DEF IsRec
<1>2. [x EXCEPT !.pc = b] = Here(x, b)
  BY <1>1 DEF Rec, At, Here
<1> QED
  BY <1>2, Named DEF At, Here

LEMMA SetBlock ==
  ASSUME NEW x, IsRec(x), NEW b
  PROVE [x EXCEPT !.block = b] = At(x, x.pc, b, x.order, x.own) /\ IsRec([x EXCEPT !.block = b])
<1>1. PICK o, p, q, r, s, u, v, w : x = Rec(o, p, q, r, s, u, v, w)
  BY DEF IsRec
<1>2. [x EXCEPT !.block = b] = At(x, x.pc, b, x.order, x.own)
  BY <1>1 DEF Rec, At, Here
<1> QED
  BY <1>2, Named DEF At, Here

LEMMA SetOrder ==
  ASSUME NEW x, IsRec(x), NEW b
  PROVE [x EXCEPT !.order = b] = At(x, x.pc, x.block, b, x.own) /\ IsRec([x EXCEPT !.order = b])
<1>1. PICK o, p, q, r, s, u, v, w : x = Rec(o, p, q, r, s, u, v, w)
  BY DEF IsRec
<1>2. [x EXCEPT !.order = b] = At(x, x.pc, x.block, b, x.own)
  BY <1>1 DEF Rec, At, Here
<1> QED
  BY <1>2, Named DEF At, Here

LEMMA SetOwn ==
  ASSUME NEW x, IsRec(x), NEW b
  PROVE [x EXCEPT !.own = b] = At(x, x.pc, x.block, x.order, b) /\ IsRec([x EXCEPT !.own = b])
<1>1. PICK o, p, q, r, s, u, v, w : x = Rec(o, p, q, r, s, u, v, w)
  BY DEF IsRec
<1>2. [x EXCEPT !.own = b] = At(x, x.pc, x.block, x.order, b)
  BY <1>1 DEF Rec, At, Here
<1> QED
  BY <1>2, Named DEF At, Here

LEMMA SetWait ==
  ASSUME NEW x, IsRec(x), NEW b
  PROVE [x EXCEPT !.wait = b] = Rec(x.op, x.pc, x.block, x.order, x.own, x.promote, b, x.todo) /\ IsRec([x EXCEPT !.wait = b])
<1>1. PICK o, p, q, r, s, u, v, w : x = Rec(o, p, q, r, s, u, v, w)
  BY DEF IsRec
<1>2. [x EXCEPT !.wait = b] = Rec(x.op, x.pc, x.block, x.order, x.own, x.promote, b, x.todo)
  BY <1>1 DEF Rec, At, Here
<1> QED
  BY <1>2, Named DEF At, Here

LEMMA SetTodo ==
  ASSUME NEW x, IsRec(x), NEW b
  PROVE [x EXCEPT !.todo = b] = Rec(x.op, x.pc, x.block, x.order, x.own, x.promote, x.wait, b) /\ IsRec([x EXCEPT !.todo = b])
<1>1. PICK o, p, q, r, s, u, v, w : x = Rec(o, p, q, r, s, u, v, w)
  BY DEF IsRec
<1>2. [x EXCEPT !.todo = b] = Rec(x.op, x.pc, x.block, x.order, x.own, x.promote, x.wait, b)
  BY <1>1 DEF Rec, At, Here
<1> QED
  BY <1>2, Named DEF At, Here

LEMMA OrderBlock ==
  ASSUME NEW x, IsRec(x), NEW b, NEW c
  PROVE [x EXCEPT !.order = c, !.block = b] = At(x, x.pc, b, c, x.own) /\ IsRec([x EXCEPT !.order = c, !.block = b])
<1>1. [x EXCEPT !.order = c, !.block = b] = [[x EXCEPT !.order = c] EXCEPT !.block = b]
  BY DEF IsRec, Rec
<1>2. PICK y : y = [x EXCEPT !.order = c]
  OBVIOUS
<1>5. y.op = x.op /\ y.pc = x.pc /\ y.block = x.block /\ y.order = c /\ y.own = x.own /\ y.promote = x.promote /\ y.wait = x.wait /\ y.todo = x.todo
  BY <1>2, SetOrder DEF At, Rec
<1>3. IsRec(y)
  BY <1>2, SetOrder
<1>4. [y EXCEPT !.block = b] = At(y, y.pc, b, y.order, y.own) /\ IsRec([y EXCEPT !.block = b])
  BY <1>3, SetBlock
<1> QED
  BY <1>1, <1>2, <1>4, <1>5 DEF At

LEMMA Moves ==
  ASSUME DOMAIN tasks = Task, NEW t \in Task, NEW y, tasks' = [tasks EXCEPT ![t] = y]
  PROVE Move(t, y)
  BY DEF Move

LEMMA BlockFacts ==
  /\ Len(Flow) \in Nat /\ Block = 1..Len(Flow)
  /\ \A b \in Block : b \in Nat \ {0} /\ b <= Len(Flow) /\ KindOf(b) \in Kind
  /\ \A b : b \notin Block => KindOf(b) = "END"
  BY FlowAssumption DEF Block, KindOf

LEMMA Performing ==
  ASSUME TypeInv, NEW b, ExecuteSystemBlock(b)
  PROVE status' \in Status /\ Performs(b)
  BY FlowAssumption DEF TypeInv, ExecuteSystemBlock, Performs

(* FromStart and Timer: a block is walked over.                            *)
StartTurn(t) ==
  LET x == tasks[t] IN
  /\ x.op \in Starts /\ x.pc = "walk" /\ status' \in Status
  /\ \/ Move(t, Idle) /\ UNCHANGED performed
     \/ /\ x.block \in Block /\ KindOf(x.block) # "ACTION"
        /\ \/ Move(t, Here(x, "log")) /\ (Performs(x.block) \/ UNCHANGED performed)
           \/ UNCHANGED performed /\ Move(t, At(x, "walk", x.block + 1, x.order, x.own))
           \/ UNCHANGED performed /\ x.op = "start" /\ Move(t, Here(x, "sleep"))
           \/ UNCHANGED performed /\ Move(t, Rec("timer", "sleep", x.block + 1, x.order, x.own, x.promote, x.wait, x.todo))
  /\ UNCHANGED <<entered, logs, waits, run, crashes>>

(* LogFromStart and LogTimer: it is logged, unless its number is taken.    *)
StartLogs(t) ==
  LET x == tasks[t]
      k == x.order + 1
  IN /\ x.op \in Starts /\ x.pc = "log" /\ ~Held(t, k)
     /\ logs' = With(logs, Row(k, x.block, FALSE))
     /\ \/ Move(t, Idle)
        \/ \E order \in {k, x.order} : Move(t, At(x, "walk", x.block + 1, order, x.own))
     /\ UNCHANGED <<status, entered, waits, run, performed, crashes>>

(* Wake.                                                                   *)
Wakes(t) ==
  LET x == tasks[t] IN
  /\ x.op \in Starts /\ x.pc = "sleep"
  /\ Move(t, Here(x, IF x.op = "timer" THEN "walk" ELSE "log"))
  /\ UNCHANGED <<status, entered, logs, waits, run, performed, crashes>>

(* AdvanceStep and SubmitPosition: the logs are read.                      *)
Reads(t) ==
  /\ tasks[t] = Idle
  /\ \/ Move(t, Idle)
     \/ /\ Advanceable /\ Move(t, Rec("advance", "first", CurrentBlock, NextStepOrder, <<>>, Advancing.promote, 0, {}))
        /\ KindOf(CurrentBlock) \in Presses \/ "position" \in Handlers
  /\ entered' \in BOOLEAN
  /\ UNCHANGED <<status, logs, waits, run, performed, crashes>>

(* WalkBlocks.                                                             *)
TxTurn(t) ==
  LET x == tasks[t] IN
  /\ x.op \in InTx /\ x.pc = "walk" /\ status' \in Status
  /\ \/ Halts(x.block) /\ Move(t, Here(x, "commit")) /\ UNCHANGED performed
     \/ /\ KindOf(x.block) = "WAIT_FOR" /\ UNCHANGED performed
        /\ Move(t, At(x, "wait", x.block, x.order + 1, x.own))
     \/ /\ ~Halts(x.block) /\ KindOf(x.block) # "WAIT_FOR"
        /\ Performs(x.block) \/ UNCHANGED performed
        /\ Move(t, At(x, "insert", x.block, x.order + 1, x.own))
  /\ UNCHANGED <<entered, logs, waits, run, crashes>>

(* InsertLog.                                                              *)
TxLogs(t) ==
  LET x == tasks[t]
      own == With(x.own, Row(x.order, x.block, x.pc = "wait"))
  IN /\ x.op \in InTx /\ x.pc \in {"first", "insert", "wait"}
     /\ x.order \notin DOMAIN logs /\ ~Held(t, x.order)
     /\ IF x.pc = "wait" THEN Move(t, At(x, "commit", x.block, x.order, own))
                         ELSE Move(t, At(x, "walk", x.block + 1, x.order, own))
     /\ IF x.pc = "first" THEN Performs(x.block) ELSE UNCHANGED performed
     /\ UNCHANGED <<status, entered, logs, waits, run, crashes>>

(* A task ends, or goes on with the next of its waits.                     *)
Turns(t) ==
  LET x == tasks[t] IN
  \/ Move(t, Idle)
  \/ x.op \in Resumes /\ Move(t, At(x, "next", x.block, x.order, <<>>))

(* Abort, ReadProgress, Conclude, NoMoreWaits.                             *)
Leaves(t) ==
  LET x == tasks[t] IN
  /\ \/ /\ x.pc \in {"first", "insert", "wait"} /\ Turns(t)
        /\ x.order \in DOMAIN logs \/ Held(t, x.order)
     \/ x.pc \in {"progress", "conclude", "next"} /\ Turns(t)
     \/ x.pc = "progress" /\ Move(t, Here(x, "conclude"))
  /\ x.op \in InTx /\ status' \in Status
  /\ UNCHANGED <<entered, logs, waits, run, performed, crashes>>

(* CommitLogs.                                                             *)
Commits(t) ==
  LET x == tasks[t] IN
  /\ x.op \in InTx /\ x.pc = "commit"
  /\ logs' = With(x.own, logs)
  /\ IF \E k \in DOMAIN x.own : x.own[k].waiting
       THEN waits' = Append(waits, [block |-> x.own[x.order].block, status |-> "WAITING", order |-> x.order,
                                    expired |-> FALSE, run |-> run])
       ELSE waits' = waits
  /\ Move(t, At(x, "progress", x.block, x.order, <<>>)) /\ status' \in Status
  /\ UNCHANGED <<entered, run, performed, crashes>>

(* HandleExpiredWaits, and the desk's handlers with their events.          *)
Opens(t) ==
  /\ tasks[t] = Idle /\ status' \in Status
  /\ \/ \E todo \in SUBSET DOMAIN waits : Move(t, Rec("timeout", "next", 0, 0, <<>>, FALSE, 0, todo))
     \/ \E op \in {"cancelled", "event"} : Move(t, Rec(op, "find", 0, 0, <<>>, FALSE, 0, {}))
     \/ Move(t, Idle)
  /\ UNCHANGED <<entered, logs, waits, run, performed, crashes>>

(* CheckEarlyTrigger and CancelWaits.                                      *)
Finds(t) ==
  LET x == tasks[t] IN
  /\ x.pc = "find"
  /\ \/ /\ x.op = "event" /\ UNCHANGED waits
        /\ \E todo \in SUBSET DOMAIN waits : Move(t, Rec(x.op, "next", x.block, x.order, x.own, x.promote, x.wait, todo))
     \/ /\ x.op = "cancelled" /\ Move(t, Idle)
        /\ waits' = [i \in DOMAIN waits |->
                       IF i \in Waiting THEN [waits[i] EXCEPT !.status = "CANCELLED"] ELSE waits[i]]
  /\ UNCHANGED <<status, entered, logs, run, performed, crashes>>

(* ResolveWait.                                                            *)
Resolves(t) ==
  LET x == tasks[t] IN
  /\ x.op \in Resumes /\ x.pc = "next"
  /\ \E i \in x.todo, over \in {"EXPIRED", "TRIGGERED"} :
       LET y(pc) == Rec(x.op, pc, x.block, x.order, x.own, x.promote, i, x.todo \ {i})
       IN \/ i \in Waiting /\ waits' = [waits EXCEPT ![i].status = over] /\ Move(t, y("note"))
          \/ i \notin Waiting /\ UNCHANGED waits /\ Move(t, y("next"))
  /\ UNCHANGED <<status, entered, logs, run, performed, crashes>>

(* LogWaitResolution.                                                      *)
Notes(t) ==
  LET x == tasks[t] IN
  /\ x.op \in Resumes /\ x.pc = "note"
  /\ logs' = [k \in DOMAIN logs |-> IF logs[k].block = waits[x.wait].block
                                    THEN [logs[k] EXCEPT !.waiting = FALSE] ELSE logs[k]]
  /\ Move(t, Here(x, "next")) \/ Move(t, Here(x, "resume"))
  /\ UNCHANGED <<status, entered, waits, run, performed, crashes>>

(* ResumeFromBlock.                                                        *)
ResumesWalk(t) ==
  LET x == tasks[t] IN
  /\ x.op \in Resumes /\ x.pc = "resume"
  /\ Move(t, At(x, "walk", waits[x.wait].block + 1,
                IF DOMAIN logs = {} THEN waits[x.wait].order ELSE Max(DOMAIN logs), x.own))
  /\ UNCHANGED <<status, entered, logs, waits, run, performed, crashes>>

Restarts(t) ==
  /\ tasks[t] = Idle /\ Move(t, Rec("start", "walk", 1, 0, <<>>, FALSE, 0, {})) /\ "reassign" \in Handlers
  /\ run < MaxRuns /\ run' = run + 1 /\ logs' = <<>> /\ status' \in Status
  /\ performed' = [b \in Block |-> 0]
  /\ UNCHANGED <<entered, waits, crashes>>

Turn(t) ==
  /\ UNCHANGED rollbacks
  /\ \/ StartTurn(t) \/ StartLogs(t) \/ Wakes(t) \/ Reads(t) \/ TxTurn(t) \/ TxLogs(t) \/ Leaves(t) \/ Commits(t)
     \/ Opens(t) \/ Finds(t) \/ Resolves(t) \/ Notes(t) \/ ResumesWalk(t) \/ Restarts(t)

(* Rollback, TimeOut and FinishLate.                                       *)
Rolls(t) ==
  LET x == tasks[t] IN
  /\ x.op \in InTx /\ status' \in Status /\ rollbacks' \in 0..MaxRollbacks
  /\ \/ /\ x.pc \in {"first", "walk", "insert", "wait", "commit"} /\ Turns(t)
        /\ rollbacks' = rollbacks + 1 /\ UNCHANGED performed
     \/ /\ x.pc = "walk" /\ x.block \in Block /\ KindOf(x.block) \notin {"ACTION", "WAIT_FOR"}
        /\ Move(t, At(x, "late", x.block, x.order, <<>>))
        /\ rollbacks' = rollbacks + 1 /\ UNCHANGED performed
     \/ /\ x.pc = "late" /\ Turns(t)
        /\ UNCHANGED rollbacks /\ (Performs(x.block) \/ UNCHANGED performed)
  /\ UNCHANGED <<entered, logs, waits, run, crashes>>

----------------------------------------------------------------------------
(* Each action is one of these *)

LEMMA Openings ==
  ASSUME NEW o, NEW a, NEW b, NEW d
  PROVE /\ IsRec(Idle) /\ Idle = Rec("none", "idle", 0, 0, <<>>, FALSE, 0, {})
        /\ [Idle EXCEPT !.op = o, !.todo = d] = Rec(o, "idle", 0, 0, <<>>, FALSE, 0, d)
        /\ [Idle EXCEPT !.op = o, !.pc = a] = Rec(o, a, 0, 0, <<>>, FALSE, 0, {})
        /\ [Idle EXCEPT !.op = o, !.pc = a, !.block = b] = Rec(o, a, b, 0, <<>>, FALSE, 0, {})
<1>0. PICK no : no = FALSE
  OBVIOUS
<1>1. Idle = Rec("none", "idle", 0, 0, <<>>, no, 0, {}) /\ IsRec(Idle)
  BY <1>0 DEF Idle, Rec, IsRec
<1>2. PICK x : x = Idle
  OBVIOUS
<1>3. /\ x.op = "none" /\ x.pc = "idle" /\ x.block = 0 /\ x.order = 0 /\ x.own = <<>> /\ x.promote = no
      /\ x.wait = 0 /\ x.todo = {} /\ IsRec(x)
  BY <1>1, <1>2 DEF Rec
<1>4. PICK y : y = [x EXCEPT !.op = o]
  OBVIOUS
<1>5. y = Rec(o, "idle", 0, 0, <<>>, no, 0, {}) /\ IsRec(y)
  BY <1>1, <1>2, <1>4 DEF Rec, IsRec
<1>6. [x EXCEPT !.op = o, !.todo = d] = [y EXCEPT !.todo = d]
  BY <1>3, <1>4 DEF IsRec, Rec
<1>7. [y EXCEPT !.todo = d] = Rec(o, "idle", 0, 0, <<>>, no, 0, d)
  BY <1>5 DEF Rec
<1>8. PICK z : z = [y EXCEPT !.pc = a]
  OBVIOUS
<1>9. z = Rec(o, a, 0, 0, <<>>, no, 0, {})
  BY <1>5, <1>8 DEF Rec
<1>10. [x EXCEPT !.op = o, !.pc = a] = z
  BY <1>3, <1>4, <1>8 DEF IsRec, Rec
<1>11. PICK v : v = [z EXCEPT !.block = b]
  OBVIOUS
<1>12. v = Rec(o, a, b, 0, <<>>, no, 0, {})
  BY <1>9, <1>11 DEF Rec
<1>13. [x EXCEPT !.op = o, !.pc = a, !.block = b] = v
  BY <1>3, <1>4, <1>8, <1>11 DEF IsRec, Rec
<1> QED
  BY <1>0, <1>1, <1>2, <1>6, <1>7, <1>9, <1>10, <1>12, <1>13

LEMMA AdvanceOpening ==
  ASSUME NEW o, NEW a, NEW b, NEW c, NEW d
  PROVE [Idle EXCEPT !.op = o, !.pc = a, !.block = b, !.order = c, !.promote = d]
          = Rec(o, a, b, c, <<>>, d, 0, {})
<1>0. PICK no : no = FALSE
  OBVIOUS
<1>1. Idle = Rec("none", "idle", 0, 0, <<>>, no, 0, {}) /\ IsRec(Idle)
  BY <1>0 DEF Idle, Rec, IsRec
<1>2. PICK x : x = Idle
  OBVIOUS
<1>3. /\ x.op = "none" /\ x.pc = "idle" /\ x.block = 0 /\ x.order = 0 /\ x.own = <<>> /\ x.promote = no
      /\ x.wait = 0 /\ x.todo = {} /\ IsRec(x)
  BY <1>1, <1>2 DEF Rec
<1>4. PICK y : y = [x EXCEPT !.op = o]
  OBVIOUS
<1>5. y = Rec(o, "idle", 0, 0, <<>>, no, 0, {}) /\ IsRec(y)
  BY <1>1, <1>2, <1>4 DEF Rec, IsRec
<1>8. PICK z : z = [y EXCEPT !.pc = a]
  OBVIOUS
<1>9. z = Rec(o, a, 0, 0, <<>>, no, 0, {})
  BY <1>5, <1>8 DEF Rec
<1>11. PICK v : v = [z EXCEPT !.block = b]
  OBVIOUS
<1>12. v = Rec(o, a, b, 0, <<>>, no, 0, {})
  BY <1>9, <1>11 DEF Rec
<1>14. PICK w : w = [v EXCEPT !.order = c]
  OBVIOUS
<1>15. w = Rec(o, a, b, c, <<>>, no, 0, {})
  BY <1>12, <1>14 DEF Rec
<1>16. [w EXCEPT !.promote = d] = Rec(o, a, b, c, <<>>, d, 0, {})
  <2>1. PICK nil, zero, none : nil = <<>> /\ zero = 0 /\ none = {}
    OBVIOUS
  <2>2. w = Rec(o, a, b, c, nil, no, zero, none)
    BY <1>15, <2>1
  <2>3. [w EXCEPT !.promote = d] = Rec(o, a, b, c, nil, d, zero, none)
    BY <2>2 DEF Rec
  <2> QED
    BY <2>1, <2>3
<1>17. [x EXCEPT !.op = o, !.pc = a, !.block = b, !.order = c, !.promote = d] = [w EXCEPT !.promote = d]
  BY <1>3, <1>4, <1>8, <1>11, <1>14 DEF IsRec, Rec
<1> QED
  BY <1>2, <1>16, <1>17

(* What the type invariant says of one task.                               *)
LEMMA TaskFacts ==
  ASSUME TypeInv, NEW t \in Task
  PROVE /\ DOMAIN tasks = Task /\ IsTask(tasks[t]) /\ IsRec(tasks[t]) /\ Does(tasks[t].op, tasks[t].pc)
        /\ Refers(tasks[t], waits)
  BY DEF TypeInv, IsTask

LEMMA Gone ==
  ASSUME DOMAIN tasks = Task, NEW t \in Task, NEW x, IsRec(x), NEW pc, Goto(t, x, pc)
  PROVE Move(t, Here(x, pc))
<1>1. PICK y : y = [x EXCEPT !.pc = pc]
  OBVIOUS
<1>2. y = Here(x, pc)
  BY <1>1, SetPc
<1>3. tasks' = [tasks EXCEPT ![t] = y]
  BY <1>1 DEF Goto
<1> QED
  BY <1>2, <1>3, Moves

LEMMA Ended ==
  ASSUME DOMAIN tasks = Task, NEW t \in Task, End(t)
  PROVE Move(t, Idle)
  BY Moves DEF End

LEMMA StartTurns ==
  ASSUME TypeInv, NEW t \in Task, FromStart(t)
  PROVE StartTurn(t)
<1> PICK x : x = tasks[t]
  OBVIOUS
<1>0. IsRec(x) /\ IsTask(x) /\ DOMAIN tasks = Task
  BY TaskFacts
<1>1. PICK next : next = [x EXCEPT !.block = x.block + 1]
  OBVIOUS
<1>2. next = At(x, x.pc, x.block + 1, x.order, x.own) /\ IsRec(next)
  BY <1>0, <1>1, SetBlock
<1>3. \A pc : Here(next, pc) = At(x, pc, x.block + 1, x.order, x.own)
  BY <1>2 DEF Here, At, Rec
<1>4. /\ x.op = "start" /\ x.pc = "walk"
      /\ UNCHANGED <<entered, logs, waits, run, crashes>>
  BY DEF FromStart
<1>5. status \in Status
  BY DEF TypeInv
<1>6. CASE Halts(x.block) /\ End(t) /\ UNCHANGED <<status, performed>>
  BY <1>0, <1>4, <1>5, <1>6, Ended DEF StartTurn, Starts
<1>7. ASSUME KindOf(x.block) \in {"NOTIFY", "STATUS", "DELAY", "LONG_DELAY", "WAIT_FOR"}
      PROVE x.block \in Block /\ KindOf(x.block) # "ACTION"
  BY <1>7, BlockFacts
<1>8. CASE KindOf(x.block) \in {"NOTIFY", "STATUS"} /\ ExecuteSystemBlock(x.block) /\ Goto(t, x, "log")
  BY <1>0, <1>4, <1>7, <1>8, Gone, Performing DEF StartTurn, Starts
<1>9. CASE KindOf(x.block) \in {"NOTIFY", "STATUS"} /\ SystemBlockFails /\ Goto(t, next, "walk")
  <2>1. Move(t, At(x, "walk", x.block + 1, x.order, x.own))
    BY <1>0, <1>2, <1>3, <1>9, Gone
  <2> QED
    BY <1>4, <1>5, <1>7, <1>9, <2>1 DEF StartTurn, Starts, SystemBlockFails
<1>10. CASE KindOf(x.block) = "DELAY" /\ Goto(t, x, "sleep") /\ UNCHANGED <<status, performed>>
  BY <1>0, <1>4, <1>5, <1>7, <1>10, Gone DEF StartTurn, Starts
<1>11. CASE KindOf(x.block) = "LONG_DELAY" /\ Goto(t, [next EXCEPT !.op = "timer"], "sleep")
            /\ UNCHANGED <<status, performed>>
  <2>1. PICK timer : timer = [next EXCEPT !.op = "timer"]
    OBVIOUS
  <2>2. timer = Rec("timer", next.pc, next.block, next.order, next.own, next.promote, next.wait, next.todo)
        /\ IsRec(timer)
    BY <1>2, <2>1 DEF IsRec, Rec
  <2>3. Here(timer, "sleep") = Rec("timer", "sleep", x.block + 1, x.order, x.own, x.promote, x.wait, x.todo)
    BY <1>2, <2>2 DEF Here, At, Rec
  <2>4. Move(t, Here(timer, "sleep"))
    BY <1>0, <1>11, <2>1, <2>2, Gone
  <2> QED
    BY <1>4, <1>5, <1>7, <1>11, <2>3, <2>4 DEF StartTurn, Starts
<1>12. CASE KindOf(x.block) = "WAIT_FOR" /\ Goto(t, x, "log") /\ UNCHANGED <<status, performed>>
  BY <1>0, <1>4, <1>5, <1>7, <1>12, Gone DEF StartTurn, Starts
<1> QED
  BY <1>1, <1>6, <1>8, <1>9, <1>10, <1>11, <1>12 DEF FromStart

LEMMA TimerTurns ==
  ASSUME TypeInv, NEW t \in Task, Timer(t)
  PROVE StartTurn(t)
<1> PICK x : x = tasks[t]
  OBVIOUS
<1>0. IsRec(x) /\ IsTask(x) /\ DOMAIN tasks = Task /\ status \in Status
  BY TaskFacts DEF TypeInv
<1>1. /\ x.op = "timer" /\ x.pc = "walk" /\ UNCHANGED <<entered, logs, waits, run, crashes>>
  BY DEF Timer
<1>2. CASE Halts(x.block) /\ End(t) /\ UNCHANGED <<status, performed>>
  BY <1>0, <1>1, <1>2, Ended DEF StartTurn, Starts
<1>3. CASE ~Halts(x.block) /\ ExecuteSystemBlock(x.block) /\ Goto(t, x, "log")
  <2>1. x.block \in Block /\ KindOf(x.block) # "ACTION"
    BY <1>3, BlockFacts DEF Halts
  <2> QED
    BY <1>0, <1>1, <1>3, <2>1, Gone, Performing DEF StartTurn, Starts
<1>4. CASE SystemBlockFails /\ End(t)
  BY <1>0, <1>1, <1>4, Ended DEF StartTurn, Starts, SystemBlockFails
<1> QED
  BY <1>2, <1>3, <1>4 DEF Timer

LEMMA StartLogged ==
  ASSUME TypeInv, NEW t \in Task, LogFromStart(t) \/ LogTimer(t)
  PROVE StartLogs(t)
<1> PICK x : x = tasks[t]
  OBVIOUS
<1>0. IsRec(x) /\ IsTask(x) /\ DOMAIN tasks = Task
  BY TaskFacts
<1>1. CASE LogFromStart(t)
  <2>1. PICK y, k : k = x.order + 1 /\ y = [x EXCEPT !.order = k, !.block = x.block + 1]
    OBVIOUS
  <2>2. y = At(x, x.pc, x.block + 1, k, x.own) /\ IsRec(y)
    <3>1. PICK b : b = x.block + 1
      OBVIOUS
    <3>2. [x EXCEPT !.order = k, !.block = b] = At(x, x.pc, b, k, x.own) /\ IsRec([x EXCEPT !.order = k, !.block = b])
      BY <1>0, OrderBlock
    <3> QED
      BY <2>1, <3>1, <3>2
  <2>3. Here(y, "walk") = At(x, "walk", x.block + 1, k, x.own)
    BY <2>2 DEF Here, At, Rec
  <2>4. /\ Goto(t, y, "walk") /\ x.op \in Starts /\ x.pc = "log" /\ ~Held(t, k)
        /\ logs' = With(logs, Row(k, x.block, FALSE))
        /\ UNCHANGED <<status, entered, waits, run, performed, crashes>>
    BY <1>1, <2>1 DEF LogFromStart, Starts
  <2>5. Move(t, At(x, "walk", x.block + 1, k, x.own))
    BY <1>0, <2>2, <2>3, <2>4, Gone
  <2> QED
    BY <2>1, <2>4, <2>5 DEF StartLogs
<1>2. CASE LogTimer(t)
  <2>1. PICK y, k : k = x.order + 1 /\ y = [x EXCEPT !.block = x.block + 1]
    OBVIOUS
  <2>2. y = At(x, x.pc, x.block + 1, x.order, x.own) /\ IsRec(y)
    BY <1>0, <2>1, SetBlock
  <2>3. Here(y, "walk") = At(x, "walk", x.block + 1, x.order, x.own)
    BY <2>2 DEF Here, At, Rec
  <2>4. /\ x.op \in Starts /\ x.pc = "log" /\ ~Held(t, k)
        /\ logs' = With(logs, Row(k, x.block, FALSE))
        /\ UNCHANGED <<status, entered, waits, run, performed, crashes>>
    BY <1>2, <2>1 DEF LogTimer, Starts
  <2>5. End(t) \/ Goto(t, y, "walk")
    BY <1>2, <2>1 DEF LogTimer
  <2>6. Move(t, Idle) \/ Move(t, At(x, "walk", x.block + 1, x.order, x.own))
    BY <1>0, <2>2, <2>3, <2>5, Gone, Ended
  <2> QED
    BY <2>1, <2>4, <2>6 DEF StartLogs
<1> QED
  BY <1>1, <1>2

LEMMA Woken ==
  ASSUME TypeInv, NEW t \in Task, Wake(t)
  PROVE Wakes(t)
<1>1. tasks[t].op \in Starts
  BY TaskFacts DEF Wake, Does
<1> QED
  BY <1>1, TaskFacts, Gone DEF Wake, Wakes

LEMMA Least ==
  ASSUME NEW S, S \subseteq Nat, S # {}
  PROVE Min(S) \in S /\ \A y \in S : Min(S) <= y
<1>1. PICK x \in S : \A y \in S : ~(<<y, x>> \in OpToRel(<, Nat))
  BY NatLessThanWellFounded, WFMin
<1>2. ASSUME NEW y \in S, y < x
      PROVE FALSE
  <2>1. <<y, x>> \in Nat \X Nat /\ <<y, x>>[1] < <<y, x>>[2]
    BY <1>2
  <2>2. <<y, x>> \in OpToRel(<, Nat)
    BY <2>1 DEF OpToRel
  <2> QED
    BY <1>1, <2>2
<1>3. \A y \in S : x <= y
  BY <1>2
<1> QED
  BY <1>3 DEF Min

LEMMA Greatest ==
  ASSUME NEW S, NEW n \in Nat, S \subseteq 1..n, S # {}
  PROVE Max(S) \in S /\ \A y \in S : Max(S) >= y
<1> DEFINE Bounds == {m \in Nat : \A y \in S : y <= m}
<1>1. Bounds \subseteq Nat /\ n \in Bounds
  OBVIOUS
<1> HIDE DEF Bounds
<1>2. PICK m \in Bounds : \A y \in Bounds : m <= y
  BY <1>1, Least
<1>3. m \in S
  <2>1. SUFFICES ASSUME m \notin S PROVE FALSE
    OBVIOUS
  <2>2. m \in Nat /\ \A y \in S : y <= m
    BY <1>2 DEF Bounds
  <2>6. PICK s : s \in S
    OBVIOUS
  <2>3. s \in 1..n
    BY <2>6
  <2>4. m - 1 \in Nat /\ \A y \in S : y <= m - 1
    BY <2>1, <2>2, <2>3, <2>6
  <2>5. m - 1 \in Bounds
    BY <2>4 DEF Bounds
  <2> QED
    BY <1>2, <2>2, <2>5
<1>4. \A y \in S : m >= y
  BY <1>2 DEF Bounds
<1> QED
  BY <1>3, <1>4 DEF Max

LEMMA Advances ==
  ASSUME TypeInv, NEW t \in Task, AdvanceStep(t) \/ SubmitPosition(t)
  PROVE Reads(t)
<1> PICK advance : advance = Rec("advance", "first", CurrentBlock, NextStepOrder, <<>>, Advancing.promote, 0, {})
  OBVIOUS
<1>1. Advancing = advance
  <2>1. PICK promote : promote = (/\ status \in {"ATRIBUIDA", "AJUSTE"}
                                  /\ \A b \in Block : KindOf(b) # "STATUS")
    OBVIOUS
  <2>2. PICK b, n : b = CurrentBlock /\ n = NextStepOrder
    OBVIOUS
  <2>5. [Idle EXCEPT !.op = "advance", !.pc = "first", !.block = b, !.order = n, !.promote = promote]
          = Rec("advance", "first", b, n, <<>>, promote, 0, {})
    BY AdvanceOpening
  <2>6. Advancing = [Idle EXCEPT !.op = "advance", !.pc = "first", !.block = b, !.order = n, !.promote = promote]
    BY <2>1, <2>2 DEF Advancing
  <2>3. Advancing = Rec("advance", "first", b, n, <<>>, promote, 0, {})
    BY <2>5, <2>6
  <2>4. Advancing.promote = promote
    BY <2>3 DEF Rec
  <2> QED
    BY <2>2, <2>3, <2>4
<1>2. DOMAIN tasks = Task /\ entered \in BOOLEAN
  BY DEF TypeInv
<1>3. tasks[t] = Idle /\ UNCHANGED <<status, logs, waits, run, performed, crashes>> /\ entered' \in BOOLEAN
  BY <1>2 DEF AdvanceStep, SubmitPosition
<1>4. CASE /\ Advanceable /\ tasks' = [tasks EXCEPT ![t] = advance]
           /\ KindOf(CurrentBlock) \in Presses \/ "position" \in Handlers
  BY <1>2, <1>3, <1>4, Moves DEF Reads
<1>5. CASE tasks' = tasks
  BY <1>2, <1>3, <1>5 DEF Reads, Move
<1> QED
  BY <1>1, <1>4, <1>5 DEF AdvanceStep, SubmitPosition

LEMMA TxTurns ==
  ASSUME TypeInv, NEW t \in Task, WalkBlocks(t)
  PROVE TxTurn(t)
<1> PICK x : x = tasks[t]
  OBVIOUS
<1>0. IsRec(x) /\ IsTask(x) /\ DOMAIN tasks = Task /\ status \in Status
  BY TaskFacts DEF TypeInv
<1>1. /\ x.op \in InTx /\ x.pc = "walk" /\ UNCHANGED <<entered, logs, waits, run, crashes>>
  BY DEF WalkBlocks, InTransaction, InTx
<1>2. PICK n, y : n = x.order + 1 /\ y = [x EXCEPT !.order = n]
  OBVIOUS
<1>3. y = At(x, x.pc, x.block, n, x.own) /\ IsRec(y)
  BY <1>0, <1>2, SetOrder
<1>4. \A pc : Here(y, pc) = At(x, pc, x.block, n, x.own)
  BY <1>3 DEF Here, At, Rec
<1>5. CASE Halts(x.block) /\ Goto(t, x, "commit") /\ UNCHANGED <<status, performed>>
  BY <1>0, <1>1, <1>5, Gone DEF TxTurn
<1>6. CASE KindOf(x.block) = "WAIT_FOR" /\ Goto(t, y, "wait") /\ UNCHANGED <<status, performed>>
  <2>1. Move(t, At(x, "wait", x.block, x.order + 1, x.own))
    BY <1>0, <1>2, <1>3, <1>4, <1>6, Gone
  <2> QED
    BY <1>0, <1>1, <1>6, <2>1 DEF TxTurn
<1>7. CASE /\ ~Halts(x.block) /\ KindOf(x.block) # "WAIT_FOR"
           /\ ExecuteSystemBlock(x.block) \/ SystemBlockFails
           /\ Goto(t, y, "insert")
  <2>1. Move(t, At(x, "insert", x.block, x.order + 1, x.own))
    BY <1>0, <1>2, <1>3, <1>4, <1>7, Gone
  <2>2. status' \in Status /\ (Performs(x.block) \/ UNCHANGED performed)
    BY <1>0, <1>7, Performing DEF SystemBlockFails
  <2> QED
    BY <1>1, <1>7, <2>1, <2>2 DEF TxTurn
<1> QED
  BY <1>2, <1>5, <1>6, <1>7 DEF WalkBlocks

LEMMA TxLogged ==
  ASSUME TypeInv, NEW t \in Task, InsertLog(t)
  PROVE TxLogs(t)
<1> PICK x : x = tasks[t]
  OBVIOUS
<1>5. PICK own : own = With(x.own, Row(x.order, x.block, x.pc = "wait"))
  OBVIOUS
<1>0. IsRec(x) /\ IsTask(x) /\ DOMAIN tasks = Task /\ Does(x.op, x.pc)
  BY TaskFacts
<1>1. /\ x.op \in InTx /\ x.pc \in {"first", "insert", "wait"} /\ UNCHANGED <<status, entered, logs, waits, run, crashes>>
      /\ x.order \notin DOMAIN logs /\ ~Held(t, x.order)
  BY <1>0 DEF InsertLog, Does, InTx, Starts, Resumes
<1>2. IF x.pc = "first" THEN Performs(x.block) ELSE UNCHANGED performed
  BY DEF InsertLog, TypeInv, Performs
<1>3. CASE x.pc = "wait"
  <2>1. PICK y : y = [x EXCEPT !.own = own]
    OBVIOUS
  <2>2. y = At(x, x.pc, x.block, x.order, own) /\ IsRec(y)
    BY <1>0, <2>1, SetOwn
  <2>3. Here(y, "commit") = At(x, "commit", x.block, x.order, own)
    BY <2>2 DEF Here, At, Rec
  <2>4. Goto(t, y, "commit")
    BY <1>3, <1>5, <2>1 DEF InsertLog
  <2>5. Move(t, At(x, "commit", x.block, x.order, own))
    BY <1>0, <2>2, <2>3, <2>4, Gone
  <2> QED
    BY <1>1, <1>2, <1>3, <1>5, <2>5 DEF TxLogs
<1>4. CASE x.pc # "wait"
  <2>1. PICK b, y : b = x.block + 1 /\ y = [x EXCEPT !.own = own, !.block = b]
    OBVIOUS
  <2>2. y = At(x, x.pc, b, x.order, own) /\ IsRec(y)
    <3>1. PICK z : z = [x EXCEPT !.own = own]
      OBVIOUS
    <3>2. z = At(x, x.pc, x.block, x.order, own) /\ IsRec(z)
      BY <1>0, <3>1, SetOwn
    <3>3. y = [z EXCEPT !.block = b]
      BY <1>0, <2>1, <3>1 DEF IsRec, Rec
    <3>4. y = At(z, z.pc, b, z.order, z.own) /\ IsRec(y)
      BY <3>2, <3>3, SetBlock
    <3> QED
      BY <3>2, <3>4 DEF At, Rec
  <2>3. Here(y, "walk") = At(x, "walk", b, x.order, own)
    BY <2>2 DEF Here, At, Rec
  <2>4. Goto(t, y, "walk")
    BY <1>4, <1>5, <2>1 DEF InsertLog
  <2>5. Move(t, At(x, "walk", x.block + 1, x.order, own))
    BY <1>0, <2>1, <2>2, <2>3, <2>4, Gone
  <2> QED
    BY <1>1, <1>2, <1>4, <1>5, <2>5 DEF TxLogs
<1> QED
  BY <1>3, <1>4

LEMMA Returned ==
  ASSUME TypeInv, NEW t \in Task, tasks[t].op \in InTx, Return(t)
  PROVE Turns(t)
<1> PICK x : x = tasks[t]
  OBVIOUS
<1>5. PICK nil, y : nil = <<>> /\ y = [x EXCEPT !.own = nil]
  OBVIOUS
<1>0. IsRec(x) /\ IsTask(x) /\ DOMAIN tasks = Task
  BY TaskFacts
<1>1. y = At(x, x.pc, x.block, x.order, nil) /\ IsRec(y)
  BY <1>0, <1>5, SetOwn
<1>2. Here(y, "next") = At(x, "next", x.block, x.order, nil)
  BY <1>1 DEF Here, At, Rec
<1>3. CASE x.op = "advance"
  BY <1>0, <1>3, Ended DEF Return, Turns
<1>4. CASE x.op # "advance"
  BY <1>0, <1>1, <1>2, <1>4, <1>5, Gone DEF Return, Turns, InTx, Resumes
<1> QED
  BY <1>3, <1>4

LEMMA Left ==
  ASSUME TypeInv, NEW t \in Task, Abort(t) \/ ReadProgress(t) \/ Conclude(t) \/ NoMoreWaits(t)
  PROVE Leaves(t)
<1>0. IsRec(tasks[t]) /\ IsTask(tasks[t]) /\ DOMAIN tasks = Task /\ Does(tasks[t].op, tasks[t].pc)
      /\ status \in Status /\ "CONCLUIDA" \in Status
  BY TaskFacts DEF TypeInv, Status
<1>1. tasks[t].op \in InTx
  BY <1>0 DEF Abort, ReadProgress, Conclude, NoMoreWaits, Does, InTx, Resumes, Starts
<1>2. CASE Abort(t)
  BY <1>0, <1>1, <1>2, Returned DEF Abort, Leaves
<1>3. CASE ReadProgress(t)
  BY <1>0, <1>1, <1>3, Returned, Gone DEF ReadProgress, Leaves
<1>4. CASE Conclude(t)
  BY <1>0, <1>1, <1>4, Returned DEF Conclude, Leaves
<1>5. CASE NoMoreWaits(t)
  BY <1>0, <1>1, <1>5, Ended DEF NoMoreWaits, Leaves, Turns
<1> QED
  BY <1>2, <1>3, <1>4, <1>5

LEMMA Committed ==
  ASSUME TypeInv, NEW t \in Task, CommitLogs(t)
  PROVE Commits(t)
<1> PICK x : x = tasks[t]
  OBVIOUS
<1>0. IsRec(x) /\ IsTask(x) /\ DOMAIN tasks = Task /\ Does(x.op, x.pc) /\ status \in Status /\ "EM_EXECUCAO" \in Status
  BY TaskFacts DEF TypeInv, Status
<1>1. /\ x.op \in InTx /\ x.pc = "commit" /\ UNCHANGED <<entered, run, performed, crashes>>
      /\ logs' = With(x.own, logs) /\ status' \in Status
  BY <1>0 DEF CommitLogs, Does, InTx, Resumes, Starts
<1>2. PICK waiting : waiting = {k \in DOMAIN x.own : x.own[k].waiting}
  OBVIOUS
<1>3. waits' = IF waiting = {} THEN waits
               ELSE Append(waits, [block |-> x.own[Max(waiting)].block, status |-> "WAITING", order |-> Max(waiting),
                                   expired |-> FALSE, run |-> run])
  BY <1>2 DEF CommitLogs
<1>4. waiting # {} <=> \E k \in DOMAIN x.own : x.own[k].waiting
  BY <1>2
<1>5. ASSUME waiting # {} PROVE Max(waiting) = x.order
  <2>1. waiting = {x.order} /\ x.order \in Nat
    BY <1>0, <1>2, <1>5 DEF IsTask
  <2> QED
    BY <2>1 DEF Max
<1>6. Move(t, At(x, "progress", x.block, x.order, <<>>))
  <2>1. PICK nil, y : nil = <<>> /\ y = [x EXCEPT !.own = nil]
    OBVIOUS
  <2>2. y = At(x, x.pc, x.block, x.order, nil) /\ IsRec(y)
    BY <1>0, <2>1, SetOwn
  <2>3. Here(y, "progress") = At(x, "progress", x.block, x.order, nil)
    BY <2>2 DEF Here, At, Rec
  <2>4. Goto(t, y, "progress")
    BY <2>1 DEF CommitLogs
  <2> QED
    BY <1>0, <2>1, <2>2, <2>3, <2>4, Gone
<1> QED
  BY <1>1, <1>3, <1>4, <1>5, <1>6 DEF Commits

LEMMA Opened ==
  ASSUME TypeInv, NEW t \in Task, HandleExpiredWaits(t) \/ UpdateStatus(t) \/ Assign(t)
  PROVE Opens(t)
<1>0. DOMAIN tasks = Task /\ status \in Status
  BY DEF TypeInv
<1>1. CASE HandleExpiredWaits(t)
  <2>6. PICK todo : todo = Expired
    OBVIOUS
  <2>1. PICK x : x = [Idle EXCEPT !.op = "timeout", !.todo = todo]
    OBVIOUS
  <2>7. x = Rec("timeout", "idle", 0, 0, <<>>, FALSE, 0, todo)
    BY <2>1, Openings
  <2>2. x = Rec("timeout", "idle", 0, 0, <<>>, FALSE, 0, todo) /\ IsRec(x)
    BY <2>7 DEF IsRec, Rec
  <2>3. Here(x, "next") = Rec("timeout", "next", 0, 0, <<>>, FALSE, 0, todo)
    BY <2>2 DEF Here, At, Rec
  <2>4. Move(t, Here(x, "next"))
    BY <1>0, <1>1, <2>1, <2>2, <2>6, Gone DEF HandleExpiredWaits
  <2>5. Expired \in SUBSET DOMAIN waits
    BY DEF Expired, Waiting
  <2> QED
    BY <1>0, <1>1, <2>3, <2>4, <2>5, <2>6 DEF HandleExpiredWaits, Opens
<1>2. ASSUME NEW name, tasks[t] = Idle, tasks' = [tasks EXCEPT ![t] = Event(name)]
      PROVE \/ \E op \in {"cancelled", "event"} : Move(t, Rec(op, "find", 0, 0, <<>>, FALSE, 0, {}))
            \/ Move(t, Idle)
  <2>1. Event(name) \in {[Idle EXCEPT !.op = "cancelled", !.pc = "find"], [Idle EXCEPT !.op = "event", !.pc = "find"], Idle}
    BY DEF Event
  <2>2. Event(name) \in {Rec("cancelled", "find", 0, 0, <<>>, FALSE, 0, {}), Rec("event", "find", 0, 0, <<>>, FALSE, 0, {}), Idle}
    BY <2>1, Openings
  <2> QED
    BY <1>0, <1>2, <2>2, Moves
<1>3. CASE UpdateStatus(t)
  <2>1. PICK s \in DeskStatus \cap ALLOWED_TRANSITIONS[status] :
          status' = s /\ tasks' = [tasks EXCEPT ![t] = Event(s)]
    BY <1>3 DEF UpdateStatus
  <2>2. s \in Status
    BY <1>0, <2>1 DEF Status, ALLOWED_TRANSITIONS
  <2> QED
    BY <1>2, <1>3, <2>1, <2>2 DEF UpdateStatus, Opens
<1>4. CASE Assign(t)
  BY <1>2, <1>4 DEF Assign, Opens, Status
<1> QED
  BY <1>1, <1>3, <1>4

LEMMA Found ==
  ASSUME TypeInv, NEW t \in Task, CheckEarlyTrigger(t) \/ CancelWaits(t)
  PROVE Finds(t)
<1> PICK x : x = tasks[t]
  OBVIOUS
<1>0. IsRec(x) /\ IsTask(x) /\ DOMAIN tasks = Task /\ Does(x.op, x.pc)
  BY TaskFacts
<1>1. CASE CheckEarlyTrigger(t)
  <2>1. PICK todo, y : todo = Waiting /\ y = [x EXCEPT !.todo = todo]
    OBVIOUS
  <2>2. y = Rec(x.op, x.pc, x.block, x.order, x.own, x.promote, x.wait, todo) /\ IsRec(y)
    BY <1>0, <2>1, SetTodo
  <2>3. Here(y, "next") = Rec(x.op, "next", x.block, x.order, x.own, x.promote, x.wait, todo)
    BY <2>2 DEF Here, At, Rec
  <2>4. Goto(t, y, "next")
    BY <1>1, <2>1 DEF CheckEarlyTrigger
  <2>5. Move(t, Rec(x.op, "next", x.block, x.order, x.own, x.promote, x.wait, todo))
    BY <1>0, <2>2, <2>3, <2>4, Gone
  <2>6. todo \in SUBSET DOMAIN waits
    BY <2>1 DEF Waiting
  <2> QED
    BY <1>1, <2>5, <2>6 DEF CheckEarlyTrigger, Finds
<1>2. CASE CancelWaits(t)
  BY <1>0, <1>2, Ended DEF CancelWaits, Finds, Does, InTx, Resumes, Starts
<1> QED
  BY <1>1, <1>2

LEMMA Resolved ==
  ASSUME TypeInv, NEW t \in Task, ResolveWait(t)
  PROVE Resolves(t)
<1> PICK x : x = tasks[t]
  OBVIOUS
<1>0. /\ IsRec(x) /\ IsTask(x) /\ DOMAIN tasks = Task /\ Does(x.op, x.pc)
      /\ x.todo \subseteq DOMAIN waits /\ DOMAIN waits \subseteq Nat
  BY TaskFacts DEF TypeInv, Refers
<1>1. /\ x.op \in Resumes /\ x.pc = "next" /\ x.todo # {}
      /\ UNCHANGED <<status, entered, logs, run, performed, crashes>>
  BY <1>0 DEF ResolveWait, Does, InTx, Resumes, Starts
<1>2. PICK i : i = Min(x.todo)
  OBVIOUS
<1>3. i \in x.todo
  BY <1>0, <1>1, <1>2, Least
<1>4. PICK left, y : left = x.todo \ {i} /\ y = [x EXCEPT !.wait = i, !.todo = left]
  OBVIOUS
<1>5. y = Rec(x.op, x.pc, x.block, x.order, x.own, x.promote, i, left) /\ IsRec(y)
  <2>1. PICK z : z = [x EXCEPT !.wait = i]
    OBVIOUS
  <2>2. z = Rec(x.op, x.pc, x.block, x.order, x.own, x.promote, i, x.todo) /\ IsRec(z)
    BY <1>0, <2>1, SetWait
  <2>3. y = [z EXCEPT !.todo = left]
    BY <1>0, <1>4, <2>1 DEF IsRec, Rec
  <2>4. y = Rec(z.op, z.pc, z.block, z.order, z.own, z.promote, z.wait, left) /\ IsRec(y)
    BY <2>2, <2>3, SetTodo
  <2> QED
    BY <2>2, <2>4 DEF Rec
<1>6. \A pc : Here(y, pc) = Rec(x.op, pc, x.block, x.order, x.own, x.promote, i, left)
  BY <1>5 DEF Here, At, Rec
<1>7. CASE i \in Waiting
  <2>1. PICK over \in {"EXPIRED", "TRIGGERED"} : waits' = [waits EXCEPT ![i].status = over]
    BY <1>2, <1>7 DEF ResolveWait
  <2>2. Goto(t, y, "note")
    BY <1>2, <1>4, <1>7 DEF ResolveWait
  <2>3. Move(t, Rec(x.op, "note", x.block, x.order, x.own, x.promote, i, x.todo \ {i}))
    BY <1>0, <1>4, <1>5, <1>6, <2>2, Gone
  <2> QED
    BY <1>1, <1>3, <1>7, <2>1, <2>3 DEF Resolves
<1>8. CASE i \notin Waiting
  <2>2. Goto(t, y, "next") /\ UNCHANGED waits
    BY <1>2, <1>4, <1>8 DEF ResolveWait
  <2>3. Move(t, Rec(x.op, "next", x.block, x.order, x.own, x.promote, i, x.todo \ {i}))
    BY <1>0, <1>4, <1>5, <1>6, <2>2, Gone
  <2> QED
    BY <1>1, <1>3, <1>8, <2>2, <2>3 DEF Resolves
<1> QED
  BY <1>7, <1>8

LEMMA Noticed ==
  ASSUME TypeInv, NEW t \in Task, LogWaitResolution(t)
  PROVE Notes(t)
<1>0. /\ IsRec(tasks[t]) /\ DOMAIN tasks = Task /\ Does(tasks[t].op, tasks[t].pc)
  BY TaskFacts
<1>1. tasks[t].op \in Resumes
  BY <1>0 DEF LogWaitResolution, Does, InTx, Resumes, Starts
<1>2. Move(t, Here(tasks[t], "next")) \/ Move(t, Here(tasks[t], "resume"))
  BY <1>0, Gone DEF LogWaitResolution
<1> QED
  BY <1>1, <1>2 DEF LogWaitResolution, Notes

LEMMA Resumed ==
  ASSUME TypeInv, NEW t \in Task, ResumeFromBlock(t)
  PROVE ResumesWalk(t)
<1> PICK x : x = tasks[t]
  OBVIOUS
<1>0. /\ IsRec(x) /\ IsTask(x) /\ DOMAIN tasks = Task /\ Does(x.op, x.pc)
  BY TaskFacts
<1>1. PICK b, k : b = waits[x.wait].block + 1 /\ k = IF DOMAIN logs = {} THEN waits[x.wait].order ELSE Max(DOMAIN logs)
  OBVIOUS
<1>2. PICK y : y = [x EXCEPT !.block = b, !.order = k]
  OBVIOUS
<1>3. y = At(x, x.pc, b, k, x.own) /\ IsRec(y)
  <2>1. PICK z : z = [x EXCEPT !.block = b]
    OBVIOUS
  <2>2. z = At(x, x.pc, b, x.order, x.own) /\ IsRec(z)
    BY <1>0, <2>1, SetBlock
  <2>3. y = [z EXCEPT !.order = k]
    BY <1>0, <1>2, <2>1 DEF IsRec, Rec
  <2>4. y = At(z, z.pc, z.block, k, z.own) /\ IsRec(y)
    BY <2>2, <2>3, SetOrder
  <2> QED
    BY <2>2, <2>4 DEF At, Rec
<1>4. Here(y, "walk") = At(x, "walk", b, k, x.own)
  BY <1>3 DEF Here, At, Rec
<1>5. /\ Goto(t, y, "walk") /\ x.op \in Resumes /\ x.pc = "resume"
      /\ UNCHANGED <<status, entered, logs, waits, run, performed, crashes>>
  BY <1>0, <1>1, <1>2 DEF ResumeFromBlock, Does, InTx, Resumes, Starts
<1>6. Move(t, At(x, "walk", b, k, x.own))
  BY <1>0, <1>3, <1>4, <1>5, Gone
<1> QED
  BY <1>1, <1>5, <1>6 DEF ResumesWalk

LEMMA Restarted ==
  ASSUME TypeInv, NEW t \in Task, Reassign(t)
  PROVE Restarts(t)
<1>1. Start = Rec("start", "walk", 1, 0, <<>>, FALSE, 0, {})
  BY Openings DEF Start
<1>2. Move(t, Start)
  BY Moves DEF Reassign, TypeInv
<1> QED
  BY <1>1, <1>2 DEF Reassign, Restarts, Status

LEMMA Rolled ==
  ASSUME TypeInv, NEW t \in Task, Rollback(t) \/ TimeOut(t) \/ FinishLate(t)
  PROVE Rolls(t)
<1> PICK x : x = tasks[t]
  OBVIOUS
<1>0. /\ IsRec(x) /\ IsTask(x) /\ DOMAIN tasks = Task /\ Does(x.op, x.pc)
      /\ status \in Status /\ rollbacks \in 0..MaxRollbacks /\ MaxRollbacks \in Nat
  BY TaskFacts, BoundAssumption DEF TypeInv
<1>1. x.op \in InTx /\ UNCHANGED <<entered, logs, waits, run, crashes>>
  BY <1>0 DEF Rollback, TimeOut, FinishLate, InTransaction, InTx, Does, Resumes, Starts
<1>2. RolledBack => rollbacks' = rollbacks + 1 /\ rollbacks' \in 0..MaxRollbacks
  BY <1>0 DEF RolledBack
<1>3. CASE Rollback(t)
  BY <1>0, <1>1, <1>2, <1>3, Returned DEF Rollback, Rolls
<1>4. CASE TimeOut(t)
  <2>1. PICK nil, y : nil = <<>> /\ y = [x EXCEPT !.own = nil]
    OBVIOUS
  <2>2. y = At(x, x.pc, x.block, x.order, nil) /\ IsRec(y)
    BY <1>0, <2>1, SetOwn
  <2>3. Here(y, "late") = At(x, "late", x.block, x.order, nil)
    BY <2>2 DEF Here, At, Rec
  <2>4. Goto(t, y, "late")
    BY <1>4, <2>1 DEF TimeOut
  <2>5. Move(t, At(x, "late", x.block, x.order, <<>>))
    BY <1>0, <2>1, <2>2, <2>3, <2>4, Gone
  <2>6. x.pc = "walk" /\ x.block \in Block /\ KindOf(x.block) \notin {"ACTION", "WAIT_FOR"}
    BY <1>4, BlockFacts DEF TimeOut, Halts
  <2> QED
    BY <1>0, <1>1, <1>2, <1>4, <2>5, <2>6 DEF TimeOut, Rolls
<1>5. CASE FinishLate(t)
  <2>1. status' \in Status /\ (Performs(x.block) \/ UNCHANGED performed)
    BY <1>0, <1>5, Performing DEF FinishLate, SystemBlockFails
  <2> QED
    BY <1>0, <1>1, <1>5, <2>1, Returned DEF FinishLate, Rolls
<1> QED
  BY <1>3, <1>4, <1>5

LEMMA Unrolled ==
  ASSUME NEW t,
         \/ Continue(t) /\ ~FinishLate(t)
         \/ AdvanceStep(t) \/ SubmitPosition(t) \/ HandleExpiredWaits(t)
         \/ UpdateStatus(t) \/ Assign(t) \/ Reassign(t)
  PROVE UNCHANGED rollbacks
<1>1. CASE AdvanceStep(t) \/ SubmitPosition(t) \/ HandleExpiredWaits(t) \/ UpdateStatus(t) \/ Assign(t) \/ Reassign(t)
  BY <1>1 DEF AdvanceStep, SubmitPosition, HandleExpiredWaits, UpdateStatus, Assign, Reassign
<1>2. CASE FromStart(t) \/ Wake(t) \/ LogFromStart(t) \/ Timer(t) \/ LogTimer(t)
  BY <1>2 DEF FromStart, Wake, LogFromStart, Timer, LogTimer
<1>3. CASE WalkBlocks(t) \/ InsertLog(t) \/ Abort(t) \/ CommitLogs(t) \/ ReadProgress(t) \/ Conclude(t)
  BY <1>3 DEF WalkBlocks, InsertLog, Abort, CommitLogs, ReadProgress, Conclude
<1>4. CASE \/ CancelWaits(t) \/ CheckEarlyTrigger(t) \/ ResolveWait(t) \/ NoMoreWaits(t)
           \/ LogWaitResolution(t) \/ ResumeFromBlock(t)
  BY <1>4 DEF CancelWaits, CheckEarlyTrigger, ResolveWait, NoMoreWaits, LogWaitResolution, ResumeFromBlock
<1> QED
  BY <1>1, <1>2, <1>3, <1>4 DEF Continue

LEMMA Turning ==
  ASSUME TypeInv, NEW t \in Task,
         \/ Continue(t) \/ Rollback(t) \/ TimeOut(t) \/ AdvanceStep(t) \/ SubmitPosition(t) \/ HandleExpiredWaits(t)
         \/ UpdateStatus(t) \/ Assign(t) \/ Reassign(t)
  PROVE Turn(t) \/ Rolls(t)
<1>1. CASE Rollback(t) \/ TimeOut(t) \/ FinishLate(t)
  BY <1>1, Rolled
<1>2. CASE ~(Rollback(t) \/ TimeOut(t) \/ FinishLate(t))
  <2>1. UNCHANGED rollbacks
    BY <1>2, Unrolled
  <2> QED
    BY <1>2, <2>1, StartTurns, TimerTurns, StartLogged, Woken, Advances, TxTurns, TxLogged, Left, Committed, Opened, Found,
       Resolved, Noticed, Resumed, Restarted DEF Continue, Turn
<1> QED
  BY <1>1, <1>2

----------------------------------------------------------------------------
(* Types *)

LEMMA RowFacts ==
  ASSUME NEW k \in Nat \ {0}, NEW b \in Block, NEW w \in BOOLEAN
  PROVE IsLogs(Row(k, b, w)) /\ DOMAIN Row(k, b, w) = {k} /\ Row(k, b, w)[k] = [block |-> b, waiting |-> w]
<1>1. DOMAIN Row(k, b, w) = {k} /\ Row(k, b, w)[k] = [block |-> b, waiting |-> w]
  BY DEF Row, StepLog
<1>2. {k} \subseteq 1..k
  OBVIOUS
<1> QED
  BY <1>1, <1>2 DEF IsLogs

LEMMA WithFacts ==
  ASSUME NEW a, NEW b
  PROVE /\ DOMAIN With(a, b) = DOMAIN a \cup DOMAIN b
        /\ \A k \in DOMAIN a : With(a, b)[k] = a[k]
        /\ \A k \in DOMAIN b : k \notin DOMAIN a => With(a, b)[k] = b[k]
        /\ IsLogs(a) /\ IsLogs(b) => IsLogs(With(a, b))
<1>1. /\ DOMAIN With(a, b) = DOMAIN a \cup DOMAIN b
      /\ \A k \in DOMAIN a : With(a, b)[k] = a[k]
      /\ \A k \in DOMAIN b : k \notin DOMAIN a => With(a, b)[k] = b[k]
  BY DEF With
<1>2. ASSUME IsLogs(a), IsLogs(b)
      PROVE IsLogs(With(a, b))
  <2>1. PICK m \in Nat : DOMAIN a \subseteq 1..m
    BY <1>2 DEF IsLogs
  <2>2. PICK n \in Nat : DOMAIN b \subseteq 1..n
    BY <1>2 DEF IsLogs
  <2>3. m + n \in Nat /\ DOMAIN With(a, b) \subseteq 1..(m + n)
    BY <1>1, <2>1, <2>2
  <2>4. \A k \in DOMAIN With(a, b) : With(a, b)[k] \in [block : Block, waiting : BOOLEAN]
    BY <1>1, <1>2 DEF IsLogs
  <2> QED
    BY <2>3, <2>4 DEF IsLogs
<1> QED
  BY <1>1, <1>2

LEMMA Unlogged == IsLogs(<<>>) /\ DOMAIN <<>> = {}
<1>1. DOMAIN <<>> = {}
  OBVIOUS
<1>2. {} \subseteq 1..0
  OBVIOUS
<1> QED
  BY <1>1, <1>2 DEF IsLogs

LEMMA IdleIsTask == IsTask(Idle) /\ Idle.todo = {} /\ Idle.op = "none" /\ Idle.pc = "idle" /\ DOMAIN Idle.own = {}
<1>1. /\ Idle.op = "none" /\ Idle.pc = "idle" /\ Idle.block = 0 /\ Idle.order = 0 /\ Idle.own = <<>>
      /\ Idle.promote \in BOOLEAN /\ Idle.todo = {} /\ IsRec(Idle)
  BY Openings DEF Idle
<1> QED
  BY <1>1, BlockFacts, Unlogged DEF IsTask, Does, OpName, InTx, Starts, Resumes

(* The rows of waits stay what they are, but for the end of one.           *)
Kept ==
  /\ waits' \in Seq(WaitRow)
  /\ DOMAIN waits \subseteq DOMAIN waits'
  /\ \A i \in DOMAIN waits : /\ waits'[i].block = waits[i].block /\ waits'[i].run = waits[i].run
                             /\ waits[i].status # "WAITING" => waits'[i].status = waits[i].status

LEMMA Same ==
  ASSUME TypeInv, UNCHANGED waits
  PROVE Kept
  BY DEF TypeInv, Kept

LEMMA WaitsKept ==
  ASSUME TypeInv, NEW t \in Task, Turn(t)
  PROVE Kept
<1> PICK x : x = tasks[t]
  OBVIOUS
<1>0. /\ waits \in Seq(WaitRow) /\ DOMAIN waits = 1..Len(waits) /\ Len(waits) \in Nat /\ run \in 1..MaxRuns
      /\ \A i \in DOMAIN waits : waits[i] \in WaitRow
      /\ IsTask(x) /\ Refers(x, waits)
  BY TaskFacts DEF TypeInv
<1>1. ASSUME UNCHANGED waits PROVE Kept
  BY <1>1, Same
<1>2. CASE Commits(t)
  <2>1. CASE waits' = waits
    BY <1>1, <2>1
  <2>2. CASE /\ \E k \in DOMAIN x.own : x.own[k].waiting
             /\ waits' = Append(waits, [block |-> x.own[x.order].block, status |-> "WAITING", order |-> x.order,
                                        expired |-> FALSE, run |-> run])
    <3>1. x.order \in DOMAIN x.own /\ x.order \in Nat /\ x.own[x.order].block \in Block
      BY <1>0, <2>2 DEF IsTask, IsLogs
    <3>2. PICK row : row = [block |-> x.own[x.order].block, status |-> "WAITING", order |-> x.order,
                                        expired |-> FALSE, run |-> run]
      OBVIOUS
    <3>3. row \in WaitRow
      BY <1>0, <3>1, <3>2 DEF WaitRow, WaitStatus
    <3>4. waits' = Append(waits, row)
      BY <2>2, <3>2
    <3>5. waits' \in Seq(WaitRow) /\ DOMAIN waits' = 1..(Len(waits) + 1)
      BY <1>0, <3>3, <3>4
    <3>6. \A i \in DOMAIN waits : waits'[i] = waits[i]
      BY <1>0, <3>3, <3>4
    <3> QED
      BY <1>0, <3>5, <3>6 DEF Kept
  <2> QED
    BY <1>2, <2>1, <2>2 DEF Commits
<1>3. ASSUME NEW i \in DOMAIN waits, NEW over \in WaitStatus, i \in Waiting, waits' = [waits EXCEPT ![i].status = over]
      PROVE Kept
  <2>1. PICK row : row = [waits[i] EXCEPT !.status = over]
    OBVIOUS
  <2>2. row \in WaitRow /\ row.block = waits[i].block /\ row.run = waits[i].run
    BY <1>0, <1>3, <2>1 DEF WaitRow
  <2>3. waits' = [waits EXCEPT ![i] = row]
    BY <1>3, <2>1
  <2>4. waits' \in Seq(WaitRow) /\ DOMAIN waits' = DOMAIN waits /\ waits'[i] = row
        /\ \A j \in DOMAIN waits : j # i => waits'[j] = waits[j]
    BY <1>0, <2>2, <2>3
  <2> QED
    BY <1>3, <2>2, <2>4 DEF Kept, Waiting
<1>4. CASE Resolves(t)
  <2>1. PICK i \in x.todo, over \in {"EXPIRED", "TRIGGERED"} :
          (i \in Waiting /\ waits' = [waits EXCEPT ![i].status = over]) \/ UNCHANGED waits
    BY <1>4 DEF Resolves
  <2>2. i \in DOMAIN waits /\ over \in WaitStatus
    BY <1>0, <2>1 DEF Refers, WaitStatus
  <2> QED
    BY <1>1, <1>3, <2>1, <2>2
<1>5. CASE Finds(t)
  <2>1. CASE waits' = [i \in DOMAIN waits |->
                        IF i \in Waiting THEN [waits[i] EXCEPT !.status = "CANCELLED"] ELSE waits[i]]
    <3>1. DOMAIN waits' = 1..Len(waits)
      BY <1>0, <2>1
    <3>2. \A i \in DOMAIN waits : waits'[i] \in WaitRow /\ waits'[i].block = waits[i].block /\ waits'[i].run = waits[i].run
      BY <1>0, <2>1 DEF WaitRow, WaitStatus
    <3>3. \A i \in DOMAIN waits : waits[i].status # "WAITING" => waits'[i] = waits[i]
      BY <2>1 DEF Waiting
    <3>4. waits' = [i \in 1..Len(waits) |-> waits'[i]]
      BY <1>0, <2>1
    <3>5. waits' \in Seq(WaitRow)
      BY <1>0, <3>2, <3>4
    <3> QED
      BY <1>0, <3>1, <3>2, <3>3, <3>5 DEF Kept
  <2> QED
    BY <1>1, <1>5, <2>1 DEF Finds
<1>6. CASE StartTurn(t) \/ StartLogs(t) \/ Wakes(t) \/ Reads(t)
  BY <1>1, <1>6 DEF StartTurn, StartLogs, Wakes, Reads
<1>7. CASE TxTurn(t) \/ TxLogs(t) \/ Leaves(t) \/ Opens(t)
  BY <1>1, <1>7 DEF TxTurn, TxLogs, Leaves, Opens
<1>8. CASE Notes(t) \/ ResumesWalk(t) \/ Restarts(t)
  BY <1>1, <1>8 DEF Notes, ResumesWalk, Restarts
<1> QED
  BY <1>2, <1>4, <1>5, <1>6, <1>7, <1>8 DEF Turn

LEMMA ExpireKeeps ==
  ASSUME TypeInv, Expire
  PROVE Kept /\ DOMAIN waits' = DOMAIN waits /\ \A i \in DOMAIN waits : waits'[i].status = waits[i].status
<1>0. /\ waits \in Seq(WaitRow) /\ DOMAIN waits = 1..Len(waits) /\ Len(waits) \in Nat
      /\ \A i \in DOMAIN waits : waits[i] \in WaitRow
  BY DEF TypeInv
<1>1. PICK i \in DOMAIN waits : waits' = [waits EXCEPT ![i].expired = TRUE]
  BY DEF Expire, Waiting
<1>2. PICK row : row = [waits[i] EXCEPT !.expired = TRUE]
  OBVIOUS
<1>3. row \in WaitRow /\ row.block = waits[i].block /\ row.run = waits[i].run /\ row.status = waits[i].status
  BY <1>0, <1>2 DEF WaitRow
<1>4. waits' = [waits EXCEPT ![i] = row]
  BY <1>1, <1>2
<1>5. waits' \in Seq(WaitRow) /\ DOMAIN waits' = DOMAIN waits /\ waits'[i] = row
      /\ \A j \in DOMAIN waits : j # i => waits'[j] = waits[j]
  BY <1>0, <1>3, <1>4
<1> QED
  BY <1>3, <1>5 DEF Kept

LEMMA Moved ==
  ASSUME TypeInv, NEW t \in Task, NEW y, Move(t, y), IsTask(y), Refers(y, waits'), Kept
  PROVE DOMAIN tasks' = Task /\ \A u \in Task : IsTask(tasks'[u]) /\ Refers(tasks'[u], waits')
<1>1. ASSUME NEW u \in Task, u # t
      PROVE IsTask(tasks'[u]) /\ Refers(tasks'[u], waits')
  BY <1>1, TaskFacts DEF Move, Refers, Kept
<1> QED
  BY <1>1 DEF Move

(* What is known of a task's fields.                                       *)
LEMMA Fields ==
  ASSUME NEW x, IsTask(x)
  PROVE /\ IsRec(x) /\ x.op \in OpName /\ Does(x.op, x.pc)
        /\ x.block \in Nat /\ x.block <= Len(Flow) + 1 /\ x.order \in Nat /\ IsLogs(x.own) /\ x.promote \in BOOLEAN
        /\ Len(Flow) \in Nat /\ Block = 1..Len(Flow)
  BY BlockFacts DEF IsTask

LEMMA StartTyped ==
  ASSUME TypeInv, NEW t \in Task, StartTurn(t) \/ StartLogs(t) \/ Wakes(t)
  PROVE \E y : Move(t, y) /\ IsTask(y) /\ Refers(y, waits')
<1> PICK x : x = tasks[t]
  OBVIOUS
<1>0. IsTask(x) /\ Refers(x, waits) /\ waits' = waits /\ IsTask(Idle) /\ Idle.todo = {} /\ Idle.op = "none"
  BY TaskFacts, IdleIsTask DEF StartTurn, StartLogs, Wakes
<1>1. /\ IsRec(x) /\ x.op \in OpName /\ Does(x.op, x.pc)
      /\ x.block \in Nat /\ x.block <= Len(Flow) + 1 /\ x.order \in Nat /\ IsLogs(x.own) /\ x.promote \in BOOLEAN
      /\ Len(Flow) \in Nat /\ Block = 1..Len(Flow) /\ x.op \in Starts /\ x.pc \in {"walk", "sleep", "log"}
      /\ x.todo \subseteq DOMAIN waits
  BY <1>0, Fields DEF Refers, StartTurn, StartLogs, Wakes
<1>3. x.op \notin InTx /\ x.op \notin Resumes /\ DOMAIN x.own = {} /\ x.block >= 1
  BY <1>0, <1>1 DEF IsTask, InTx, Starts, Resumes
<1>4. CASE Move(t, Idle)
  BY <1>0, <1>4 DEF Refers, Resumes
<1>5. ASSUME NEW o \in Starts, NEW b \in 1..(Len(Flow) + 1), NEW n \in Nat, NEW pc \in {"walk", "sleep", "log"},
             pc = "log" \/ (o = "start" /\ pc = "sleep") => b \in Block /\ KindOf(b) # "ACTION",
             Move(t, Rec(o, pc, b, n, x.own, x.promote, x.wait, x.todo))
      PROVE \E y : Move(t, y) /\ IsTask(y) /\ Refers(y, waits')
  <2> PICK y : y = Rec(o, pc, b, n, x.own, x.promote, x.wait, x.todo)
    OBVIOUS
  <2>1. /\ y.op = o /\ y.pc = pc /\ y.block = b /\ y.order = n /\ y.own = x.own /\ y.promote = x.promote
        /\ y.wait = x.wait /\ y.todo = x.todo /\ IsRec(y)
    BY Named DEF Rec
  <2>2. o \notin InTx /\ o \notin Resumes /\ Does(o, pc) /\ o \in OpName
    BY DEF InTx, Starts, Resumes, Does, OpName
  <2>3. IsTask(y)
    BY <1>1, <1>3, <1>5, <2>1, <2>2 DEF IsTask
  <2>4. Refers(y, waits')
    BY <1>0, <1>1, <2>1, <2>2 DEF Refers
  <2> QED
    BY <1>5, <2>3, <2>4
<1>6. CASE Wakes(t)
  <2>1. CASE x.op = "timer"
    <3>1. Move(t, Rec(x.op, "walk", x.block, x.order, x.own, x.promote, x.wait, x.todo))
      BY <1>6, <2>1 DEF Wakes, Here, At
    <3> QED
      BY <1>1, <1>3, <1>5, <2>1, <3>1
  <2>2. CASE x.op # "timer"
    <3>1. Move(t, Rec(x.op, "log", x.block, x.order, x.own, x.promote, x.wait, x.todo))
      BY <1>6, <2>2 DEF Wakes, Here, At
    <3>2. x.block \in Block /\ KindOf(x.block) # "ACTION"
      BY <1>0, <1>1, <1>6, <2>2 DEF Wakes, IsTask, Starts
    <3> QED
      BY <1>1, <1>3, <1>5, <3>1, <3>2
  <2> QED
    BY <2>1, <2>2
<1>7. CASE StartLogs(t)
  <2>1. x.block \in Block /\ x.block + 1 \in 1..(Len(Flow) + 1) /\ x.order + 1 \in Nat
    BY <1>0, <1>1, <1>7 DEF StartLogs, IsTask
  <2>2. CASE \E order \in {x.order + 1, x.order} :
               Move(t, Rec(x.op, "walk", x.block + 1, order, x.own, x.promote, x.wait, x.todo))
    BY <1>1, <1>3, <1>5, <2>1, <2>2
  <2> QED
    BY <1>4, <1>7, <2>2 DEF StartLogs, At
<1>8. CASE StartTurn(t)
  <2>1. CASE Move(t, Idle)
    BY <1>4, <2>1
  <2>2. CASE x.block \in Block /\ KindOf(x.block) # "ACTION"
    <3>1. x.block + 1 \in 1..(Len(Flow) + 1) /\ x.block \in 1..(Len(Flow) + 1)
      BY <1>1, <2>2
    <3>2. \/ Move(t, Rec(x.op, "log", x.block, x.order, x.own, x.promote, x.wait, x.todo))
          \/ Move(t, Rec(x.op, "walk", x.block + 1, x.order, x.own, x.promote, x.wait, x.todo))
          \/ Move(t, Rec(x.op, "sleep", x.block, x.order, x.own, x.promote, x.wait, x.todo))
          \/ Move(t, Rec("timer", "sleep", x.block + 1, x.order, x.own, x.promote, x.wait, x.todo))
          \/ Move(t, Idle)
      BY <1>8 DEF StartTurn, Here, At
    <3>3. "timer" \in Starts /\ "timer" # "start"
      BY DEF Starts
    <3> QED
      BY <1>1, <1>3, <1>4, <1>5, <2>2, <3>1, <3>2, <3>3
  <2> QED
    BY <1>8, <2>1, <2>2 DEF StartTurn
<1> QED
  BY <1>6, <1>7, <1>8

(* The number of logs is one.                                              *)
LEMMA LogsFinite ==
  ASSUME NEW rows, IsLogs(rows)
  PROVE IsFiniteSet(DOMAIN rows) /\ Cardinality(DOMAIN rows) \in Nat /\ DOMAIN rows \subseteq Nat \ {0}
<1>1. PICK n \in Nat : DOMAIN rows \subseteq 1..n
  BY DEF IsLogs
<1>2. IsFiniteSet(DOMAIN rows)
  <2>1. IsFiniteSet(1..n)
    BY FS_Interval
  <2> QED
    BY <1>1, <2>1, FS_Subset
<1> QED
  BY <1>1, <1>2, FS_CardinalityType

LEMMA ReadTyped ==
  ASSUME TypeInv, NEW t \in Task, Reads(t)
  PROVE \E y : Move(t, y) /\ IsTask(y) /\ Refers(y, waits')
<1>0. IsTask(Idle) /\ Idle.todo = {} /\ Idle.op = "none" /\ waits' = waits
  BY IdleIsTask DEF Reads
<1>1. CASE Move(t, Idle)
  BY <1>0, <1>1 DEF Refers, Resumes
<1>2. CASE /\ Advanceable
           /\ Move(t, Rec("advance", "first", CurrentBlock, NextStepOrder, <<>>, Advancing.promote, 0, {}))
  <2>1. CurrentBlock \in Block
    <3>1. ~Complete
      BY <1>2 DEF Advanceable
    <3>2. {b \in Block : Stops(b)} # {} /\ {b \in Block : Stops(b)} \subseteq Nat
      BY <3>1, BlockFacts DEF Complete
    <3> QED
      BY <3>1, <3>2, Least DEF CurrentBlock
  <2>2. NextStepOrder \in Nat /\ NextStepOrder >= 1
    BY LogsFinite DEF TypeInv, NextStepOrder
  <2>3. PICK p : p = (status \in {"ATRIBUIDA", "AJUSTE"} /\ \A b \in Block : KindOf(b) # "STATUS")
    OBVIOUS
  <2>4. Advancing = Rec("advance", "first", CurrentBlock, NextStepOrder, <<>>, p, 0, {})
    <3>1. Advancing = [Idle EXCEPT !.op = "advance", !.pc = "first", !.block = CurrentBlock, !.order = NextStepOrder,
                                   !.promote = p]
      BY <2>3 DEF Advancing
    <3> QED
      BY <3>1, AdvanceOpening
  <2>5. Advancing.promote = p /\ p \in BOOLEAN
    BY <2>3, <2>4 DEF Rec
  <2> PICK y : y = Rec("advance", "first", CurrentBlock, NextStepOrder, <<>>, Advancing.promote, 0, {})
    OBVIOUS
  <2>6. /\ y.op = "advance" /\ y.pc = "first" /\ y.block = CurrentBlock /\ y.order = NextStepOrder /\ y.own = <<>>
        /\ y.promote = p /\ y.todo = {} /\ IsRec(y)
    BY <2>5, Named DEF Rec
  <2>7. IsTask(y)
    BY <2>1, <2>2, <2>5, <2>6, BlockFacts, Unlogged DEF IsTask, Does, OpName, InTx, Starts
  <2> QED
    BY <1>2, <2>6, <2>7 DEF Refers, Resumes
<1> QED
  BY <1>1, <1>2 DEF Reads

LEMMA TxTyped ==
  ASSUME TypeInv, NEW t \in Task, TxTurn(t) \/ Leaves(t)
  PROVE \E y : Move(t, y) /\ IsTask(y) /\ Refers(y, waits')
<1> PICK x : x = tasks[t]
  OBVIOUS
<1>0. IsTask(x) /\ Refers(x, waits) /\ waits' = waits /\ IsTask(Idle) /\ Idle.todo = {} /\ Idle.op = "none"
  BY TaskFacts, IdleIsTask DEF TxTurn, Leaves
<1>1. /\ IsRec(x) /\ x.op \in OpName /\ Does(x.op, x.pc)
      /\ x.block \in Nat /\ x.block <= Len(Flow) + 1 /\ x.order \in Nat /\ IsLogs(x.own) /\ x.promote \in BOOLEAN
      /\ Len(Flow) \in Nat /\ Block = 1..Len(Flow) /\ x.op \in InTx
      /\ x.todo \subseteq DOMAIN waits
  BY <1>0, Fields DEF Refers, TxTurn, Leaves
<1>2. ASSUME Move(t, Idle)
      PROVE \E y : Move(t, y) /\ IsTask(y) /\ Refers(y, waits')
  BY <1>0, <1>2 DEF Refers, Resumes
<1>3. ASSUME NEW n \in Nat, NEW pc \in {"commit", "wait", "insert", "conclude", "next"}, NEW own, IsLogs(own),
             Move(t, Rec(x.op, pc, x.block, n, own, x.promote, x.wait, x.todo)),
             pc = "next" => x.op \in Resumes, pc \in {"conclude", "next"} => DOMAIN own = {},
             \A k \in DOMAIN own : ~own[k].waiting,
             pc = "insert" => x.block \in Block /\ KindOf(x.block) \notin {"ACTION", "WAIT_FOR"} /\ n >= 1,
             pc = "wait" => x.block \in Block /\ KindOf(x.block) = "WAIT_FOR" /\ n >= 1
      PROVE \E y : Move(t, y) /\ IsTask(y) /\ Refers(y, waits')
  <2> PICK y : y = Rec(x.op, pc, x.block, n, own, x.promote, x.wait, x.todo)
    OBVIOUS
  <2>1. /\ y.op = x.op /\ y.pc = pc /\ y.block = x.block /\ y.order = n /\ y.own = own /\ y.promote = x.promote
        /\ y.wait = x.wait /\ y.todo = x.todo /\ IsRec(y)
    BY Named DEF Rec
  <2>2. Does(x.op, pc) /\ (pc \notin {"walk", "insert", "wait", "commit"} => DOMAIN own = {})
    BY <1>1, <1>3 DEF InTx, Resumes, Does
  <2>3. IsTask(y)
    BY <1>1, <1>3, <2>1, <2>2 DEF IsTask
  <2>4. Refers(y, waits')
    BY <1>0, <1>1, <2>1 DEF Refers
  <2> QED
    BY <1>3, <2>3, <2>4
<1>4. CASE TxTurn(t)
  <2>1. IsLogs(x.own) /\ \A k \in DOMAIN x.own : ~x.own[k].waiting
    BY <1>0, <1>4 DEF IsTask, TxTurn
  <2>2. CASE Halts(x.block) /\ Move(t, Here(x, "commit"))
    BY <1>1, <1>3, <2>1, <2>2 DEF Here, At
  <2>3. CASE KindOf(x.block) = "WAIT_FOR" /\ Move(t, At(x, "wait", x.block, x.order + 1, x.own))
    <3>1. x.block \in Block /\ x.order + 1 \in Nat /\ x.order + 1 >= 1
      BY <1>1, <2>3, BlockFacts
    <3>2. Move(t, Rec(x.op, "wait", x.block, x.order + 1, x.own, x.promote, x.wait, x.todo))
      BY <2>3 DEF At
    <3> QED
      BY <1>3, <2>1, <2>3, <3>1, <3>2
  <2>4. CASE /\ ~Halts(x.block) /\ KindOf(x.block) # "WAIT_FOR"
             /\ Move(t, At(x, "insert", x.block, x.order + 1, x.own))
    <3>1. x.block \in Block /\ KindOf(x.block) # "ACTION" /\ x.order + 1 \in Nat /\ x.order + 1 >= 1
      BY <1>1, <2>4, BlockFacts DEF Halts
    <3>2. Move(t, Rec(x.op, "insert", x.block, x.order + 1, x.own, x.promote, x.wait, x.todo))
      BY <2>4 DEF At
    <3> QED
      BY <1>3, <2>1, <2>4, <3>1, <3>2
  <2> QED
    BY <1>4, <2>2, <2>3, <2>4 DEF TxTurn
<1>5. CASE Leaves(t)
  <2>1. CASE Move(t, Idle)
    BY <1>2, <2>1
  <2>2. CASE x.op \in Resumes /\ Move(t, At(x, "next", x.block, x.order, <<>>))
    BY <1>1, <1>3, <2>2, Unlogged DEF At
  <2>3. CASE x.pc = "progress" /\ Move(t, Here(x, "conclude"))
    <3>1. DOMAIN x.own = {}
      BY <1>0, <2>3 DEF IsTask
    <3> QED
      BY <1>1, <1>3, <2>3, <3>1 DEF Here, At
  <2> QED
    BY <1>5, <2>1, <2>2, <2>3 DEF Leaves, Turns
<1> QED
  BY <1>4, <1>5

LEMMA TxLogTyped ==
  ASSUME TypeInv, NEW t \in Task, TxLogs(t)
  PROVE \E y : Move(t, y) /\ IsTask(y) /\ Refers(y, waits')
<1> PICK x : x = tasks[t]
  OBVIOUS
<1>0. /\ IsTask(x) /\ Refers(x, waits) /\ waits' = waits /\ x.op \in InTx /\ x.pc \in {"first", "insert", "wait"}
  BY TaskFacts DEF TxLogs
<1>1. /\ IsRec(x) /\ x.op \in OpName /\ Does(x.op, x.pc)
      /\ x.block \in Nat /\ x.block <= Len(Flow) + 1 /\ x.order \in Nat /\ IsLogs(x.own) /\ x.promote \in BOOLEAN
      /\ Len(Flow) \in Nat /\ Block = 1..Len(Flow)
      /\ x.todo \subseteq DOMAIN waits
  BY <1>0, Fields DEF Refers
<1>2. x.block \in Block /\ x.order >= 1 /\ \A k \in DOMAIN x.own : ~x.own[k].waiting
  BY <1>0 DEF IsTask
<1>w. PICK w \in BOOLEAN : w = (x.pc = "wait")
  OBVIOUS
<1>3. w <=> x.pc = "wait"
  BY <1>w
<1>r. PICK row : row = Row(x.order, x.block, w)
  OBVIOUS
<1>4. IsLogs(row) /\ DOMAIN row = {x.order} /\ row[x.order] = [block |-> x.block, waiting |-> w]
  <2>1. x.order \in Nat \ {0}
    BY <1>1, <1>2
  <2> QED
    BY <1>2, <1>r, <2>1, RowFacts
<1>o. PICK own : own = With(x.own, row)
  OBVIOUS
<1>5. /\ IsLogs(own) /\ DOMAIN own = DOMAIN x.own \cup {x.order}
      /\ \A k \in DOMAIN own : own[k].waiting => k = x.order /\ w /\ KindOf(own[k].block) = "WAIT_FOR"
  <2>0. PICK old : old = x.own
    OBVIOUS
  <2>5. /\ DOMAIN own = DOMAIN old \cup DOMAIN row /\ (\A k \in DOMAIN old : own[k] = old[k])
        /\ (\A k \in DOMAIN row : k \notin DOMAIN old => own[k] = row[k]) /\ (IsLogs(old) /\ IsLogs(row) => IsLogs(own))
    <3>1. own = With(old, row)
      BY <1>o, <2>0
    <3>2. /\ DOMAIN With(old, row) = DOMAIN old \cup DOMAIN row
          /\ \A k \in DOMAIN old : With(old, row)[k] = old[k]
          /\ \A k \in DOMAIN row : k \notin DOMAIN old => With(old, row)[k] = row[k]
          /\ IsLogs(old) /\ IsLogs(row) => IsLogs(With(old, row))
      BY ONLY WithFacts, Zenon
    <3> QED
      BY ONLY <3>1, <3>2
  <2>1. IsLogs(own) /\ DOMAIN own = DOMAIN x.own \cup {x.order}
    BY <1>1, <1>4, <2>0, <2>5
  <2>2. ASSUME NEW k \in DOMAIN own, own[k].waiting PROVE k = x.order /\ w /\ KindOf(own[k].block) = "WAIT_FOR"
    <3>1. k \notin DOMAIN x.own
      BY <1>2, <2>0, <2>2, <2>5
    <3>2. k \in DOMAIN row /\ own[k] = row[k]
      BY <1>4, <2>0, <2>1, <2>5, <3>1
    <3>3. k = x.order /\ w /\ own[k].block = x.block
      BY <1>4, <2>2, <3>2
    <3> QED
      BY <1>0, <1>3, <3>3 DEF IsTask
  <2> QED
    BY <2>1, <2>2
<1>6. IF x.pc = "wait" THEN Move(t, At(x, "commit", x.block, x.order, own))
                       ELSE Move(t, At(x, "walk", x.block + 1, x.order, own))
  BY <1>w, <1>r, <1>o DEF TxLogs
<1>7. ASSUME NEW b \in 1..(Len(Flow) + 1), NEW pc \in {"commit", "walk"}, w => pc = "commit",
             Move(t, Rec(x.op, pc, b, x.order, own, x.promote, x.wait, x.todo))
      PROVE \E y : Move(t, y) /\ IsTask(y) /\ Refers(y, waits')
  <2> PICK y : y = Rec(x.op, pc, b, x.order, own, x.promote, x.wait, x.todo)
    OBVIOUS
  <2>1. /\ y.op = x.op /\ y.pc = pc /\ y.block = b /\ y.order = x.order /\ y.own = own /\ y.promote = x.promote
        /\ y.wait = x.wait /\ y.todo = x.todo /\ IsRec(y)
    BY Named DEF Rec
  <2>2. Does(x.op, pc)
    BY <1>0 DEF InTx, Does
  <2>3. IsTask(y)
    <3>1. \A k \in DOMAIN own : own[k].waiting => pc = "commit" /\ k = x.order /\ KindOf(own[k].block) = "WAIT_FOR"
      BY <1>5, <1>7
    <3> QED
      BY <1>0, <1>1, <1>5, <1>7, <2>1, <2>2, <3>1 DEF IsTask
  <2> QED
    BY <1>0, <1>1, <1>7, <2>1, <2>3 DEF Refers
<1>8. x.block \in 1..(Len(Flow) + 1) /\ x.block + 1 \in 1..(Len(Flow) + 1)
  BY <1>1, <1>2
<1> QED
  BY <1>3, <1>6, <1>7, <1>8 DEF At

LEMMA WaitTyped ==
  ASSUME TypeInv, NEW t \in Task, Kept, Commits(t) \/ Resolves(t) \/ Notes(t) \/ ResumesWalk(t)
  PROVE \E y : Move(t, y) /\ IsTask(y) /\ Refers(y, waits')
<1> PICK x : x = tasks[t]
  OBVIOUS
<1>0. IsTask(x) /\ Refers(x, waits) /\ DOMAIN waits \subseteq DOMAIN waits'
  BY TaskFacts DEF Kept
<1>1. /\ IsRec(x) /\ x.op \in OpName /\ Does(x.op, x.pc)
      /\ x.block \in Nat /\ x.block <= Len(Flow) + 1 /\ x.order \in Nat /\ IsLogs(x.own) /\ x.promote \in BOOLEAN
      /\ Len(Flow) \in Nat /\ Block = 1..Len(Flow) /\ x.op \in InTx
      /\ x.todo \subseteq DOMAIN waits
  BY <1>0, Fields DEF Refers, Commits, Resolves, Notes, ResumesWalk, InTx, Resumes
<1>2. x.pc # "commit" => DOMAIN x.own = {}
  BY <1>0 DEF IsTask, Commits, Resolves, Notes, ResumesWalk
<1>3. ASSUME NEW b \in 0..(Len(Flow) + 1), NEW n \in Nat, NEW pc \in {"progress", "note", "next", "resume", "walk"}, NEW own,
             NEW i, NEW todo \in SUBSET DOMAIN waits, IsLogs(own), DOMAIN own = {},
             Move(t, Rec(x.op, pc, b, n, own, x.promote, i, todo)),
             pc # "progress" => x.op \in Resumes, pc = "walk" => b >= 1,
             pc \in {"note", "resume"} => i \in DOMAIN waits
      PROVE \E y : Move(t, y) /\ IsTask(y) /\ Refers(y, waits')
  <2> PICK y : y = Rec(x.op, pc, b, n, own, x.promote, i, todo)
    OBVIOUS
  <2>1. /\ y.op = x.op /\ y.pc = pc /\ y.block = b /\ y.order = n /\ y.own = own /\ y.promote = x.promote
        /\ y.wait = i /\ y.todo = todo /\ IsRec(y)
    BY Named DEF Rec
  <2>2. Does(x.op, pc)
    BY <1>1, <1>3 DEF InTx, Resumes, Does
  <2>3. IsTask(y)
    BY <1>1, <1>3, <2>1, <2>2 DEF IsTask
  <2>4. Refers(y, waits')
    BY <1>0, <1>3, <2>1 DEF Refers
  <2> QED
    BY <1>3, <2>3, <2>4
<1>8. x.block \in 0..(Len(Flow) + 1)
  BY <1>1
<1>4. CASE Commits(t)
  BY <1>1, <1>3, <1>4, Unlogged DEF Commits, At
<1>5. CASE Resolves(t)
  <2>1. PICK i \in x.todo :
          \/ Move(t, Rec(x.op, "note", x.block, x.order, x.own, x.promote, i, x.todo \ {i}))
          \/ Move(t, Rec(x.op, "next", x.block, x.order, x.own, x.promote, i, x.todo \ {i}))
    BY <1>5 DEF Resolves
  <2>2. x.op \in Resumes /\ DOMAIN x.own = {} /\ i \in DOMAIN waits
    BY <1>1, <1>2, <1>5, <2>1 DEF Resolves
  <2>3. PICK todo \in SUBSET DOMAIN waits : todo = x.todo \ {i}
    BY <1>1
  <2>4. CASE Move(t, Rec(x.op, "note", x.block, x.order, x.own, x.promote, i, todo))
    BY <1>1, <1>3, <1>8, <2>2, <2>4
  <2>5. CASE Move(t, Rec(x.op, "next", x.block, x.order, x.own, x.promote, i, todo))
    BY <1>1, <1>3, <1>8, <2>2, <2>5
  <2> QED
    BY <2>1, <2>3, <2>4, <2>5
<1>6. CASE Notes(t)
  <2>1. x.op \in Resumes /\ DOMAIN x.own = {} /\ x.wait \in DOMAIN waits
    BY <1>0, <1>2, <1>6 DEF Notes, Refers
  <2>2. \/ Move(t, Rec(x.op, "next", x.block, x.order, x.own, x.promote, x.wait, x.todo))
        \/ Move(t, Rec(x.op, "resume", x.block, x.order, x.own, x.promote, x.wait, x.todo))
    BY <1>6 DEF Notes, Here, At
  <2>3. x.todo \in SUBSET DOMAIN waits
    BY <1>1
  <2> QED
    BY <1>1, <1>3, <1>8, <2>1, <2>2, <2>3
<1>7. CASE ResumesWalk(t)
  <2>1. x.op \in Resumes /\ DOMAIN x.own = {} /\ x.wait \in DOMAIN waits
    BY <1>0, <1>2, <1>7 DEF ResumesWalk, Refers
  <2>2. waits[x.wait] \in WaitRow
    BY <2>1 DEF TypeInv
  <2>3. waits[x.wait].block + 1 \in 1..(Len(Flow) + 1) /\ waits[x.wait].order \in Nat
    BY <1>1, <2>2 DEF WaitRow
  <2>n. PICK n : n = IF DOMAIN logs = {} THEN waits[x.wait].order ELSE Max(DOMAIN logs)
    OBVIOUS
  <2>4. n \in Nat
    <3>1. CASE DOMAIN logs = {}
      BY <2>3, <2>n, <3>1
    <3>2. CASE DOMAIN logs # {}
      <4>1. PICK m \in Nat : DOMAIN logs \subseteq 1..m
        BY DEF TypeInv, IsLogs
      <4>2. Max(DOMAIN logs) \in DOMAIN logs
        BY <3>2, <4>1, Greatest
      <4> QED
        BY <2>n, <3>2, <4>1, <4>2
    <3> QED
      BY <3>1, <3>2
  <2>7. PICK b : b = waits[x.wait].block + 1
    OBVIOUS
  <2>5. Move(t, Rec(x.op, "walk", b, n, x.own, x.promote, x.wait, x.todo))
    BY <1>7, <2>7, <2>n DEF ResumesWalk, At
  <2>6. x.todo \in SUBSET DOMAIN waits /\ b \in 0..(Len(Flow) + 1) /\ b >= 1
    BY <1>1, <2>3, <2>7
  <2> QED
    BY <1>1, <1>3, <2>1, <2>4, <2>5, <2>6
<1> QED
  BY <1>4, <1>5, <1>6, <1>7

LEMMA OpenTyped ==
  ASSUME TypeInv, NEW t \in Task, Kept, Opens(t) \/ Finds(t) \/ Restarts(t)
  PROVE \E y : Move(t, y) /\ IsTask(y) /\ Refers(y, waits')
<1> PICK x : x = tasks[t]
  OBVIOUS
<1>0. /\ IsTask(x) /\ DOMAIN waits \subseteq DOMAIN waits' /\ IsTask(Idle) /\ Idle.todo = {} /\ Idle.op = "none"
      /\ Len(Flow) \in Nat
  BY TaskFacts, IdleIsTask, BlockFacts DEF Kept
<1>1. CASE Move(t, Idle)
  BY <1>0, <1>1 DEF Refers, Resumes
<1>2. ASSUME NEW o \in OpName, NEW pc \in {"next", "find", "walk"}, Does(o, pc), NEW b \in 0..(Len(Flow) + 1), NEW n \in Nat, NEW own,
             NEW p \in BOOLEAN, NEW i, NEW todo \in SUBSET DOMAIN waits, IsLogs(own), DOMAIN own = {}, pc = "walk" => b >= 1,
             Move(t, Rec(o, pc, b, n, own, p, i, todo))
      PROVE \E y : Move(t, y) /\ IsTask(y) /\ Refers(y, waits')
  <2> PICK y : y = Rec(o, pc, b, n, own, p, i, todo)
    OBVIOUS
  <2>1. /\ y.op = o /\ y.pc = pc /\ y.block = b /\ y.order = n /\ y.own = own /\ y.promote = p
        /\ y.wait = i /\ y.todo = todo /\ IsRec(y)
    BY Named DEF Rec
  <2>2. IsTask(y)
    BY <1>2, <2>1 DEF IsTask
  <2>3. Refers(y, waits')
    BY <1>0, <1>2, <2>1 DEF Refers
  <2> QED
    BY <1>2, <2>2, <2>3
<1>3. CASE Opens(t)
  <2>1. PICK no : no = FALSE
    OBVIOUS
  <2>2. \/ \E todo \in SUBSET DOMAIN waits : Move(t, Rec("timeout", "next", 0, 0, <<>>, no, 0, todo))
        \/ \E op \in {"cancelled", "event"} : Move(t, Rec(op, "find", 0, 0, <<>>, no, 0, {}))
        \/ Move(t, Idle)
    BY <1>3, <2>1 DEF Opens
  <2>3. /\ "timeout" \in OpName /\ "event" \in OpName /\ "cancelled" \in OpName
        /\ Does("timeout", "next") /\ Does("event", "find") /\ Does("cancelled", "find")
    BY DEF OpName, Does, Resumes
  <2>4. no \in BOOLEAN /\ {} \in SUBSET DOMAIN waits
    BY <2>1
  <2> QED
    BY <1>0, <1>1, <1>2, <2>2, <2>3, <2>4, Unlogged
<1>4. CASE Finds(t)
  <2>1. x.pc = "find" /\ DOMAIN x.own = {}
    BY <1>0, <1>4 DEF Finds, IsTask
  <2>2. CASE x.op = "event" /\ \E todo \in SUBSET DOMAIN waits :
                Move(t, Rec(x.op, "next", x.block, x.order, x.own, x.promote, x.wait, todo))
    <3>1. x.op \in OpName /\ Does(x.op, "next")
      BY <2>2 DEF OpName, Does, Resumes
    <3> QED
      BY <1>0, <1>2, <2>1, <2>2, <3>1, Fields DEF IsTask
  <2> QED
    BY <1>1, <1>4, <2>2 DEF Finds
<1>5. CASE Restarts(t)
  <2>1. PICK no : no = FALSE
    OBVIOUS
  <2>2. Move(t, Rec("start", "walk", 1, 0, <<>>, no, 0, {}))
    BY <1>5, <2>1 DEF Restarts
  <2>3. "start" \in OpName /\ Does("start", "walk") /\ no \in BOOLEAN /\ {} \in SUBSET DOMAIN waits
    BY <2>1 DEF OpName, Does, Starts
  <2> QED
    <3>1. 1 \in 0..(Len(Flow) + 1) /\ 0 \in Nat
      BY <1>0
    <3> QED
      BY <1>2, <2>2, <2>3, <3>1, Unlogged
<1> QED
  BY <1>3, <1>4, <1>5

LEMMA LogsTyped ==
  ASSUME TypeInv, NEW t \in Task, Turn(t)
  PROVE IsLogs(logs')
<1> PICK x : x = tasks[t]
  OBVIOUS
<1>0. IsTask(x) /\ IsLogs(logs)
  BY TaskFacts DEF TypeInv
<1>1. CASE StartLogs(t)
  <2>1. PICK no \in BOOLEAN : no = FALSE
    OBVIOUS
  <2>2. x.block \in Block /\ x.order \in Nat
    BY <1>0, <1>1 DEF StartLogs, IsTask
  <2>3. PICK k \in Nat \ {0} : k = x.order + 1
    BY <2>2
  <2>4. PICK row : row = Row(k, x.block, no)
    OBVIOUS
  <2>5. logs' = With(logs, row)
    BY <1>1, <2>1, <2>3, <2>4 DEF StartLogs
  <2>6. IsLogs(row)
    BY <2>2, <2>4, RowFacts
  <2>7. IsLogs(With(logs, row))
    BY ONLY <1>0, <2>6, WithFacts, Zenon
  <2> QED
    BY <2>5, <2>7
<1>2. CASE Commits(t)
  <2>1. PICK own : own = x.own
    OBVIOUS
  <2>2. IsLogs(own)
    BY <1>0, <2>1 DEF IsTask
  <2>3. IsLogs(With(own, logs))
    BY ONLY <1>0, <2>2, WithFacts, Zenon
  <2> QED
    BY <1>2, <2>1, <2>3 DEF Commits
<1>3. CASE Notes(t)
  <2>1. DOMAIN logs' = DOMAIN logs
    BY <1>3 DEF Notes
  <2>2. \A k \in DOMAIN logs : logs'[k] \in [block : Block, waiting : BOOLEAN]
    BY <1>0, <1>3 DEF Notes, IsLogs
  <2> QED
    BY <1>0, <2>1, <2>2 DEF IsLogs
<1>4. CASE Restarts(t)
  BY <1>4, Unlogged DEF Restarts
<1>5. CASE StartTurn(t) \/ Wakes(t) \/ Reads(t) \/ TxTurn(t) \/ TxLogs(t)
  BY <1>0, <1>5 DEF StartTurn, Wakes, Reads, TxTurn, TxLogs
<1>6. CASE Leaves(t) \/ Opens(t) \/ Finds(t) \/ Resolves(t) \/ ResumesWalk(t)
  BY <1>0, <1>6 DEF Leaves, Opens, Finds, Resolves, ResumesWalk
<1> QED
  BY <1>1, <1>2, <1>3, <1>4, <1>5, <1>6 DEF Turn

LEMMA CountTyped ==
  ASSUME TypeInv, NEW t \in Task, Turn(t)
  PROVE /\ status' \in Status /\ entered' \in BOOLEAN
        /\ performed' \in [Block -> Nat] /\ run' \in 1..MaxRuns /\ crashes' = crashes /\ rollbacks' = rollbacks
<1>0. /\ performed \in [Block -> Nat] /\ status \in Status /\ entered \in BOOLEAN
      /\ run \in 1..MaxRuns /\ MaxRuns \in Nat
  BY BoundAssumption DEF TypeInv
<1>r. rollbacks' = rollbacks
  BY DEF Turn
<1>1. ASSUME NEW b, Performs(b) PROVE performed' \in [Block -> Nat]
  BY <1>0, <1>1 DEF Performs
<1>2. CASE StartTurn(t) \/ StartLogs(t) \/ Wakes(t) \/ Reads(t)
  BY <1>0, <1>r, <1>1, <1>2 DEF StartTurn, StartLogs, Wakes, Reads
<1>3. CASE TxTurn(t) \/ TxLogs(t) \/ Leaves(t) \/ Opens(t)
  BY <1>0, <1>r, <1>1, <1>3 DEF TxTurn, TxLogs, Leaves, Opens
<1>4. CASE Notes(t) \/ ResumesWalk(t) \/ Finds(t) \/ Resolves(t) \/ Commits(t)
  BY <1>0, <1>r, <1>4 DEF Notes, ResumesWalk, Finds, Resolves, Commits
<1>5. CASE Restarts(t)
  BY <1>0, <1>r, <1>5 DEF Restarts
<1> QED
  BY <1>2, <1>3, <1>4, <1>5 DEF Turn

LEMMA TypeTurn ==
  ASSUME TypeInv, NEW t \in Task, Turn(t)
  PROVE TypeInv'
<1>1. Kept
  BY WaitsKept
<1>2. \E y : Move(t, y) /\ IsTask(y) /\ Refers(y, waits')
  BY <1>1, StartTyped, ReadTyped, TxTyped, TxLogTyped, WaitTyped, OpenTyped DEF Turn
<1>3. DOMAIN tasks' = Task /\ \A u \in Task : IsTask(tasks'[u]) /\ Refers(tasks'[u], waits')
  BY <1>1, <1>2, Moved
<1>4. IsLogs(logs')
  BY LogsTyped
<1> QED
  BY <1>1, <1>3, <1>4, CountTyped DEF TypeInv, Kept

(* A rollback ends its task, sends it to its next wait, or leaves it with  *)
(* a system block to finish.                                               *)
LEMMA RollShape ==
  ASSUME TypeInv, NEW t \in Task, Rolls(t)
  PROVE /\ DOMAIN tasks' = Task /\ \A u \in Task : u # t => tasks'[u] = tasks[u]
        /\ IsTask(tasks'[t]) /\ tasks'[t].todo \subseteq tasks[t].todo
        /\ DOMAIN tasks'[t].own = {} /\ tasks'[t].op \notin Starts /\ tasks[t].op \in InTx
        /\ tasks'[t].pc \in {"idle", "next", "late"}
        /\ UNCHANGED <<entered, logs, waits, run, crashes>>
        /\ \/ /\ tasks'[t].pc # "late" /\ tasks[t].pc # "late"
              /\ rollbacks' = rollbacks + 1 /\ UNCHANGED performed
           \/ /\ tasks'[t].pc = "late" /\ tasks[t].pc = "walk" /\ tasks'[t].block = tasks[t].block
              /\ tasks[t].block \in Block /\ KindOf(tasks[t].block) # "ACTION"
              /\ rollbacks' = rollbacks + 1 /\ UNCHANGED performed
           \/ /\ tasks'[t].pc # "late" /\ tasks[t].pc = "late" /\ UNCHANGED rollbacks
              /\ Performs(tasks[t].block) \/ UNCHANGED performed
<1>x. PICK x : x = tasks[t]
  OBVIOUS
<1>0. /\ IsTask(x) /\ x.op \in InTx /\ x.op \notin Starts /\ x.op \in OpName
      /\ UNCHANGED <<entered, logs, waits, run, crashes>>
  BY <1>x, TaskFacts DEF Rolls, InTx, Starts, OpName
<1>1. ASSUME Turns(t)
      PROVE /\ DOMAIN tasks' = Task /\ \A u \in Task : u # t => tasks'[u] = tasks[u]
            /\ IsTask(tasks'[t]) /\ tasks'[t].todo \subseteq x.todo
            /\ DOMAIN tasks'[t].own = {} /\ tasks'[t].op \notin Starts
            /\ tasks'[t].pc \in {"idle", "next"}
  <2>1. CASE Move(t, Idle)
    BY <2>1, IdleIsTask DEF Move, Starts
  <2>2. CASE x.op \in Resumes /\ Move(t, At(x, "next", x.block, x.order, <<>>))
    <3>1. PICK y : y = At(x, "next", x.block, x.order, <<>>)
      OBVIOUS
    <3>2. /\ y.op = x.op /\ y.pc = "next" /\ y.block = x.block /\ y.order = x.order /\ y.own = <<>>
          /\ y.promote = x.promote /\ y.todo = x.todo /\ IsRec(y)
      BY <3>1, Named DEF At, Rec
    <3>3. IsTask(y)
      BY <1>0, <2>2, <3>2, Fields, Unlogged DEF IsTask, Does
    <3> QED
      BY <1>0, <2>2, <3>1, <3>2, <3>3, Unlogged DEF Move
  <2> QED
    BY <1>x, <1>1, <2>1, <2>2 DEF Turns
<1>2. ASSUME x.block \in Block, KindOf(x.block) \notin {"ACTION", "WAIT_FOR"}, Move(t, At(x, "late", x.block, x.order, <<>>))
      PROVE /\ DOMAIN tasks' = Task /\ \A u \in Task : u # t => tasks'[u] = tasks[u]
            /\ IsTask(tasks'[t]) /\ tasks'[t].todo \subseteq x.todo
            /\ DOMAIN tasks'[t].own = {} /\ tasks'[t].op \notin Starts
            /\ tasks'[t].pc = "late" /\ tasks'[t].block = x.block
  <2>1. PICK y : y = At(x, "late", x.block, x.order, <<>>)
    OBVIOUS
  <2>2. /\ y.op = x.op /\ y.pc = "late" /\ y.block = x.block /\ y.order = x.order /\ y.own = <<>>
        /\ y.promote = x.promote /\ y.todo = x.todo /\ IsRec(y)
    BY <2>1, Named DEF At, Rec
  <2>3. IsTask(y)
    BY <1>0, <1>2, <2>2, Fields, Unlogged DEF IsTask, Does
  <2> QED
    BY <1>0, <1>2, <2>1, <2>2, <2>3, Unlogged DEF Move
<1>3. \/ /\ x.pc \in {"first", "walk", "insert", "wait", "commit"} /\ Turns(t)
         /\ rollbacks' = rollbacks + 1 /\ UNCHANGED performed
      \/ /\ x.pc = "walk" /\ x.block \in Block /\ KindOf(x.block) \notin {"ACTION", "WAIT_FOR"}
         /\ Move(t, At(x, "late", x.block, x.order, <<>>))
         /\ rollbacks' = rollbacks + 1 /\ UNCHANGED performed
      \/ /\ x.pc = "late" /\ Turns(t)
         /\ UNCHANGED rollbacks /\ (Performs(x.block) \/ UNCHANGED performed)
  BY <1>x DEF Rolls
<1> QED
  BY <1>x, <1>0, <1>1, <1>2, <1>3

LEMMA TypeRolls ==
  ASSUME TypeInv, NEW t \in Task, Rolls(t)
  PROVE TypeInv'
<1>1. ASSUME NEW u \in Task PROVE IsTask(tasks'[u]) /\ Refers(tasks'[u], waits')
  <2>1. CASE u # t
    BY <2>1, RollShape, TaskFacts
  <2>2. CASE u = t
    <3>1. tasks'[t].pc \notin {"note", "resume"} /\ tasks'[t].todo \subseteq DOMAIN waits /\ waits' = waits
      BY RollShape, TaskFacts DEF Refers
    <3> QED
      BY <2>2, <3>1, RollShape DEF Refers
  <2> QED
    BY <2>1, <2>2
<1>2. performed' \in [Block -> Nat]
  BY RollShape DEF TypeInv, Performs
<1>3. status' \in Status /\ rollbacks' \in 0..MaxRollbacks
  BY DEF Rolls
<1> QED
  BY <1>1, <1>2, <1>3, RollShape DEF TypeInv

LEMMA TypeExpire ==
  ASSUME TypeInv, Expire
  PROVE TypeInv'
<1>1. Kept /\ DOMAIN waits' = DOMAIN waits
  BY ExpireKeeps
<1>2. UNCHANGED <<status, entered, logs, tasks, run, performed, crashes, rollbacks>>
  BY DEF Expire
<1> QED
  BY <1>1, <1>2 DEF TypeInv, Kept, Refers

LEMMA TypeCrash ==
  ASSUME TypeInv, Crash
  PROVE TypeInv'
<1>1. /\ tasks' = [t \in Task |-> Idle] /\ crashes' \in 0..MaxCrashes
      /\ UNCHANGED <<status, entered, logs, waits, run, performed, rollbacks>>
  BY BoundAssumption DEF TypeInv, Crash
<1>2. DOMAIN tasks' = Task /\ \A t \in Task : tasks'[t] = Idle
  BY <1>1
<1>3. \A t \in Task : IsTask(tasks'[t]) /\ Refers(tasks'[t], waits')
  BY <1>2, IdleIsTask DEF Refers, Resumes
<1> QED
  BY <1>1, <1>2, <1>3 DEF TypeInv

LEMMA TypeInit ==
  ASSUME Init
  PROVE TypeInv
<1>1. PICK t \in Task : tasks = [u \in Task |-> IF u = t THEN Start ELSE Idle]
  BY DEF Init
<1>2. PICK y : y = Start
  OBVIOUS
<1>3. PICK no \in BOOLEAN : no = FALSE
  OBVIOUS
<1>4. y = Rec("start", "walk", 1, 0, <<>>, no, 0, {})
  BY <1>2, <1>3, Openings DEF Start
<1>5. /\ y.op = "start" /\ y.pc = "walk" /\ y.block = 1 /\ y.order = 0 /\ y.own = <<>> /\ y.promote = no
      /\ y.todo = {} /\ IsRec(y)
  BY <1>4, Named DEF Rec
<1>6. IsTask(y)
  BY <1>5, Unlogged, BlockFacts DEF IsTask, Does, OpName, InTx, Starts, Resumes
<1>7. \A u \in Task : tasks[u] = y \/ tasks[u] = Idle
  BY <1>1, <1>2
<1>8. \A u \in Task : IsTask(tasks[u]) /\ Refers(tasks[u], waits)
  BY <1>5, <1>6, <1>7, IdleIsTask DEF Refers, Resumes
<1>9. DOMAIN tasks = Task
  BY <1>1
<1>10. /\ status \in Status /\ entered \in BOOLEAN /\ run \in 1..MaxRuns /\ crashes \in 0..MaxCrashes
       /\ rollbacks \in 0..MaxRollbacks /\ performed \in [Block -> Nat]
  <2>1. entered = FALSE /\ run = 1 /\ crashes = 0 /\ rollbacks = 0 /\ status = "ABERTA" /\ performed = [b \in Block |-> 0]
    BY DEF Init
  <2>2. entered \in BOOLEAN
    BY <2>1, Zenon
  <2>3. status \in Status
    BY <2>1 DEF Status
  <2>4. run \in 1..MaxRuns /\ crashes \in 0..MaxCrashes /\ rollbacks \in 0..MaxRollbacks
    BY <2>1, BoundAssumption
  <2>5. performed \in [Block -> Nat]
    BY <2>1
  <2> QED
    BY <2>2, <2>3, <2>4, <2>5
<1>11. waits \in Seq(WaitRow) /\ IsLogs(logs)
  BY Unlogged DEF Init
<1> QED
  BY <1>8, <1>9, <1>10, <1>11 DEF TypeInv

LEMMA TypeSame ==
  ASSUME TypeInv, UNCHANGED vars
  PROVE TypeInv'
  BY DEF TypeInv, vars, Refers

(* A step is a task's turn, a rollback, the end of a wait's time, or a     *)
(* restart.                                                                *)
LEMMA Steps ==
  ASSUME TypeInv, [Next]_vars
  PROVE (\E t \in Task : Turn(t)) \/ (\E t \in Task : Rolls(t)) \/ Expire \/ Crash \/ UNCHANGED vars
  BY Turning DEF Next

LEMMA TypeStep == TypeInv /\ [Next]_vars => TypeInv'
  BY Steps, TypeTurn, TypeRolls, TypeExpire, TypeCrash, TypeSame

(* The variables of the engine keep their types, whatever the constants.   *)
THEOREM WorkflowTypes == Spec => []TypeInv
  BY TypeInit, TypeStep, PTL DEF Spec

(* A wait that is over stays as it ended, for every flow, event, timeout   *)
(* action and number of tasks, with reassign and restarts.                 *)
THEOREM ResolvedStays == Spec => ResolvedOnce
<1>1. ASSUME TypeInv, Next
      PROVE \A i \in DOMAIN waits : waits[i].status # "WAITING" => waits'[i].status = waits[i].status
  <2>1. CASE \E t \in Task : Turn(t)
    BY <1>1, <2>1, WaitsKept DEF Kept
  <2>2. CASE Expire
    BY <1>1, <2>2, ExpireKeeps DEF Kept
  <2>3. CASE Crash \/ UNCHANGED vars
    BY <2>3 DEF Crash, vars
  <2>4. CASE \E t \in Task : Rolls(t)
    BY <1>1, <2>4, RollShape
  <2> QED
    BY <1>1, <2>1, <2>2, <2>3, <2>4, Steps
<1>2. TypeInv /\ [Next]_vars =>
        [\A i \in DOMAIN waits : waits[i].status # "WAITING" => waits'[i].status = waits[i].status]_vars
  BY <1>1
<1> QED
  BY <1>2, WorkflowTypes, PTL DEF Spec, ResolvedOnce

----------------------------------------------------------------------------
(* The chain of step orders *)

(* A record with its fields named has these fields.                        *)
LEMMA Parts ==
  ASSUME NEW o, NEW p, NEW q, NEW r, NEW s, NEW u, NEW v, NEW w, NEW y, y = Rec(o, p, q, r, s, u, v, w)
  PROVE /\ y.op = o /\ y.pc = p /\ y.block = q /\ y.order = r /\ y.own = s /\ y.promote = u
        /\ y.wait = v /\ y.todo = w
  BY DEF Rec

LEMMA LastIsNat ==
  ASSUME TypeInv
  PROVE Last \in Nat /\ IsFiniteSet(DOMAIN logs) /\ DOMAIN logs \subseteq Nat \ {0}
  BY LogsFinite DEF TypeInv, Last

LEMMA Longer ==
  ASSUME NEW x, NEW m \in Nat, NEW n \in Nat, m <= n, x.order \in Nat, Chained(x, m)
  PROVE Chained(x, n)
<1>1. x.op \in Starts => x.order <= n
  BY DEF Chained
<1>2. ASSUME NEW base \in 0..m PROVE base \in 0..n
  OBVIOUS
<1> QED
  BY <1>1, <1>2 DEF Chained

(* What has been inserted and is not committed begins after the last log.  *)
LEMMA Based ==
  ASSUME TypeInv, Chain, NEW t \in Task, DOMAIN tasks[t].own # {}
  PROVE InWalk(tasks[t]) /\ Top(tasks[t]) \in Nat /\ Top(tasks[t]) > Last /\ DOMAIN tasks[t].own = (Last + 1)..Top(tasks[t])
<1> PICK x : x = tasks[t]
  OBVIOUS
<1>1. IsTask(x) /\ Chained(x, Last) /\ DOMAIN x.own \cap 1..Last = {} /\ Last \in Nat
  BY TaskFacts, LastIsNat DEF Chain
<1>2. InWalk(x) /\ Top(x) \in Nat
  BY <1>1 DEF IsTask, InWalk, Top
<1>3. PICK base \in 0..Last : base <= Top(x) /\ DOMAIN x.own = (base + 1)..Top(x)
  BY <1>1, <1>2 DEF Chained
<1>4. base + 1 \in DOMAIN x.own
  BY <1>1, <1>2, <1>3
<1>5. base = Last
  BY <1>1, <1>3, <1>4
<1> QED
  BY <1>1, <1>2, <1>3, <1>4, <1>5

LEMMA ChainNext ==
  ASSUME TypeInv, Chain, NEW t \in Task, NEW y, Move(t, y), NEW n \in Nat, n >= Last, DOMAIN logs' = 1..n,
         Chained(y, n), DOMAIN y.own \cap 1..n = {}, waits' # <<>> => n >= 1,
         \A u \in Task : u # t => DOMAIN tasks[u].own \cap 1..n = {},
         DOMAIN y.own = {} \/ \A u \in Task : u # t => DOMAIN tasks[u].own = {}
  PROVE Chain'
<1>1. Last' = n /\ Last \in Nat
  BY FS_Interval, LastIsNat DEF Last
<1>2. ASSUME NEW u \in Task
      PROVE Chained(tasks'[u], n) /\ DOMAIN tasks'[u].own \cap 1..n = {}
  <2>1. CASE u = t
    BY <2>1 DEF Move
  <2>2. CASE u # t
    <3>1. tasks'[u] = tasks[u] /\ tasks[u].order \in Nat /\ Chained(tasks[u], Last)
      BY <2>2, TaskFacts DEF Move, IsTask, Chain
    <3> QED
      BY <1>1, <2>2, <3>1, Longer
  <2> QED
    BY <2>1, <2>2
<1>3. ASSUME NEW u \in Task, NEW v \in Task, u # v
      PROVE DOMAIN tasks'[u].own = {} \/ DOMAIN tasks'[v].own = {}
  BY <1>3 DEF Move, Chain
<1>4. DOMAIN logs' = 1..Last'
  BY <1>1
<1>5. waits' # <<>> => Last' >= 1
  BY <1>1
<1>6. \A u \in Task : Chained(tasks'[u], Last') /\ DOMAIN tasks'[u].own \cap DOMAIN logs' = {}
  BY <1>1, <1>2
<1> QED
  BY <1>3, <1>4, <1>5, <1>6 DEF Chain

(* The logs keep their numbers and the task's own logs stay or go.         *)
LEMMA ChainStill ==
  ASSUME TypeInv, Chain, NEW t \in Task, NEW y, Move(t, y), DOMAIN logs' = DOMAIN logs,
         Chained(y, Last), DOMAIN y.own = {} \/ DOMAIN y.own = DOMAIN tasks[t].own, waits' # <<>> => waits # <<>>
  PROVE Chain'
<1>1. DOMAIN logs' = 1..Last /\ Last \in Nat /\ (waits' # <<>> => Last >= 1) /\ Last >= Last
  BY LastIsNat DEF Chain
<1>2. \A u \in Task : DOMAIN tasks[u].own \cap 1..Last = {}
  BY DEF Chain
<1>3. DOMAIN y.own \cap 1..Last = {}
  BY <1>2
<1>4. DOMAIN y.own = {} \/ \A u \in Task : u # t => DOMAIN tasks[u].own = {}
  BY DEF Chain
<1> QED
  BY <1>1, <1>2, <1>3, <1>4, ChainNext

LEMMA IdleChained ==
  ASSUME NEW n
  PROVE Chained(Idle, n) /\ DOMAIN Idle.own = {}
  BY IdleIsTask DEF Chained, Starts, InTx, InWalk

LEMMA ChainStart ==
  ASSUME TypeInv, Chain, NEW t \in Task, StartTurn(t) \/ Wakes(t)
  PROVE Chain'
<1> PICK x : x = tasks[t]
  OBVIOUS
<1>0. /\ IsTask(x) /\ Chained(x, Last) /\ x.op \in Starts /\ logs' = logs /\ waits' = waits /\ x.op \notin InTx
  BY TaskFacts DEF Chain, StartTurn, Wakes, InTx, Starts
<1>1. x.order <= Last
  BY <1>0 DEF Chained
<1>2. CASE Move(t, Idle)
  BY <1>0, <1>2, IdleChained, ChainStill
<1>3. ASSUME NEW o \in Starts, NEW pc, NEW b, Move(t, Rec(o, pc, b, x.order, x.own, x.promote, x.wait, x.todo))
      PROVE Chain'
  <2>0. PICK y : y = Rec(o, pc, b, x.order, x.own, x.promote, x.wait, x.todo)
    OBVIOUS
  <2>1. y.op = o /\ y.order = x.order /\ y.own = x.own /\ o \notin InTx
    BY <2>0, Parts DEF Starts, InTx
  <2>2. Chained(y, Last)
    BY <1>1, <2>1 DEF Chained, InWalk
  <2> QED
    BY <1>0, <1>3, <2>0, <2>1, <2>2, ChainStill
<1>4. \/ Move(t, Idle)
      \/ \E o \in Starts, pc \in PcName, b \in Nat : Move(t, Rec(o, pc, b, x.order, x.own, x.promote, x.wait, x.todo))
  <2>1. x.block \in Nat /\ x.block + 1 \in Nat /\ "timer" \in Starts /\ x.op \in Starts
        /\ "log" \in PcName /\ "walk" \in PcName /\ "sleep" \in PcName
    BY <1>0, Fields DEF Starts, PcName
  <2>2. CASE StartTurn(t)
    BY <2>1, <2>2 DEF StartTurn, Here, At
  <2>3. CASE Wakes(t)
    BY <2>1, <2>3 DEF Wakes, Here, At
  <2> QED
    BY <2>2, <2>3
<1> QED
  BY <1>2, <1>3, <1>4

LEMMA ChainStartLogs ==
  ASSUME TypeInv, Chain, NEW t \in Task, StartLogs(t)
  PROVE Chain'
<1> PICK x : x = tasks[t]
  OBVIOUS
<1>0. /\ IsTask(x) /\ Chained(x, Last) /\ x.op \in Starts /\ waits' = waits /\ x.op \notin InTx /\ Last \in Nat
      /\ DOMAIN x.own = {} /\ x.order \in Nat
  BY TaskFacts, LastIsNat DEF Chain, StartLogs, InTx, Starts, IsTask
<1>1. x.order <= Last
  BY <1>0 DEF Chained
<1>2. PICK k \in Nat \ {0} : k = x.order + 1
  BY <1>0
<1>3. PICK no \in BOOLEAN : no = FALSE
  OBVIOUS
<1>4. PICK row : row = Row(k, x.block, no)
  OBVIOUS
<1>5. logs' = With(logs, row)
  BY <1>2, <1>3, <1>4 DEF StartLogs
<1>6. x.block \in Block
  BY <1>0 DEF IsTask, StartLogs
<1>7. DOMAIN row = {k}
  BY <1>4, <1>6, RowFacts
<1>8. DOMAIN With(logs, row) = DOMAIN logs \cup DOMAIN row
  BY ONLY WithFacts, Zenon
<1>9. DOMAIN logs' = 1..Last \cup {k} /\ k <= Last + 1
  BY <1>0, <1>1, <1>2, <1>5, <1>7, <1>8 DEF Chain
<1>10. PICK n \in Nat : n = IF k <= Last THEN Last ELSE k
  BY <1>0
<1>11. DOMAIN logs' = 1..n /\ n >= Last /\ n >= k /\ n <= Last + 1 /\ (n > Last => n = k)
  BY <1>0, <1>9, <1>10
<1>12. waits' # <<>> => n >= 1
  BY <1>0, <1>2, <1>11
<1>13. ASSUME NEW u \in Task, u # t PROVE DOMAIN tasks[u].own \cap 1..n = {}
  <2>1. k \notin DOMAIN tasks[u].own
    BY <1>2, <1>13 DEF StartLogs, Held
  <2>2. DOMAIN tasks[u].own \cap 1..Last = {}
    BY DEF Chain
  <2>3. 1..n \subseteq 1..Last \cup {k}
    BY <1>9, <1>11
  <2> QED
    BY <2>1, <2>2, <2>3
<1>14. ASSUME NEW y, Move(t, y), Chained(y, n), DOMAIN y.own = {} PROVE Chain'
  BY <1>11, <1>12, <1>13, <1>14, ChainNext
<1>15. CASE Move(t, Idle)
  BY <1>14, <1>15, IdleChained
<1>16. ASSUME NEW order \in {k, x.order}, Move(t, At(x, "walk", x.block + 1, order, x.own))
       PROVE Chain'
  <2>0. PICK y : y = At(x, "walk", x.block + 1, order, x.own)
    OBVIOUS
  <2>1. y.op = x.op /\ y.order = order /\ y.own = x.own
    BY <2>0, Parts DEF At
  <2>2. order <= n
    BY <1>0, <1>1, <1>11, <1>16
  <2>3. Chained(y, n)
    BY <1>0, <2>1, <2>2 DEF Chained, InWalk
  <2> QED
    BY <1>0, <1>14, <1>16, <2>0, <2>1, <2>3
<1> QED
  BY <1>2, <1>15, <1>16 DEF StartLogs

LEMMA ChainReads ==
  ASSUME TypeInv, Chain, NEW t \in Task, Reads(t)
  PROVE Chain'
<1>0. logs' = logs /\ waits' = waits /\ Last \in Nat
  BY LastIsNat DEF Reads
<1>1. CASE Move(t, Idle)
  BY <1>0, <1>1, IdleChained, ChainStill
<1>2. CASE \E p : Move(t, Rec("advance", "first", CurrentBlock, NextStepOrder, <<>>, p, 0, {}))
  <2>1. PICK p : Move(t, Rec("advance", "first", CurrentBlock, NextStepOrder, <<>>, p, 0, {}))
    BY <1>2
  <2>2. PICK y : y = Rec("advance", "first", CurrentBlock, NextStepOrder, <<>>, p, 0, {})
    OBVIOUS
  <2>3. y.op = "advance" /\ y.pc = "first" /\ y.order = Last + 1 /\ y.own = <<>>
    BY <2>2, Parts DEF NextStepOrder, Last
  <2>4. Top(y) = Last /\ y.op \notin Starts
    BY <1>0, <2>3 DEF Top, Starts
  <2>5. DOMAIN y.own = (Last + 1)..Top(y) /\ DOMAIN y.own = {}
    BY <1>0, <2>3, <2>4, Unlogged
  <2>6. Last \in 0..Last /\ Last <= Top(y)
    BY <1>0, <2>4
  <2>7. Chained(y, Last)
    BY <2>4, <2>5, <2>6 DEF Chained
  <2> QED
    BY <1>0, <2>1, <2>2, <2>5, <2>7, ChainStill
<1> QED
  BY <1>1, <1>2 DEF Reads

LEMMA ChainTx ==
  ASSUME TypeInv, Chain, NEW t \in Task, TxTurn(t)
  PROVE Chain'
<1> PICK x : x = tasks[t]
  OBVIOUS
<1>0. /\ IsTask(x) /\ Chained(x, Last) /\ logs' = logs /\ waits' = waits /\ x.op \in InTx /\ x.pc = "walk"
      /\ x.order \in Nat /\ x.op \notin Starts
  BY TaskFacts DEF Chain, TxTurn, InTx, Starts, IsTask
<1>1. PICK base \in 0..Last : base <= x.order /\ DOMAIN x.own = (base + 1)..x.order
  BY <1>0 DEF Chained, InWalk, Top
<1>2. \E n \in {x.order, x.order + 1}, pc \in {"commit", "insert", "wait"} :
        (n = x.order <=> pc = "commit") /\ Move(t, Rec(x.op, pc, x.block, n, x.own, x.promote, x.wait, x.todo))
  <2>1. x.order # x.order + 1
    BY <1>0
  <2> QED
    BY <2>1 DEF TxTurn, Here, At
<1>3. PICK n \in {x.order, x.order + 1}, pc \in {"commit", "insert", "wait"} :
        (n = x.order <=> pc = "commit") /\ Move(t, Rec(x.op, pc, x.block, n, x.own, x.promote, x.wait, x.todo))
  BY <1>2
<1>4. PICK y : y = Rec(x.op, pc, x.block, n, x.own, x.promote, x.wait, x.todo)
  OBVIOUS
<1>5. y.op = x.op /\ y.pc = pc /\ y.order = n /\ y.own = x.own
  BY <1>4, Parts
<1>6. Top(y) = x.order
  BY <1>0, <1>3, <1>5 DEF Top
<1>7. Chained(y, Last)
  BY <1>0, <1>1, <1>5, <1>6 DEF Chained
<1> QED
  BY <1>0, <1>3, <1>4, <1>5, <1>7, ChainStill

(* A step order that is neither logged nor held is the next one, and none  *)
(* but this task has inserted.                                             *)
LEMMA Inserts ==
  ASSUME TypeInv, Chain, NEW t \in Task, tasks[t].op \in InTx, tasks[t].pc \in {"first", "insert", "wait"},
         tasks[t].order \notin DOMAIN logs, ~Held(t, tasks[t].order)
  PROVE /\ \A u \in Task : u # t => DOMAIN tasks[u].own = {}
        /\ tasks[t].order > Last /\ tasks[t].order \in Nat /\ Last \in Nat
        /\ \E base \in 0..Last : base < tasks[t].order /\ DOMAIN tasks[t].own = (base + 1)..(tasks[t].order - 1)
<1> PICK x : x = tasks[t]
  OBVIOUS
<1>0. IsTask(x) /\ Chained(x, Last) /\ Last \in Nat /\ x.order \in Nat /\ x.order >= 1 /\ DOMAIN logs = 1..Last
  BY TaskFacts, LastIsNat DEF Chain, IsTask
<1>1. x.order > Last
  BY <1>0
<1>2. PICK base \in 0..Last : base <= x.order - 1 /\ DOMAIN x.own = (base + 1)..(x.order - 1)
  BY <1>0 DEF Chained, InWalk, Top
<1>3. ASSUME NEW u \in Task, u # t, DOMAIN tasks[u].own # {} PROVE FALSE
  <2>1. DOMAIN x.own = {}
    BY <1>3 DEF Chain
  <2>2. x.order = Last + 1
    <3>1. CASE base < x.order - 1
      <4>1. base + 1 \in (base + 1)..(x.order - 1)
        BY <1>0, <3>1
      <4> QED
        BY <1>2, <2>1, <4>1
    <3>2. CASE base = x.order - 1
      BY <1>0, <1>1, <3>2
    <3> QED
      BY <1>0, <1>2, <3>1, <3>2
  <2>3. Top(tasks[u]) \in Nat /\ Top(tasks[u]) > Last /\ DOMAIN tasks[u].own = (Last + 1)..Top(tasks[u])
    BY <1>3, Based
  <2>4. x.order \in DOMAIN tasks[u].own
    BY <1>0, <2>2, <2>3
  <2> QED
    BY <1>3, <2>4 DEF Held
<1>4. base < x.order
  BY <1>0, <1>2
<1> QED
  BY <1>0, <1>1, <1>2, <1>3, <1>4

LEMMA ChainTxLogs ==
  ASSUME TypeInv, Chain, NEW t \in Task, TxLogs(t)
  PROVE Chain'
<1> PICK x : x = tasks[t]
  OBVIOUS
<1>0. /\ IsTask(x) /\ logs' = logs /\ waits' = waits /\ x.op \in InTx /\ x.pc \in {"first", "insert", "wait"}
      /\ x.op \notin Starts /\ x.order \notin DOMAIN logs /\ ~Held(t, x.order)
      /\ DOMAIN logs = 1..Last /\ (waits # <<>> => Last >= 1)
  BY TaskFacts DEF TxLogs, Starts, InTx, Chain
<1>1. /\ \A u \in Task : u # t => DOMAIN tasks[u].own = {}
      /\ x.order > Last /\ x.order \in Nat /\ Last \in Nat
  BY <1>0, Inserts
<1>2. PICK base \in 0..Last : base < x.order /\ DOMAIN x.own = (base + 1)..(x.order - 1)
  BY <1>0, Inserts
<1>3. PICK k \in Nat \ {0} : k = x.order
  BY <1>1
<1>4. PICK w \in BOOLEAN : w = (x.pc = "wait")
  OBVIOUS
<1>5. PICK row : row = Row(k, x.block, w)
  OBVIOUS
<1>6. DOMAIN row = {k}
  <2>1. x.block \in Block
    BY <1>0 DEF IsTask
  <2> QED
    BY <1>5, <2>1, RowFacts
<1>7. PICK old : old = x.own
  OBVIOUS
<1>8. PICK own : own = With(old, row)
  OBVIOUS
<1>9. DOMAIN With(old, row) = DOMAIN old \cup DOMAIN row
  BY ONLY WithFacts, Zenon
<1>10. DOMAIN own = (base + 1)..x.order
  BY <1>1, <1>2, <1>3, <1>6, <1>7, <1>8, <1>9
<1>11. DOMAIN own \cap 1..Last = {}
  <2>1. DOMAIN x.own \cap 1..Last = {}
    BY <1>0 DEF Chain
  <2> QED
    BY <1>1, <1>3, <1>6, <1>7, <1>8, <1>9, <2>1
<1>12. IF x.pc = "wait" THEN Move(t, At(x, "commit", x.block, x.order, own))
                        ELSE Move(t, At(x, "walk", x.block + 1, x.order, own))
  BY <1>3, <1>4, <1>5, <1>7, <1>8 DEF TxLogs
<1>13. ASSUME NEW pc \in {"commit", "walk"}, NEW b, Move(t, At(x, pc, b, x.order, own))
       PROVE Chain'
  <2>0. PICK y : y = At(x, pc, b, x.order, own)
    OBVIOUS
  <2>1. y.op = x.op /\ y.pc = pc /\ y.order = x.order /\ y.own = own
    BY <2>0, Parts DEF At
  <2>2. Top(y) = x.order
    BY <2>1 DEF Top
  <2>3. Chained(y, Last)
    BY <1>0, <1>1, <1>2, <1>10, <2>1, <2>2 DEF Chained
  <2>4. DOMAIN y.own \cap 1..Last = {} /\ Last >= Last
    BY <1>1, <1>11, <2>1
  <2>5. \A u \in Task : u # t => DOMAIN tasks[u].own \cap 1..Last = {}
    BY <1>1
  <2> QED
    BY <1>0, <1>1, <1>13, <2>0, <2>3, <2>4, <2>5, ChainNext
<1> QED
  BY <1>12, <1>13

LEMMA ChainLeaves ==
  ASSUME TypeInv, Chain, NEW t \in Task, Leaves(t)
  PROVE Chain'
<1> PICK x : x = tasks[t]
  OBVIOUS
<1>0. /\ IsTask(x) /\ logs' = logs /\ waits' = waits /\ x.op \in InTx /\ x.op \notin Starts
  BY TaskFacts DEF Leaves, Starts, InTx
<1>1. CASE Move(t, Idle)
  BY <1>0, <1>1, IdleChained, ChainStill
<1>2. ASSUME NEW pc \in {"next", "conclude"}, NEW own, DOMAIN own = {}, Move(t, At(x, pc, x.block, x.order, own))
      PROVE Chain'
  <2>0. PICK y : y = At(x, pc, x.block, x.order, own)
    OBVIOUS
  <2>1. y.op = x.op /\ y.pc = pc /\ y.own = own
    BY <2>0, Parts DEF At
  <2>2. Chained(y, Last)
    BY <1>0, <2>1 DEF Chained, InWalk
  <2> QED
    BY <1>0, <1>2, <2>0, <2>1, <2>2, ChainStill
<1>3. CASE Move(t, At(x, "next", x.block, x.order, <<>>))
  BY <1>2, <1>3, Unlogged
<1>4. CASE x.pc = "progress" /\ Move(t, Here(x, "conclude"))
  <2>1. DOMAIN x.own = {}
    BY <1>0, <1>4 DEF IsTask
  <2> QED
    BY <1>2, <1>4, <2>1 DEF Here
<1> QED
  BY <1>1, <1>3, <1>4 DEF Leaves, Turns

LEMMA ChainCommits ==
  ASSUME TypeInv, Chain, NEW t \in Task, Commits(t)
  PROVE Chain'
<1> PICK x : x = tasks[t]
  OBVIOUS
<1>0. /\ IsTask(x) /\ Chained(x, Last) /\ x.op \in InTx /\ x.pc = "commit" /\ x.op \notin Starts
      /\ DOMAIN logs = 1..Last /\ Last \in Nat /\ (waits # <<>> => Last >= 1) /\ x.order \in Nat
  BY TaskFacts, LastIsNat DEF Commits, Starts, InTx, Chain, IsTask
<1>1. PICK old : old = x.own
  OBVIOUS
<1>2. DOMAIN With(old, logs) = DOMAIN old \cup DOMAIN logs
  BY ONLY WithFacts, Zenon
<1>3. DOMAIN logs' = DOMAIN x.own \cup 1..Last
  BY <1>0, <1>1, <1>2 DEF Commits
<1>4. PICK y : y = At(x, "progress", x.block, x.order, <<>>)
  OBVIOUS
<1>5. Move(t, y) /\ y.op = x.op /\ y.pc = "progress" /\ DOMAIN y.own = {}
  BY <1>4, Parts, Unlogged DEF At, Commits
<1>6. \A n : Chained(y, n)
  BY <1>0, <1>5 DEF Chained, InWalk
<1>7. CASE DOMAIN x.own = {}
  <2>1. waits' = waits
    BY <1>7 DEF Commits
  <2> QED
    BY <1>0, <1>3, <1>5, <1>6, <1>7, <2>1, ChainStill
<1>8. CASE DOMAIN x.own # {}
  <2>1. x.order > Last /\ DOMAIN x.own = (Last + 1)..x.order
    <3>1. Top(x) = x.order
      BY <1>0 DEF Top
    <3> QED
      BY <1>8, <3>1, Based
  <2>2. DOMAIN logs' = 1..x.order /\ x.order >= 1 /\ x.order >= Last
    BY <1>0, <1>3, <2>1
  <2>3. \A u \in Task : u # t => DOMAIN tasks[u].own \cap 1..x.order = {}
    BY <1>8 DEF Chain
  <2>4. DOMAIN y.own \cap 1..x.order = {}
    BY <1>5
  <2> QED
    BY <1>0, <1>5, <1>6, <2>2, <2>3, <2>4, ChainNext
<1> QED
  BY <1>7, <1>8

LEMMA ChainOther ==
  ASSUME TypeInv, Chain, NEW t \in Task, Opens(t) \/ Finds(t) \/ Resolves(t) \/ Notes(t)
  PROVE Chain'
<1> PICK x : x = tasks[t]
  OBVIOUS
<1>0. /\ IsTask(x) /\ DOMAIN logs' = DOMAIN logs
  BY TaskFacts DEF Opens, Finds, Resolves, Notes
<1>1. waits' # <<>> => waits # <<>>
  <2>1. waits \in Seq(WaitRow)
    BY DEF TypeInv
  <2>2. CASE waits = <<>>
    <3>1. DOMAIN waits = {} /\ Waiting = {}
      BY <2>2 DEF Waiting
    <3>2. CASE waits' = waits
      BY <2>2, <3>2
    <3>3. CASE waits' = [i \in DOMAIN waits |->
                          IF i \in Waiting THEN [waits[i] EXCEPT !.status = "CANCELLED"] ELSE waits[i]]
      BY <2>2, <3>1, <3>3
    <3>4. waits' = waits \/ waits' = [i \in DOMAIN waits |->
                          IF i \in Waiting THEN [waits[i] EXCEPT !.status = "CANCELLED"] ELSE waits[i]]
      BY <3>1 DEF Opens, Finds, Resolves, Notes
    <3> QED
      BY <3>2, <3>3, <3>4
  <2> QED
    BY <2>2
<1>2. CASE Move(t, Idle)
  BY <1>0, <1>1, <1>2, IdleChained, ChainStill
<1>3. ASSUME NEW o, o \notin Starts, NEW pc \in {"next", "find", "note", "resume"}, NEW b, NEW n, NEW own, NEW p, NEW i, NEW todo,
             DOMAIN own = {}, Move(t, Rec(o, pc, b, n, own, p, i, todo))
      PROVE Chain'
  <2>0. PICK y : y = Rec(o, pc, b, n, own, p, i, todo)
    OBVIOUS
  <2>1. y.op = o /\ y.pc = pc /\ y.own = own
    BY <2>0, Parts
  <2>2. Chained(y, Last)
    BY <1>3, <2>1 DEF Chained, InWalk
  <2> QED
    BY <1>0, <1>1, <1>3, <2>0, <2>1, <2>2, ChainStill
<1>4. CASE Opens(t)
  <2>1. PICK no \in BOOLEAN : no = FALSE
    OBVIOUS
  <2>2. \/ \E todo : Move(t, Rec("timeout", "next", 0, 0, <<>>, no, 0, todo))
        \/ \E op \in {"cancelled", "event"} : Move(t, Rec(op, "find", 0, 0, <<>>, no, 0, {}))
        \/ Move(t, Idle)
    BY <1>4, <2>1 DEF Opens
  <2>3. "timeout" \notin Starts /\ "event" \notin Starts /\ "cancelled" \notin Starts
    BY DEF Starts
  <2> QED
    BY <1>2, <1>3, <2>2, <2>3, Unlogged
<1>5. CASE Finds(t)
  <2>1. DOMAIN x.own = {} /\ (x.op = "event" => x.op \notin Starts)
    BY <1>0, <1>5 DEF IsTask, Finds, Starts
  <2>2. \/ Move(t, Idle)
        \/ x.op = "event" /\ \E todo : Move(t, Rec(x.op, "next", x.block, x.order, x.own, x.promote, x.wait, todo))
    BY <1>5 DEF Finds
  <2> QED
    BY <1>2, <1>3, <2>1, <2>2
<1>6. CASE Resolves(t)
  <2>1. DOMAIN x.own = {} /\ x.op \notin Starts
    BY <1>0, <1>6 DEF IsTask, Resolves, Starts, Resumes
  <2>2. \E pc \in {"note", "next"} : \E i, todo : Move(t, Rec(x.op, pc, x.block, x.order, x.own, x.promote, i, todo))
    <3>1. PICK i \in x.todo :
             \/ Move(t, Rec(x.op, "note", x.block, x.order, x.own, x.promote, i, x.todo \ {i}))
             \/ Move(t, Rec(x.op, "next", x.block, x.order, x.own, x.promote, i, x.todo \ {i}))
      BY <1>6 DEF Resolves
    <3> QED
      BY <3>1
  <2> QED
    BY <1>3, <2>1, <2>2
<1>7. CASE Notes(t)
  <2>1. DOMAIN x.own = {} /\ x.op \notin Starts
    BY <1>0, <1>7 DEF IsTask, Notes, Starts, Resumes
  <2>2. \E pc \in {"next", "resume"} : Move(t, Rec(x.op, pc, x.block, x.order, x.own, x.promote, x.wait, x.todo))
    BY <1>7 DEF Notes, Here, At
  <2> QED
    BY <1>3, <2>1, <2>2
<1> QED
  BY <1>4, <1>5, <1>6, <1>7

LEMMA ChainResumes ==
  ASSUME TypeInv, Chain, NEW t \in Task, ResumesWalk(t)
  PROVE Chain'
<1> PICK x : x = tasks[t]
  OBVIOUS
<1>0. /\ IsTask(x) /\ Refers(x, waits) /\ logs' = logs /\ waits' = waits /\ x.op \in Resumes /\ x.pc = "resume"
      /\ x.op \notin Starts /\ DOMAIN x.own = {} /\ DOMAIN logs = 1..Last /\ Last \in Nat
      /\ (waits # <<>> => Last >= 1)
  BY TaskFacts, LastIsNat DEF ResumesWalk, Starts, Resumes, Chain, IsTask
<1>1. Last >= 1
  <2>1. x.wait \in DOMAIN waits
    BY <1>0 DEF Refers
  <2>2. waits # <<>>
    BY <2>1
  <2> QED
    BY <1>0, <2>2
<1>2. DOMAIN logs # {} /\ Max(DOMAIN logs) = Last
  <2>0. Last \in 1..Last
    BY <1>0, <1>1
  <2>1. DOMAIN logs # {} /\ DOMAIN logs \subseteq 1..Last /\ Last \in DOMAIN logs
    BY <1>0, <2>0
  <2>2. Max(DOMAIN logs) \in DOMAIN logs /\ Max(DOMAIN logs) >= Last
    BY <1>0, <2>1, Greatest
  <2> QED
    BY <1>0, <2>1, <2>2
<1>3. PICK b : b = waits[x.wait].block + 1
  OBVIOUS
<1>4. Move(t, At(x, "walk", b, Last, x.own))
  BY <1>2, <1>3 DEF ResumesWalk
<1>5. PICK y : y = At(x, "walk", b, Last, x.own)
  OBVIOUS
<1>6. y.op = x.op /\ y.pc = "walk" /\ y.order = Last /\ y.own = x.own /\ Top(y) = Last
  BY <1>5, Parts DEF At, Top
<1>7. DOMAIN y.own = (Last + 1)..Top(y) /\ Last \in 0..Last /\ Last <= Top(y)
  <2>1. (Last + 1)..Last = {} /\ Last \in 0..Last /\ Last <= Last
    BY <1>0
  <2> QED
    BY <1>0, <1>6, <2>1
<1>8. Chained(y, Last)
  BY <1>0, <1>6, <1>7 DEF Chained
<1> QED
  BY <1>0, <1>4, <1>5, <1>6, <1>8, ChainStill

LEMMA ChainTurn ==
  ASSUME TypeInv, Chain, Growing, NEW t \in Task, Turn(t)
  PROVE Chain'
  BY ChainStart, ChainStartLogs, ChainReads, ChainTx, ChainTxLogs, ChainLeaves, ChainCommits, ChainOther, ChainResumes
  DEF Turn, Restarts, Growing

LEMMA ChainRolls ==
  ASSUME TypeInv, Chain, NEW t \in Task, Rolls(t)
  PROVE Chain'
<1>1. PICK y : y = tasks'[t]
  OBVIOUS
<1>2. Move(t, y) /\ DOMAIN y.own = {} /\ logs' = logs /\ waits' = waits
  BY <1>1, RollShape DEF Move
<1>3. Chained(y, Last)
  BY <1>1, RollShape DEF Chained, InWalk
<1> QED
  BY <1>2, <1>3, ChainStill

LEMMA ChainRest ==
  ASSUME TypeInv, Chain, Expire \/ Crash \/ UNCHANGED vars
  PROVE Chain'
<1>0. waits \in Seq(WaitRow) /\ Last \in Nat
  BY LastIsNat DEF TypeInv
<1>1. CASE Expire
  <2>1. UNCHANGED <<logs, tasks>> /\ waits # <<>>
    BY <1>1 DEF Expire, Waiting
  <2> QED
    BY <2>1 DEF Chain, Last
<1>2. CASE Crash
  <2>1. UNCHANGED <<logs, waits>> /\ \A t \in Task : tasks'[t] = Idle
    BY <1>2 DEF Crash
  <2> QED
    BY <2>1, IdleChained DEF Chain, Last
<1>3. CASE UNCHANGED vars
  BY <1>3 DEF Chain, Last, vars
<1> QED
  BY <1>1, <1>2, <1>3

LEMMA Starting ==
  ASSUME Init
  PROVE /\ logs = <<>> /\ waits = <<>> /\ run = 1 /\ performed = [b \in Block |-> 0] /\ crashes = 0 /\ rollbacks = 0
        /\ \E t \in Task : tasks = [u \in Task |-> IF u = t THEN Start ELSE Idle]
        /\ Start.op = "start" /\ Start.pc = "walk" /\ Start.block = 1 /\ Start.order = 0 /\ DOMAIN Start.own = {}
<1>1. PICK no \in BOOLEAN : no = FALSE
  OBVIOUS
<1>2. PICK y : y = Start
  OBVIOUS
<1>3. y = Rec("start", "walk", 1, 0, <<>>, no, 0, {})
  BY <1>1, <1>2, Openings DEF Start
<1>4. y.op = "start" /\ y.pc = "walk" /\ y.block = 1 /\ y.order = 0 /\ DOMAIN y.own = {}
  BY <1>3, Parts, Unlogged
<1> QED
  BY <1>2, <1>4 DEF Init

LEMMA ChainInit ==
  ASSUME Init
  PROVE Chain
<1>1. Last = 0 /\ DOMAIN logs = {} /\ waits = <<>>
  BY Starting, Unlogged, FS_EmptySet DEF Last
<1>2. \A t \in Task : tasks[t] = Start \/ tasks[t] = Idle
  BY Starting
<1>3. Chained(Start, 0) /\ DOMAIN Start.own = {}
  BY Starting DEF Chained, InWalk, InTx
<1>4. \A t \in Task : Chained(tasks[t], 0) /\ DOMAIN tasks[t].own = {}
  BY <1>2, <1>3, IdleChained
<1> QED
  BY <1>1, <1>4 DEF Chain

(* Without reassign the step orders are 1, 2, 3, however requests, timers, *)
(* events, timeouts and restarts interleave, for every flow.               *)
THEOREM StepsStayContiguous ==
  ASSUME Growing
  PROVE Spec => []StepsContiguous
<1>1. Init => TypeInv /\ Chain
  BY TypeInit, ChainInit
<1>2. TypeInv /\ Chain /\ [Next]_vars => (TypeInv /\ Chain)'
  BY Steps, TypeStep, ChainTurn, ChainRolls, ChainRest
<1>3. TypeInv /\ Chain => StepsContiguous
  BY DEF Chain, StepsContiguous, Last
<1> QED
  BY <1>1, <1>2, <1>3, PTL DEF Spec

----------------------------------------------------------------------------
(* The blocks of the flow *)

LEMMA HeadsUnique ==
  ASSUME NEW d, NEW e, NEW c \in Nat, Heads(d, c), Heads(e, c)
  PROVE d = e
<1>1. d \in Nat /\ e \in Nat /\ d < c /\ e < c
  BY BlockFacts DEF Heads
<1>2. ASSUME d < e PROVE FALSE
  <2>1. e \in (d + 1)..(c - 1)
    BY <1>1, <1>2
  <2> QED
    BY <2>1 DEF Heads
<1>3. ASSUME e < d PROVE FALSE
  <2>1. d \in (e + 1)..(c - 1)
    BY <1>1, <1>3
  <2> QED
    BY <2>1 DEF Heads
<1> QED
  BY <1>1, <1>2, <1>3

LEMMA HeadsSelf ==
  ASSUME NEW d \in Block, KindOf(d) \in {"ACTION", "WAIT_FOR"}
  PROVE Heads(d, d + 1)
<1>1. d \in Nat /\ (d + 1)..(d + 1 - 1) = {} /\ d < d + 1
  BY BlockFacts
<1> QED
  BY <1>1 DEF Heads

(* A walk goes on from the same block, unless it has just begun.           *)
LEMMA HeadsNext ==
  ASSUME NEW d, NEW b \in Block, KindOf(b) \notin {"ACTION", "WAIT_FOR"}, Heads(d, b)
  PROVE Heads(d, b + 1)
<1>1. d \in Nat /\ b \in Nat /\ d < b
  BY BlockFacts DEF Heads
<1>2. ASSUME NEW e \in (d + 1)..b PROVE KindOf(e) \notin {"ACTION", "WAIT_FOR"}
  <2>1. e = b \/ e \in (d + 1)..(b - 1)
    BY <1>1
  <2> QED
    BY <2>1 DEF Heads
<1>3. d < b + 1
  BY <1>1
<1>4. d \in Block /\ KindOf(d) \in {"ACTION", "WAIT_FOR"}
  BY DEF Heads
<1>5. PICK n : n = b + 1
  OBVIOUS
<1>6. \A e \in (d + 1)..(n - 1) : KindOf(e) \notin {"ACTION", "WAIT_FOR"}
  <2>1. n - 1 = b
    BY <1>1, <1>5
  <2> QED
    BY <1>2, <2>1
<1>7. Heads(d, n)
  BY <1>3, <1>4, <1>5, <1>6 DEF Heads
<1> QED
  BY <1>5, <1>7

LEMMA HeadsBack ==
  ASSUME NEW d, NEW b \in Block, Heads(d, b + 1)
  PROVE d = b \/ (Heads(d, b) /\ KindOf(b) \notin {"ACTION", "WAIT_FOR"})
<1>1. d \in Nat /\ b \in Nat /\ d < b + 1
  BY BlockFacts DEF Heads
<1>2. ASSUME d # b PROVE Heads(d, b) /\ KindOf(b) \notin {"ACTION", "WAIT_FOR"}
  <2>1. d < b /\ b \in (d + 1)..(b + 1 - 1)
    BY <1>1, <1>2
  <2>2. \A e \in (d + 1)..(b - 1) : e \in (d + 1)..(b + 1 - 1)
    BY <1>1
  <2> QED
    BY <2>1, <2>2 DEF Heads
<1> QED
  BY <1>2

LEMMA OpeningFacts ==
  /\ \A c \in Opening : c \in Block /\ KindOf(c) # "ACTION"
  /\ \A c \in Opening, d \in Block : d <= c => d \in Opening
  /\ \A b \in Block : KindOf(b) # "ACTION" /\ (\A e \in 1..(b - 1) : KindOf(e) # "ACTION") => b \in Opening
<1>1. ASSUME NEW c \in Opening PROVE c \in Block /\ KindOf(c) # "ACTION"
  <2>1. c \in Block /\ c \in 1..c
    BY BlockFacts DEF Opening
  <2> QED
    BY <2>1 DEF Opening
<1>2. ASSUME NEW c \in Opening, NEW d \in Block, d <= c PROVE d \in Opening
  <2>1. \A e \in 1..d : e \in 1..c
    BY <1>2, BlockFacts DEF Opening
  <2> QED
    BY <2>1 DEF Opening
<1>3. ASSUME NEW b \in Block, KindOf(b) # "ACTION", \A e \in 1..(b - 1) : KindOf(e) # "ACTION"
      PROVE b \in Opening
  <2>1. \A e \in 1..b : e = b \/ e \in 1..(b - 1)
    BY BlockFacts
  <2> QED
    BY <1>3, <2>1 DEF Opening
<1> QED
  BY <1>1, <1>2, <1>3

(* A block that an action heads, or a wait outside the opening.            *)
LEMMA HeadedOutside ==
  ASSUME NEW d, NEW c, Heads(d, c), d \notin Opening
  PROVE c \notin Opening
<1>1. d \in Block /\ d \in Nat /\ d < c
  BY BlockFacts DEF Heads
<1>2. ASSUME c \in Opening PROVE FALSE
  <2>1. c \in Nat /\ d <= c
    BY <1>1, <1>2, OpeningFacts, BlockFacts
  <2> QED
    BY <1>1, <1>2, <2>1, OpeningFacts
<1> QED
  BY <1>2

----------------------------------------------------------------------------
(* The blocks that have logs *)

LEMMA LoggedWith ==
  ASSUME NEW a, NEW b
  PROVE /\ Logged(a) \subseteq Logged(With(a, b))
        /\ Logged(With(a, b)) \subseteq Logged(a) \cup Logged(b)
        /\ DOMAIN a \cap DOMAIN b = {} => Logged(b) \subseteq Logged(With(a, b))
        /\ Injective(a) /\ Injective(b) /\ Logged(a) \cap Logged(b) = {} => Injective(With(a, b))
<1>1. PICK c : c = With(a, b)
  OBVIOUS
<1>2. /\ DOMAIN c = DOMAIN a \cup DOMAIN b
      /\ \A k \in DOMAIN a : c[k] = a[k]
      /\ \A k \in DOMAIN b : k \notin DOMAIN a => c[k] = b[k]
  <2>1. /\ DOMAIN With(a, b) = DOMAIN a \cup DOMAIN b
        /\ \A k \in DOMAIN a : With(a, b)[k] = a[k]
        /\ \A k \in DOMAIN b : k \notin DOMAIN a => With(a, b)[k] = b[k]
    BY ONLY WithFacts, Zenon
  <2> QED
    BY <1>1, <2>1
<1>3. Logged(a) \subseteq Logged(c)
  BY <1>2 DEF Logged
<1>4. Logged(c) \subseteq Logged(a) \cup Logged(b)
  BY <1>2 DEF Logged
<1>5. DOMAIN a \cap DOMAIN b = {} => Logged(b) \subseteq Logged(c)
  BY <1>2 DEF Logged
<1>6. ASSUME Injective(a), Injective(b), Logged(a) \cap Logged(b) = {}
      PROVE Injective(c)
  <2>1. ASSUME NEW j \in DOMAIN c, NEW k \in DOMAIN c, c[j].block = c[k].block PROVE j = k
    <3>1. CASE j \in DOMAIN a /\ k \in DOMAIN a
      BY <1>2, <1>6, <2>1, <3>1 DEF Injective
    <3>2. CASE j \notin DOMAIN a /\ k \notin DOMAIN a
      BY <1>2, <1>6, <2>1, <3>2 DEF Injective
    <3>3. ASSUME NEW i \in DOMAIN a, NEW l \in DOMAIN b, a[i].block = b[l].block PROVE FALSE
      <4>1. a[i].block \in Logged(a) /\ b[l].block \in Logged(b)
        BY DEF Logged
      <4> QED
        BY <1>6, <3>3, <4>1
    <3> QED
      BY <1>2, <2>1, <3>1, <3>2, <3>3
  <2> QED
    BY <2>1 DEF Injective
<1> QED
  BY <1>1, <1>3, <1>4, <1>5, <1>6

LEMMA LoggedSame ==
  ASSUME NEW a, NEW b, DOMAIN a = DOMAIN b, \A k \in DOMAIN a : a[k].block = b[k].block
  PROVE Logged(a) = Logged(b) /\ (Injective(a) => Injective(b))
  BY DEF Logged, Injective

LEMMA LoggedNone ==
  ASSUME NEW a, DOMAIN a = {}
  PROVE Logged(a) = {} /\ Injective(a) /\ HeadsIn(Logged(a))
  BY DEF Logged, Injective, HeadsIn

LEMMA LoggedRow ==
  ASSUME NEW k \in Nat \ {0}, NEW b \in Block, NEW w \in BOOLEAN
  PROVE Logged(Row(k, b, w)) = {b} /\ Injective(Row(k, b, w))
<1>1. PICK row : row = Row(k, b, w)
  OBVIOUS
<1>2. DOMAIN row = {k} /\ row[k] = [block |-> b, waiting |-> w]
  BY <1>1, RowFacts
<1>3. Logged(row) = {b}
  BY <1>2 DEF Logged
<1>4. Injective(row)
  BY <1>2 DEF Injective
<1> QED
  BY <1>1, <1>3, <1>4

(* A start's log.                                                          *)
LEMMA LogsGrow ==
  ASSUME TypeInv, NEW t \in Task, StartLogs(t)
  PROVE /\ tasks[t].block \in Block /\ KindOf(tasks[t].block) # "ACTION"
        /\ DOMAIN tasks[t].own = {} /\ DOMAIN tasks'[t].own = {}
        /\ Logged(logs) \subseteq Logged(logs') /\ Logged(logs') \subseteq Logged(logs) \cup {tasks[t].block}
        /\ Injective(logs) /\ tasks[t].block \notin Logged(logs) => Injective(logs')
<1>x. PICK x : x = tasks[t]
  OBVIOUS
<1>0. /\ IsTask(x) /\ x.op \in Starts /\ x.op \notin InTx /\ x.pc = "log"
  BY <1>x, TaskFacts DEF StartLogs, InTx, Starts
<1>1. x.block \in Block /\ KindOf(x.block) # "ACTION" /\ DOMAIN x.own = {} /\ x.order \in Nat
  BY <1>0 DEF IsTask
<1>2. PICK k \in Nat \ {0} : k = x.order + 1
  BY <1>1
<1>3. PICK no \in BOOLEAN : no = FALSE
  OBVIOUS
<1>4. PICK row : row = Row(k, x.block, no)
  OBVIOUS
<1>5. logs' = With(logs, row)
  BY <1>x, <1>2, <1>3, <1>4 DEF StartLogs
<1>6. Logged(row) = {x.block} /\ Injective(row)
  <2>1. Logged(Row(k, x.block, no)) = {x.block} /\ Injective(Row(k, x.block, no))
    BY <1>1, LoggedRow
  <2> QED
    BY <1>4, <2>1
<1>7. /\ Logged(logs) \subseteq Logged(With(logs, row))
      /\ Logged(With(logs, row)) \subseteq Logged(logs) \cup Logged(row)
      /\ Injective(logs) /\ Injective(row) /\ Logged(logs) \cap Logged(row) = {} => Injective(With(logs, row))
  BY ONLY LoggedWith, Zenon
<1>8. Move(t, Idle) \/ \E n : Move(t, At(x, "walk", x.block + 1, n, x.own))
  BY <1>x DEF StartLogs
<1>9. DOMAIN tasks'[t].own = {}
  <2>1. CASE Move(t, Idle)
    BY <2>1, IdleIsTask DEF Move
  <2>2. ASSUME NEW n, Move(t, At(x, "walk", x.block + 1, n, x.own))
        PROVE DOMAIN tasks'[t].own = {}
    <3>0. PICK y : y = At(x, "walk", x.block + 1, n, x.own)
      OBVIOUS
    <3>1. y.own = x.own
      BY <3>0, Parts DEF At
    <3> QED
      BY <1>1, <2>2, <3>0, <3>1 DEF Move
  <2> QED
    BY <1>8, <2>1, <2>2
<1> QED
  BY <1>x, <1>1, <1>5, <1>6, <1>7, <1>9

(* A transaction's log.                                                    *)
LEMMA OwnGrows ==
  ASSUME TypeInv, Chain, NEW t \in Task, TxLogs(t)
  PROVE /\ tasks[t].block \in Block /\ logs' = logs
        /\ Logged(tasks'[t].own) = Logged(tasks[t].own) \cup {tasks[t].block}
        /\ Injective(tasks[t].own) /\ tasks[t].block \notin Logged(tasks[t].own) => Injective(tasks'[t].own)
        /\ \A u \in Task : u # t => DOMAIN tasks[u].own = {}
        /\ tasks'[t].op = tasks[t].op /\ tasks'[t].wait = tasks[t].wait
        /\ IF tasks[t].pc = "wait" THEN tasks'[t].pc = "commit" /\ tasks'[t].block = tasks[t].block
                                   ELSE tasks'[t].pc = "walk" /\ tasks'[t].block = tasks[t].block + 1
<1>x. PICK x : x = tasks[t]
  OBVIOUS
<1>0. /\ IsTask(x) /\ x.op \in InTx /\ x.pc \in {"first", "insert", "wait"}
      /\ x.order \notin DOMAIN logs /\ ~Held(t, x.order) /\ logs' = logs
  BY <1>x, TaskFacts DEF TxLogs
<1>1. x.block \in Block /\ x.order \in Nat \ {0}
  BY <1>0 DEF IsTask
<1>2. /\ \A u \in Task : u # t => DOMAIN tasks[u].own = {}
      /\ \E base \in Nat : DOMAIN x.own = (base + 1)..(x.order - 1)
  BY <1>x, <1>0, Inserts
<1>3. PICK w \in BOOLEAN : w = (x.pc = "wait")
  OBVIOUS
<1>4. PICK row : row = Row(x.order, x.block, w)
  OBVIOUS
<1>5. Logged(row) = {x.block} /\ Injective(row) /\ DOMAIN row = {x.order}
  <2>1. Logged(Row(x.order, x.block, w)) = {x.block} /\ Injective(Row(x.order, x.block, w))
    BY <1>1, LoggedRow
  <2>2. DOMAIN Row(x.order, x.block, w) = {x.order}
    BY <1>1, RowFacts
  <2> QED
    BY <1>4, <2>1, <2>2
<1>6. DOMAIN x.own \cap DOMAIN row = {}
  BY <1>1, <1>2, <1>5
<1>7. PICK old : old = x.own
  OBVIOUS
<1>8. PICK own : own = With(old, row)
  OBVIOUS
<1>9. /\ Logged(old) \subseteq Logged(With(old, row))
      /\ Logged(With(old, row)) \subseteq Logged(old) \cup Logged(row)
      /\ DOMAIN old \cap DOMAIN row = {} => Logged(row) \subseteq Logged(With(old, row))
      /\ Injective(old) /\ Injective(row) /\ Logged(old) \cap Logged(row) = {} => Injective(With(old, row))
  BY ONLY LoggedWith, Zenon
<1>10. Logged(own) = Logged(x.own) \cup {x.block} /\ (Injective(x.own) /\ x.block \notin Logged(x.own) => Injective(own))
  BY <1>5, <1>6, <1>7, <1>8, <1>9
<1>11. IF x.pc = "wait" THEN Move(t, At(x, "commit", x.block, x.order, own))
                        ELSE Move(t, At(x, "walk", x.block + 1, x.order, own))
  BY <1>x, <1>3, <1>4, <1>7, <1>8 DEF TxLogs
<1>12. ASSUME NEW pc, NEW b, Move(t, At(x, pc, b, x.order, own))
       PROVE /\ tasks'[t].op = x.op /\ tasks'[t].pc = pc /\ tasks'[t].block = b /\ tasks'[t].own = own
             /\ tasks'[t].wait = x.wait
  <2>0. PICK y : y = At(x, pc, b, x.order, own)
    OBVIOUS
  <2>1. y.op = x.op /\ y.pc = pc /\ y.block = b /\ y.own = own /\ y.wait = x.wait
    BY <2>0, Parts DEF At
  <2> QED
    BY <1>12, <2>0, <2>1 DEF Move
<1>13. /\ tasks'[t].op = x.op /\ tasks'[t].wait = x.wait /\ tasks'[t].own = own
       /\ IF x.pc = "wait" THEN tasks'[t].pc = "commit" /\ tasks'[t].block = x.block
                           ELSE tasks'[t].pc = "walk" /\ tasks'[t].block = x.block + 1
  BY <1>11, <1>12
<1> QED
  BY <1>x, <1>0, <1>1, <1>2, <1>10, <1>13

(* A commit.                                                               *)
LEMMA LogsJoin ==
  ASSUME TypeInv, Chain, NEW t \in Task, Commits(t)
  PROVE /\ Logged(logs') = Logged(logs) \cup Logged(tasks[t].own)
        /\ Injective(logs) /\ Injective(tasks[t].own) /\ Logged(tasks[t].own) \cap Logged(logs) = {} => Injective(logs')
        /\ DOMAIN tasks'[t].own = {} /\ tasks'[t].pc = "progress" /\ tasks'[t].op = tasks[t].op
<1>x. PICK x : x = tasks[t]
  OBVIOUS
<1>1. PICK own : own = x.own
  OBVIOUS
<1>2. DOMAIN own \cap DOMAIN logs = {} /\ logs' = With(own, logs)
  BY <1>x, <1>1 DEF Chain, Commits
<1>3. /\ Logged(own) \subseteq Logged(With(own, logs))
      /\ Logged(With(own, logs)) \subseteq Logged(own) \cup Logged(logs)
      /\ DOMAIN own \cap DOMAIN logs = {} => Logged(logs) \subseteq Logged(With(own, logs))
      /\ Injective(own) /\ Injective(logs) /\ Logged(own) \cap Logged(logs) = {} => Injective(With(own, logs))
  BY ONLY LoggedWith, Zenon
<1>4. PICK y : y = At(x, "progress", x.block, x.order, <<>>)
  OBVIOUS
<1>5. y.op = x.op /\ y.pc = "progress" /\ DOMAIN y.own = {}
  BY <1>4, Parts, Unlogged DEF At
<1>6. Move(t, y)
  BY <1>x, <1>4 DEF Commits
<1> QED
  BY <1>x, <1>1, <1>2, <1>3, <1>5, <1>6 DEF Move

(* Without a log of its own a transaction may fail, with one it does not:  *)
(* the numbers after its first are free.                                   *)
LEMMA FailsFirst ==
  ASSUME TypeInv, Chain, NEW t \in Task, Leaves(t)
  PROVE DOMAIN tasks[t].own = {}
<1>x. PICK x : x = tasks[t]
  OBVIOUS
<1>0. IsTask(x) /\ x.op \in InTx /\ DOMAIN logs = 1..Last /\ Last \in Nat /\ x.order \in Nat
  BY <1>x, TaskFacts, LastIsNat DEF Leaves, Chain, IsTask
<1>1. CASE x.pc \in {"progress", "conclude", "next"}
  BY <1>x, <1>0, <1>1 DEF IsTask
<1>2. CASE x.pc \in {"first", "insert", "wait"} /\ (x.order \in DOMAIN logs \/ Held(t, x.order))
  <2>1. ASSUME DOMAIN x.own # {} PROVE FALSE
    <3>1. Top(x) > Last /\ Top(x) = x.order - 1
      BY <1>x, <1>2, <2>1, Based DEF Top
    <3>2. x.order \notin DOMAIN logs
      BY <1>0, <3>1
    <3>3. \A u \in Task : u # t => DOMAIN tasks[u].own = {}
      BY <1>x, <2>1 DEF Chain
    <3> QED
      BY <1>2, <3>2, <3>3 DEF Held
  <2> QED
    BY <1>x, <2>1
<1> QED
  BY <1>x, <1>1, <1>2 DEF Leaves

----------------------------------------------------------------------------
(* The record of a task after its turn *)

LEMMA Frame ==
  ASSUME TypeInv, NEW t \in Task, Turn(t)
  PROVE DOMAIN tasks' = Task /\ \A u \in Task : u # t => tasks'[u] = tasks[u]
<1>1. Kept
  BY WaitsKept
<1>2. \E y : Move(t, y) /\ IsTask(y) /\ Refers(y, waits')
  BY <1>1, StartTyped, ReadTyped, TxTyped, TxLogTyped, WaitTyped, OpenTyped DEF Turn
<1> QED
  BY <1>2 DEF Move

LEMMA AfterMove ==
  ASSUME NEW t \in Task, NEW o, NEW p, NEW q, NEW r, NEW s, NEW u, NEW v, NEW w, Move(t, Rec(o, p, q, r, s, u, v, w))
  PROVE /\ tasks'[t].op = o /\ tasks'[t].pc = p /\ tasks'[t].block = q /\ tasks'[t].order = r /\ tasks'[t].own = s
        /\ tasks'[t].wait = v
<1>1. PICK y : y = Rec(o, p, q, r, s, u, v, w)
  OBVIOUS
<1> QED
  BY <1>1, Parts DEF Move

LEMMA AfterIdle ==
  ASSUME NEW t \in Task, Move(t, Idle)
  PROVE tasks'[t].op = "none" /\ tasks'[t].pc = "idle" /\ DOMAIN tasks'[t].own = {}
  BY IdleIsTask DEF Move

LEMMA ShapeStart ==
  ASSUME TypeInv, NEW t \in Task, StartTurn(t) \/ Wakes(t) \/ StartLogs(t)
  PROVE /\ tasks[t].op \in Starts /\ DOMAIN tasks[t].own = {} /\ DOMAIN tasks'[t].own = {}
        /\ tasks'[t].op \in Starts \/ (tasks'[t].op = "none" /\ tasks'[t].pc = "idle")
        /\ tasks'[t].op \in Starts =>
             \/ tasks'[t].block = tasks[t].block /\ tasks[t].pc # "log"
             \/ /\ tasks'[t].block = tasks[t].block + 1 /\ tasks'[t].pc # "log"
                /\ tasks[t].block \in Block /\ KindOf(tasks[t].block) # "ACTION"
        /\ \/ UNCHANGED performed
           \/ /\ Performs(tasks[t].block) /\ tasks[t].pc # "log"
              /\ tasks[t].block \in Block /\ KindOf(tasks[t].block) # "ACTION"
              /\ tasks'[t].op \in Starts => tasks'[t].block = tasks[t].block /\ tasks'[t].pc = "log"
<1>x. PICK x : x = tasks[t]
  OBVIOUS
<1>0. IsTask(x) /\ x.op \in Starts /\ DOMAIN x.own = {}
  BY <1>x, TaskFacts DEF StartTurn, Wakes, StartLogs, IsTask, Starts, InTx
<1>1. CASE Wakes(t)
  <2>1. \E pc \in {"walk", "log"} : Move(t, Rec(x.op, pc, x.block, x.order, x.own, x.promote, x.wait, x.todo))
    BY <1>x, <1>1 DEF Wakes, Here, At
  <2>2. tasks'[t].op = x.op /\ tasks'[t].block = x.block /\ tasks'[t].own = x.own
    BY <2>1, AfterMove
  <2> QED
    BY <1>x, <1>0, <1>1, <2>2 DEF Wakes
<1>2. CASE StartLogs(t)
  <2>0. x.block \in Block /\ KindOf(x.block) # "ACTION" /\ UNCHANGED performed
    BY <1>x, <1>0, <1>2 DEF StartLogs, IsTask
  <2>1. CASE Move(t, Idle)
    BY <1>x, <1>0, <2>0, <2>1, AfterIdle DEF Starts
  <2>2. CASE \E n : Move(t, Rec(x.op, "walk", x.block + 1, n, x.own, x.promote, x.wait, x.todo))
    <3>1. tasks'[t].op = x.op /\ tasks'[t].pc = "walk" /\ tasks'[t].block = x.block + 1 /\ tasks'[t].own = x.own
      BY <2>2, AfterMove
    <3> QED
      BY <1>x, <1>0, <2>0, <3>1
  <2> QED
    BY <1>x, <1>2, <2>1, <2>2 DEF StartLogs, At
<1>3. CASE StartTurn(t)
  <2>0. x.pc = "walk"
    BY <1>x, <1>3 DEF StartTurn
  <2>1. CASE Move(t, Idle) /\ UNCHANGED performed
    BY <1>x, <1>0, <2>1, AfterIdle DEF Starts
  <2>2. CASE /\ x.block \in Block /\ KindOf(x.block) # "ACTION" /\ (Performs(x.block) \/ UNCHANGED performed)
             /\ Move(t, Rec(x.op, "log", x.block, x.order, x.own, x.promote, x.wait, x.todo))
    <3>1. tasks'[t].op = x.op /\ tasks'[t].pc = "log" /\ tasks'[t].block = x.block /\ tasks'[t].own = x.own
      BY <2>2, AfterMove
    <3> QED
      BY <1>x, <1>0, <2>0, <2>2, <3>1
  <2>3. CASE /\ x.block \in Block /\ KindOf(x.block) # "ACTION" /\ UNCHANGED performed
             /\ \E o \in Starts, pc \in {"walk", "sleep"} :
                  Move(t, Rec(o, pc, x.block + 1, x.order, x.own, x.promote, x.wait, x.todo))
    <3>1. tasks'[t].op \in Starts /\ tasks'[t].pc # "log" /\ tasks'[t].block = x.block + 1 /\ tasks'[t].own = x.own
      BY <2>3, AfterMove
    <3> QED
      BY <1>x, <1>0, <2>0, <2>3, <3>1
  <2>4. CASE UNCHANGED performed /\ Move(t, Rec(x.op, "sleep", x.block, x.order, x.own, x.promote, x.wait, x.todo))
    <3>1. tasks'[t].op = x.op /\ tasks'[t].pc = "sleep" /\ tasks'[t].block = x.block /\ tasks'[t].own = x.own
      BY <2>4, AfterMove
    <3> QED
      BY <1>x, <1>0, <2>0, <2>4, <3>1
  <2>5. "timer" \in Starts
    BY DEF Starts
  <2> QED
    BY <1>x, <1>0, <1>3, <2>1, <2>2, <2>3, <2>4, <2>5 DEF StartTurn, Here, At
<1> QED
  BY <1>1, <1>2, <1>3

LEMMA ShapeReads ==
  ASSUME TypeInv, Linear, NEW t \in Task, Reads(t)
  PROVE /\ DOMAIN tasks[t].own = {} /\ DOMAIN tasks'[t].own = {}
        /\ \/ tasks'[t].op = "none" /\ tasks'[t].pc = "idle"
           \/ /\ tasks'[t].op = "advance" /\ tasks'[t].pc = "first" /\ tasks'[t].block = CurrentBlock
              /\ tasks'[t].order = NextStepOrder /\ KindOf(CurrentBlock) = "ACTION" /\ ~Complete
<1>1. DOMAIN tasks[t].own = {}
  BY IdleIsTask DEF Reads
<1>2. CASE Move(t, Idle)
  BY <1>1, <1>2, AfterIdle
<1>3. CASE /\ Advanceable /\ KindOf(CurrentBlock) = "ACTION"
           /\ \E p : Move(t, Rec("advance", "first", CurrentBlock, NextStepOrder, <<>>, p, 0, {}))
  <2>1. /\ tasks'[t].op = "advance" /\ tasks'[t].pc = "first" /\ tasks'[t].block = CurrentBlock
        /\ tasks'[t].order = NextStepOrder /\ tasks'[t].own = <<>>
    BY <1>3, AfterMove
  <2> QED
    BY <1>1, <1>3, <2>1, Unlogged DEF Advanceable
<1> QED
  BY <1>2, <1>3 DEF Reads, Linear

LEMMA ShapeTx ==
  ASSUME TypeInv, NEW t \in Task, TxTurn(t)
  PROVE /\ tasks[t].op \in InTx /\ tasks[t].pc = "walk"
        /\ tasks'[t].op = tasks[t].op /\ tasks'[t].block = tasks[t].block /\ tasks'[t].own = tasks[t].own
        /\ tasks'[t].wait = tasks[t].wait
        /\ \/ tasks'[t].pc = "commit" /\ Halts(tasks[t].block) /\ UNCHANGED performed
           \/ tasks'[t].pc = "wait" /\ KindOf(tasks[t].block) = "WAIT_FOR" /\ tasks[t].block \in Block /\ UNCHANGED performed
           \/ /\ tasks'[t].pc = "insert" /\ KindOf(tasks[t].block) \notin {"ACTION", "WAIT_FOR"} /\ tasks[t].block \in Block
              /\ Performs(tasks[t].block) \/ UNCHANGED performed
<1>x. PICK x : x = tasks[t]
  OBVIOUS
<1>1. CASE UNCHANGED performed /\ Halts(x.block) /\ Move(t, Rec(x.op, "commit", x.block, x.order, x.own, x.promote, x.wait, x.todo))
  <2>1. /\ tasks'[t].op = x.op /\ tasks'[t].pc = "commit" /\ tasks'[t].block = x.block /\ tasks'[t].own = x.own
        /\ tasks'[t].wait = x.wait
    BY <1>1, AfterMove
  <2> QED
    BY <1>x, <1>1, <2>1 DEF TxTurn
<1>2. CASE /\ UNCHANGED performed /\ KindOf(x.block) = "WAIT_FOR"
           /\ Move(t, Rec(x.op, "wait", x.block, x.order + 1, x.own, x.promote, x.wait, x.todo))
  <2>1. /\ tasks'[t].op = x.op /\ tasks'[t].pc = "wait" /\ tasks'[t].block = x.block /\ tasks'[t].own = x.own
        /\ tasks'[t].wait = x.wait
    BY <1>2, AfterMove
  <2>2. x.block \in Block
    BY <1>2, BlockFacts
  <2> QED
    BY <1>x, <1>2, <2>1, <2>2 DEF TxTurn
<1>3. CASE /\ Performs(x.block) \/ UNCHANGED performed
           /\ ~Halts(x.block) /\ KindOf(x.block) # "WAIT_FOR"
           /\ Move(t, Rec(x.op, "insert", x.block, x.order + 1, x.own, x.promote, x.wait, x.todo))
  <2>1. /\ tasks'[t].op = x.op /\ tasks'[t].pc = "insert" /\ tasks'[t].block = x.block /\ tasks'[t].own = x.own
        /\ tasks'[t].wait = x.wait
    BY <1>3, AfterMove
  <2>2. x.block \in Block /\ KindOf(x.block) \notin {"ACTION", "WAIT_FOR"}
    BY <1>3, BlockFacts DEF Halts
  <2> QED
    BY <1>x, <1>3, <2>1, <2>2 DEF TxTurn
<1> QED
  BY <1>x, <1>1, <1>2, <1>3 DEF TxTurn, Here, At

LEMMA ShapeOff ==
  ASSUME TypeInv, NEW t \in Task, Leaves(t) \/ Opens(t) \/ Finds(t)
  PROVE /\ DOMAIN tasks'[t].own = {} /\ tasks'[t].op \notin Starts
        /\ tasks'[t].pc \in {"idle", "next", "find", "conclude"}
<1>x. PICK x : x = tasks[t]
  OBVIOUS
<1>0. IsTask(x)
  BY <1>x, TaskFacts
<1>1. CASE Move(t, Idle)
  BY <1>1, AfterIdle DEF Starts
<1>2. ASSUME NEW o, o \notin Starts, NEW pc \in {"idle", "next", "find", "conclude"}, NEW b, NEW n, NEW own, DOMAIN own = {},
             NEW p, NEW i, NEW todo, Move(t, Rec(o, pc, b, n, own, p, i, todo))
      PROVE /\ DOMAIN tasks'[t].own = {} /\ tasks'[t].op \notin Starts
            /\ tasks'[t].pc \in {"idle", "next", "find", "conclude"}
  BY <1>2, AfterMove
<1>3. CASE Leaves(t)
  <2>1. x.op \notin Starts /\ (x.pc = "progress" => DOMAIN x.own = {})
    BY <1>x, <1>0, <1>3 DEF Leaves, Starts, InTx, IsTask
  <2>2. \/ Move(t, Idle)
        \/ Move(t, Rec(x.op, "next", x.block, x.order, <<>>, x.promote, x.wait, x.todo))
        \/ x.pc = "progress" /\ Move(t, Rec(x.op, "conclude", x.block, x.order, x.own, x.promote, x.wait, x.todo))
    BY <1>x, <1>3 DEF Leaves, Turns, Here, At
  <2> QED
    BY <1>1, <1>2, <2>1, <2>2, Unlogged
<1>4. CASE Opens(t)
  <2>1. PICK no \in BOOLEAN : no = FALSE
    OBVIOUS
  <2>2. \/ \E todo : Move(t, Rec("timeout", "next", 0, 0, <<>>, no, 0, todo))
        \/ \E op \in {"cancelled", "event"} : Move(t, Rec(op, "find", 0, 0, <<>>, no, 0, {}))
        \/ Move(t, Idle)
    BY <1>4, <2>1 DEF Opens
  <2>3. "timeout" \notin Starts /\ "event" \notin Starts /\ "cancelled" \notin Starts
    BY DEF Starts
  <2> QED
    BY <1>1, <1>2, <2>2, <2>3, Unlogged
<1>5. CASE Finds(t)
  <2>1. DOMAIN x.own = {} /\ (x.op = "event" => x.op \notin Starts)
    BY <1>x, <1>0, <1>5 DEF IsTask, Finds, Starts
  <2>2. \/ Move(t, Idle)
        \/ x.op = "event" /\ \E todo : Move(t, Rec(x.op, "next", x.block, x.order, x.own, x.promote, x.wait, todo))
    BY <1>x, <1>5 DEF Finds
  <2> QED
    BY <1>1, <1>2, <2>1, <2>2
<1> QED
  BY <1>3, <1>4, <1>5

LEMMA ShapeWait ==
  ASSUME TypeInv, NEW t \in Task, Resolves(t) \/ Notes(t) \/ ResumesWalk(t)
  PROVE /\ tasks[t].op \in Resumes /\ tasks'[t].op = tasks[t].op
        /\ DOMAIN tasks[t].own = {} /\ DOMAIN tasks'[t].own = {}
        /\ Resolves(t) => \/ tasks'[t].pc = "next" /\ waits' = waits
                          \/ /\ tasks'[t].pc = "note" /\ tasks'[t].wait \in DOMAIN waits
                             /\ waits[tasks'[t].wait].status = "WAITING" /\ waits'[tasks'[t].wait].status # "WAITING"
        /\ Notes(t) => tasks'[t].pc = "next" \/ (tasks'[t].pc = "resume" /\ tasks'[t].wait = tasks[t].wait)
        /\ ResumesWalk(t) => /\ tasks'[t].pc = "walk" /\ tasks'[t].wait = tasks[t].wait
                             /\ tasks'[t].block = waits[tasks[t].wait].block + 1
<1>x. PICK x : x = tasks[t]
  OBVIOUS
<1>0. IsTask(x) /\ x.op \in Resumes /\ x.pc \in {"next", "note", "resume"} /\ Refers(x, waits)
  BY <1>x, TaskFacts DEF Resolves, Notes, ResumesWalk
<1>1. DOMAIN x.own = {}
  BY <1>0 DEF IsTask
<1>2. CASE Resolves(t)
  <2>0. x.pc = "next"
    BY <1>x, <1>2 DEF Resolves
  <2>1. PICK i \in x.todo, over \in {"EXPIRED", "TRIGGERED"} :
          \/ /\ i \in Waiting /\ waits' = [waits EXCEPT ![i].status = over]
             /\ Move(t, Rec(x.op, "note", x.block, x.order, x.own, x.promote, i, x.todo \ {i}))
          \/ /\ UNCHANGED waits
             /\ Move(t, Rec(x.op, "next", x.block, x.order, x.own, x.promote, i, x.todo \ {i}))
    BY <1>x, <1>2 DEF Resolves
  <2>2. CASE /\ i \in Waiting /\ waits' = [waits EXCEPT ![i].status = over]
             /\ Move(t, Rec(x.op, "note", x.block, x.order, x.own, x.promote, i, x.todo \ {i}))
    <3>1. tasks'[t].op = x.op /\ tasks'[t].pc = "note" /\ tasks'[t].own = x.own /\ tasks'[t].wait = i
      BY <2>2, AfterMove
    <3>2. i \in DOMAIN waits /\ waits[i].status = "WAITING" /\ waits[i] \in WaitRow
      BY <2>2 DEF Waiting, TypeInv
    <3>3. waits'[i].status = over
      BY <2>2, <3>2 DEF WaitRow
    <3> QED
      BY <1>x, <1>0, <1>1, <2>0, <3>1, <3>2, <3>3 DEF Notes, ResumesWalk
  <2>3. CASE /\ UNCHANGED waits
             /\ Move(t, Rec(x.op, "next", x.block, x.order, x.own, x.promote, i, x.todo \ {i}))
    <3>1. tasks'[t].op = x.op /\ tasks'[t].pc = "next" /\ tasks'[t].own = x.own
      BY <2>3, AfterMove
    <3> QED
      BY <1>x, <1>0, <1>1, <2>0, <2>3, <3>1 DEF Notes, ResumesWalk
  <2> QED
    BY <2>1, <2>2, <2>3
<1>3. CASE Notes(t)
  <2>0. x.pc = "note"
    BY <1>x, <1>3 DEF Notes
  <2>1. PICK pc \in {"next", "resume"} : Move(t, Rec(x.op, pc, x.block, x.order, x.own, x.promote, x.wait, x.todo))
    BY <1>x, <1>3 DEF Notes, Here, At
  <2>2. tasks'[t].op = x.op /\ tasks'[t].pc = pc /\ tasks'[t].own = x.own /\ tasks'[t].wait = x.wait
    BY <2>1, AfterMove
  <2> QED
    BY <1>x, <1>0, <1>1, <2>0, <2>2 DEF Resolves, ResumesWalk
<1>4. CASE ResumesWalk(t)
  <2>0. x.pc = "resume"
    BY <1>x, <1>4 DEF ResumesWalk
  <2>1. PICK b, n : b = waits[x.wait].block + 1 /\ Move(t, Rec(x.op, "walk", b, n, x.own, x.promote, x.wait, x.todo))
    BY <1>x, <1>4 DEF ResumesWalk, At
  <2>2. tasks'[t].op = x.op /\ tasks'[t].pc = "walk" /\ tasks'[t].block = b /\ tasks'[t].own = x.own /\ tasks'[t].wait = x.wait
    BY <2>1, AfterMove
  <2> QED
    BY <1>x, <1>0, <1>1, <2>0, <2>1, <2>2 DEF Resolves, Notes
<1> QED
  BY <1>2, <1>3, <1>4

----------------------------------------------------------------------------
(* Which blocks a turn takes *)

LEMMA LogsStay ==
  ASSUME TypeInv, Chain, Linear, NEW t \in Task, Turn(t), ~StartLogs(t), ~TxLogs(t), ~Commits(t)
  PROVE /\ Logged(logs') = Logged(logs) /\ (Injective(logs) => Injective(logs'))
        /\ Logged(tasks'[t].own) = Logged(tasks[t].own)
        /\ (Injective(tasks[t].own) => Injective(tasks'[t].own))
<1>0. IsTask(tasks[t])
  BY TaskFacts
<1>1. ASSUME logs' = logs, DOMAIN tasks[t].own = {}, DOMAIN tasks'[t].own = {}
      PROVE /\ Logged(logs') = Logged(logs) /\ (Injective(logs) => Injective(logs'))
            /\ Logged(tasks'[t].own) = Logged(tasks[t].own)
            /\ (Injective(tasks[t].own) => Injective(tasks'[t].own))
  BY <1>1, LoggedNone
<1>2. CASE StartTurn(t) \/ Wakes(t)
  BY <1>1, <1>2, ShapeStart DEF StartTurn, Wakes
<1>3. CASE Reads(t)
  BY <1>1, <1>3, ShapeReads DEF Reads
<1>4. CASE TxTurn(t)
  BY <1>4, ShapeTx DEF TxTurn
<1>5. CASE Leaves(t)
  BY <1>1, <1>5, ShapeOff, FailsFirst DEF Leaves
<1>6. CASE Opens(t)
  <2>1. DOMAIN tasks[t].own = {}
    BY <1>6, IdleIsTask DEF Opens
  <2> QED
    BY <1>1, <1>6, <2>1, ShapeOff DEF Opens
<1>7. CASE Finds(t)
  <2>1. DOMAIN tasks[t].own = {}
    BY <1>0, <1>7 DEF Finds, IsTask
  <2> QED
    BY <1>1, <1>7, <2>1, ShapeOff DEF Finds
<1>8. CASE Resolves(t) \/ ResumesWalk(t)
  BY <1>1, <1>8, ShapeWait DEF Resolves, ResumesWalk
<1>9. CASE Notes(t)
  <2>1. DOMAIN tasks[t].own = {} /\ DOMAIN tasks'[t].own = {}
    BY <1>9, ShapeWait
  <2>2. DOMAIN logs' = DOMAIN logs
    BY <1>9 DEF Notes
  <2>3. \A k \in DOMAIN logs : logs'[k].block = logs[k].block
    <3>1. ASSUME NEW k \in DOMAIN logs PROVE logs'[k].block = logs[k].block
      <4>1. logs[k] \in [block : Block, waiting : BOOLEAN]
        BY DEF TypeInv, IsLogs
      <4>2. logs'[k] = logs[k] \/ logs'[k] = [logs[k] EXCEPT !.waiting = FALSE]
        BY <1>9 DEF Notes
      <4> QED
        BY <4>1, <4>2
    <3> QED
      BY <3>1
  <2>4. Logged(logs') = Logged(logs) /\ (Injective(logs) => Injective(logs'))
    BY <2>2, <2>3, LoggedSame
  <2> QED
    BY <2>1, <2>4, LoggedNone
<1>10. ~Restarts(t)
  BY DEF Linear, Growing, Restarts
<1> QED
  BY <1>2, <1>3, <1>4, <1>5, <1>6, <1>7, <1>8, <1>9, <1>10 DEF Turn

(* A block that is taken stays so, and a log takes only its own block.     *)
LEMMA TakenAfter ==
  ASSUME TypeInv, Chain, Linear, NEW t \in Task, Turn(t), NEW b
  PROVE /\ Taken(b) => Taken(b)'
        /\ Taken(b)' => Taken(b) \/ ((StartLogs(t) \/ TxLogs(t)) /\ b = tasks[t].block)
        /\ TxLogs(t) /\ b = tasks[t].block => Taken(b)'
<1>0. \A u \in Task : u # t => tasks'[u] = tasks[u]
  BY Frame
<1>1. ASSUME NEW u \in Task, DOMAIN tasks[u].own = {} PROVE b \notin Logged(tasks[u].own)
  BY <1>1, LoggedNone
<1>2. CASE StartLogs(t)
  <2>1. /\ Logged(tasks[t].own) = {} /\ Logged(tasks'[t].own) = {} /\ ~TxLogs(t)
        /\ Logged(logs) \subseteq Logged(logs') /\ Logged(logs') \subseteq Logged(logs) \cup {tasks[t].block}
    BY <1>2, LogsGrow, LoggedNone DEF TxLogs, StartLogs, Starts, InTx
  <2> QED
    BY <1>0, <1>2, <2>1 DEF Taken
<1>3. CASE TxLogs(t)
  <2>1. Logged(tasks'[t].own) = Logged(tasks[t].own) \cup {tasks[t].block} /\ logs' = logs
    BY <1>3, OwnGrows
  <2> QED
    BY <1>0, <1>3, <2>1 DEF Taken
<1>4. CASE Commits(t)
  <2>1. /\ Logged(logs') = Logged(logs) \cup Logged(tasks[t].own) /\ Logged(tasks'[t].own) = {}
        /\ ~TxLogs(t)
    BY <1>4, LogsJoin, LoggedNone DEF TxLogs, Commits
  <2> QED
    BY <1>0, <2>1 DEF Taken
<1>5. CASE ~StartLogs(t) /\ ~TxLogs(t) /\ ~Commits(t)
  <2>1. Logged(logs') = Logged(logs) /\ Logged(tasks'[t].own) = Logged(tasks[t].own)
    BY <1>5, LogsStay
  <2> QED
    BY <1>0, <1>5, <2>1 DEF Taken
<1> QED
  BY <1>2, <1>3, <1>4, <1>5

(* Two who walk to the same block walk from the same one, and are one.     *)
LEMMA Alone ==
  ASSUME TypeInv, Chain, Rows, Walkers, NEW t \in Task, NEW u \in Task, NEW d,
         Walking(tasks[t]), Walking(tasks[u]), Heads(d, tasks[t].block), Heads(d, tasks[u].block)
  PROVE t = u
<1>0. tasks[t].block \in Nat /\ tasks[u].block \in Nat
  BY TaskFacts, Fields
<1>1. \/ KindOf(d) = "ACTION" /\ d \in Logged(tasks[t].own)
      \/ KindOf(d) = "WAIT_FOR" /\ tasks[t].op \in Resumes /\ waits[tasks[t].wait].block = d
  <2>1. PICK e \in Block : /\ Heads(e, tasks[t].block)
             /\ \/ KindOf(e) = "ACTION" /\ tasks[t].op = "advance" /\ e \in Logged(tasks[t].own)
                \/ KindOf(e) = "WAIT_FOR" /\ tasks[t].op \in Resumes /\ waits[tasks[t].wait].block = e
    BY DEF Walkers, Led
  <2>2. e = d
    BY <1>0, <2>1, HeadsUnique
  <2> QED
    BY <2>1, <2>2
<1>2. \/ KindOf(d) = "ACTION" /\ d \in Logged(tasks[u].own)
      \/ KindOf(d) = "WAIT_FOR" /\ tasks[u].op \in Resumes /\ waits[tasks[u].wait].block = d
  <2>1. PICK e \in Block : /\ Heads(e, tasks[u].block)
             /\ \/ KindOf(e) = "ACTION" /\ tasks[u].op = "advance" /\ e \in Logged(tasks[u].own)
                \/ KindOf(e) = "WAIT_FOR" /\ tasks[u].op \in Resumes /\ waits[tasks[u].wait].block = e
    BY DEF Walkers, Led
  <2>2. e = d
    BY <1>0, <2>1, HeadsUnique
  <2> QED
    BY <2>1, <2>2
<1>3. CASE KindOf(d) = "ACTION"
  <2>1. Logged(tasks[t].own) # {} /\ Logged(tasks[u].own) # {}
    BY <1>1, <1>2, <1>3
  <2>2. DOMAIN tasks[t].own # {} /\ DOMAIN tasks[u].own # {}
    BY <2>1, LoggedNone
  <2> QED
    BY <2>2 DEF Chain
<1>4. CASE KindOf(d) = "WAIT_FOR"
  <2>1. Resuming(tasks[t]) /\ Resuming(tasks[u])
    BY <1>1, <1>2, <1>4 DEF Resuming, Walking
  <2>2. tasks[t].wait \in DOMAIN waits /\ tasks[u].wait \in DOMAIN waits
    BY <2>1 DEF Walkers, Led
  <2>3. tasks[t].wait = tasks[u].wait
    BY <1>1, <1>2, <1>4, <2>2 DEF Rows
  <2> QED
    BY <2>1, <2>3 DEF Walkers
<1> QED
  BY <1>1, <1>3, <1>4

(* A block that a task is about to log is not due to anyone any more.      *)
Passed ==
  \A t \in Task, c \in Block : tasks[t].pc \in {"insert", "wait"} /\ tasks[t].block = c => ~Due(c)

LEMMA Passing == TypeInv /\ Chain /\ Rows /\ Walkers => Passed
<1>1. SUFFICES ASSUME TypeInv, Chain, Rows, Walkers, NEW t \in Task, tasks[t].pc \in {"insert", "wait"}, Due(tasks[t].block)
               PROVE FALSE
  BY DEF Passed
<1>2. PICK c \in Nat : c = tasks[t].block
  BY <1>1, TaskFacts, Fields
<1>3. /\ tasks[t].op \in InTx /\ Walking(tasks[t]) /\ KindOf(c) # "ACTION" /\ IsTask(tasks[t])
  BY <1>1, <1>2, TaskFacts DEF Does, InTx, Resumes, Starts, Walking, IsTask
<1>4. PICK d \in Block : Heads(d, c) /\ (Dormant(d) \/ \E u \in Task : AheadOf(tasks[u], d, c))
  BY <1>1, <1>2, <1>3 DEF Due
<1>5. ASSUME NEW u \in Task, AheadOf(tasks[u], d, c) PROVE FALSE
  <2>1. Walking(tasks[u]) /\ Heads(d, tasks[u].block)
    BY <1>5 DEF AheadOf
  <2>2. u = t
    BY <1>1, <1>2, <1>3, <1>4, <2>1, Alone
  <2> QED
    BY <1>1, <1>2, <1>5, <2>2 DEF AheadOf
<1>6. PICK e \in Block : /\ Heads(e, c)
         /\ \/ KindOf(e) = "ACTION" /\ tasks[t].op = "advance" /\ e \in Logged(tasks[t].own)
            \/ KindOf(e) = "WAIT_FOR" /\ tasks[t].op \in Resumes /\ waits[tasks[t].wait].block = e
  BY <1>1, <1>2, <1>3 DEF Walkers, Led
<1>7. e = d
  BY <1>2, <1>4, <1>6, HeadsUnique
<1>8. Dormant(d)
  BY <1>4, <1>5
<1>9. CASE KindOf(d) = "ACTION"
  BY <1>6, <1>7, <1>8, <1>9 DEF Dormant, Taken
<1>10. CASE KindOf(d) = "WAIT_FOR" /\ tasks[t].op \in Resumes /\ waits[tasks[t].wait].block = d
  <2>1. Resuming(tasks[t])
    BY <1>1, <1>10 DEF Resuming
  <2>2. tasks[t].wait \in DOMAIN waits /\ waits[tasks[t].wait].status # "WAITING"
    BY <1>1, <2>1 DEF Walkers, Led
  <2>3. PICK u \in Task : Noted(tasks[u]) /\ tasks[u].wait = tasks[t].wait
    BY <1>8, <1>10, <2>2 DEF Dormant
  <2>4. Resuming(tasks[u])
    BY <2>3 DEF Noted, Resuming
  <2>5. u = t
    BY <1>1, <2>1, <2>3, <2>4 DEF Walkers
  <2> QED
    BY <1>1, <2>3, <2>5 DEF Noted
<1> QED
  BY <1>6, <1>7, <1>9, <1>10

----------------------------------------------------------------------------
(* What is due becomes due by a crash alone *)

LEMMA DormantBefore ==
  ASSUME TypeInv, Chain, Linear, Rows, Walkers, NEW t \in Task, Turn(t), NEW d, Dormant(d)'
  PROVE Dormant(d)
<1>0. Kept /\ \A u \in Task : u # t => tasks'[u] = tasks[u]
  BY WaitsKept, Frame
<1>1. CASE KindOf(d) = "ACTION"
  BY <1>1, TakenAfter DEF Dormant
<1>2. CASE KindOf(d) # "ACTION"
  <2>1. ASSUME NEW i \in DOMAIN waits, waits[i].block = d, waits[i].status # "WAITING"
        PROVE \E u \in Task : Noted(tasks[u]) /\ tasks[u].wait = i
    <3>1. i \in DOMAIN waits' /\ waits'[i].block = d /\ waits'[i].status # "WAITING"
      BY <1>0, <2>1 DEF Kept
    <3>2. PICK u \in Task : Noted(tasks'[u]) /\ tasks'[u].wait = i
      BY <1>2, <3>1 DEF Dormant
    <3>3. CASE u # t
      BY <1>0, <3>2, <3>3
    <3>4. CASE u = t
      <4>1. tasks'[t].op \in Resumes /\ tasks'[t].pc \in {"note", "resume"}
        BY <3>2, <3>4 DEF Noted
      <4>2. ~StartTurn(t) /\ ~StartLogs(t) /\ ~Wakes(t)
        BY <4>1, ShapeStart DEF Starts, Resumes
      <4>3. ~Reads(t) /\ ~TxTurn(t) /\ ~Restarts(t)
        BY <4>1, ShapeReads, ShapeTx DEF Resumes, Restarts, Linear, Growing
      <4>4. ~TxLogs(t) /\ ~Commits(t)
        BY <4>1, OwnGrows, LogsJoin
      <4>5. ~Leaves(t) /\ ~Opens(t) /\ ~Finds(t)
        BY <4>1, ShapeOff
      <4>6. ~ResumesWalk(t)
        BY <4>1, ShapeWait
      <4>7. CASE Resolves(t)
        BY <2>1, <3>2, <3>4, <4>1, <4>7, ShapeWait
      <4>8. CASE Notes(t)
        <5>1. tasks[t].pc = "note" /\ tasks[t].op \in Resumes /\ tasks'[t].wait = tasks[t].wait
          BY <4>1, <4>8, ShapeWait DEF Notes
        <5> QED
          BY <3>2, <3>4, <5>1 DEF Noted
      <4> QED
        BY <4>2, <4>3, <4>4, <4>5, <4>6, <4>7, <4>8 DEF Turn
    <3> QED
      BY <3>3, <3>4
  <2> QED
    BY <1>2, <2>1 DEF Dormant
<1> QED
  BY <1>1, <1>2

(* How a task comes to walk, or to walk on.                                *)
LEMMA WalkedBefore ==
  ASSUME TypeInv, Chain, Linear, NEW t \in Task, Turn(t), Walking(tasks'[t])
  PROVE \/ /\ TxTurn(t) /\ Walking(tasks[t]) /\ tasks[t].pc = "walk" /\ tasks'[t].pc # "walk"
           /\ tasks'[t].block = tasks[t].block /\ tasks'[t].op = tasks[t].op /\ tasks'[t].wait = tasks[t].wait
           /\ tasks'[t].own = tasks[t].own /\ waits' = waits
        \/ /\ TxLogs(t) /\ tasks[t].pc \in {"first", "insert"} /\ tasks'[t].pc = "walk" /\ waits' = waits
           /\ tasks'[t].block = tasks[t].block + 1 /\ tasks'[t].op = tasks[t].op /\ tasks'[t].wait = tasks[t].wait
           /\ tasks[t].op \in InTx /\ Logged(tasks'[t].own) = Logged(tasks[t].own) \cup {tasks[t].block}
           /\ tasks[t].block \in Block
        \/ /\ ResumesWalk(t) /\ Noted(tasks[t]) /\ tasks'[t].pc = "walk" /\ tasks'[t].wait = tasks[t].wait
           /\ tasks'[t].block = waits[tasks[t].wait].block + 1 /\ tasks'[t].op = tasks[t].op /\ waits' = waits
<1>1. tasks'[t].op \in InTx /\ tasks'[t].pc \in {"walk", "insert", "wait"}
  BY DEF Walking
<1>2. ~StartTurn(t) /\ ~StartLogs(t) /\ ~Wakes(t)
  BY <1>1, ShapeStart DEF Starts, InTx
<1>3. ~Reads(t) /\ ~Commits(t) /\ ~Restarts(t)
  BY <1>1, ShapeReads, LogsJoin DEF InTx, Restarts, Linear, Growing
<1>4. ~Leaves(t) /\ ~Opens(t) /\ ~Finds(t)
  BY <1>1, ShapeOff
<1>5. ~Resolves(t) /\ ~Notes(t)
  BY <1>1, ShapeWait
<1>6. CASE TxTurn(t)
  BY <1>1, <1>6, ShapeTx DEF Walking, TxTurn
<1>7. CASE TxLogs(t)
  BY <1>1, <1>7, OwnGrows DEF TxLogs
<1>8. CASE ResumesWalk(t)
  BY <1>1, <1>8, ShapeWait DEF ResumesWalk, Noted
<1> QED
  BY <1>2, <1>3, <1>4, <1>5, <1>6, <1>7, <1>8 DEF Turn

LEMMA AheadBefore ==
  ASSUME TypeInv, Chain, Linear, Rows, Walkers, NEW t \in Task, Turn(t), NEW c \in Block, NEW d, NEW u \in Task,
         AheadOf(tasks'[u], d, c)
  PROVE Dormant(d) \/ AheadOf(tasks[u], d, c)
<1>0. /\ \A v \in Task : v # t => tasks'[v] = tasks[v]
      /\ c \in Nat
  BY Frame, BlockFacts
<1>1. CASE u # t
  BY <1>0, <1>1
<1>2. CASE u = t
  <2>1. Walking(tasks'[t]) /\ Heads(d, tasks'[t].block) /\ (tasks'[t].block < c \/ tasks'[t].block = c)
    BY <1>2 DEF AheadOf
  <2>2. IsTask(tasks[t]) /\ tasks[t].block \in Nat /\ Refers(tasks[t], waits)
    BY TaskFacts, Fields
  <2>3. CASE /\ Walking(tasks[t]) /\ tasks[t].pc = "walk" /\ tasks'[t].block = tasks[t].block
    BY <1>0, <1>2, <2>1, <2>2, <2>3 DEF AheadOf
  <2>4. CASE /\ TxLogs(t) /\ tasks[t].pc = "insert" /\ tasks'[t].block = tasks[t].block + 1
    <3>1. tasks[t].block \in Block /\ KindOf(tasks[t].block) \notin {"ACTION", "WAIT_FOR"} /\ tasks[t].op \in InTx
      BY <2>2, <2>4 DEF IsTask, TxLogs
    <3>2. Heads(d, tasks[t].block)
      <4>1. Heads(d, tasks[t].block + 1) /\ KindOf(d) \in {"ACTION", "WAIT_FOR"}
        BY <2>1, <2>4 DEF Heads
      <4> QED
        BY <3>1, <4>1, HeadsBack
    <3>3. tasks[t].block < c
      BY <1>0, <2>1, <2>2, <2>4
    <3> QED
      BY <1>2, <2>4, <3>1, <3>2, <3>3 DEF AheadOf, Walking
  <2>5. CASE /\ TxLogs(t) /\ tasks[t].pc = "first" /\ tasks'[t].block = tasks[t].block + 1
    <3>1. KindOf(tasks[t].block) = "ACTION" /\ tasks[t].block \in Block /\ tasks[t].block \notin Logged(logs)
      BY <2>2, <2>5 DEF Walkers, TxLogs, IsTask
    <3>2. d = tasks[t].block
      <4>1. Heads(d, tasks[t].block + 1)
        BY <2>1, <2>5
      <4> QED
        BY <3>1, <4>1, HeadsBack
    <3>3. \A v \in Task : DOMAIN tasks[v].own = {}
      BY <2>2, <2>5, OwnGrows DEF IsTask
    <3>4. ~Taken(d)
      BY <3>1, <3>2, <3>3, LoggedNone DEF Taken
    <3> QED
      BY <3>1, <3>2, <3>4 DEF Dormant
  <2>6. CASE /\ Noted(tasks[t]) /\ tasks'[t].block = waits[tasks[t].wait].block + 1
    <3>1. tasks[t].wait \in DOMAIN waits
      BY <2>2, <2>6 DEF Noted, Refers
    <3>2. PICK w : w = waits[tasks[t].wait].block
      OBVIOUS
    <3>3. w \in Block /\ KindOf(w) = "WAIT_FOR"
      <4>1. waits[tasks[t].wait] \in WaitRow
        BY <3>1 DEF TypeInv
      <4> QED
        BY <3>1, <3>2, <4>1 DEF Rows, WaitRow
    <3>4. d = w
      <4>1. Heads(d, w + 1)
        BY <2>1, <2>6, <3>2
      <4> QED
        BY <3>3, <4>1, HeadsBack
    <3>5. \A i \in DOMAIN waits : waits[i].block = d => i = tasks[t].wait
      BY <3>1, <3>2, <3>4 DEF Rows
    <3> QED
      BY <2>6, <3>3, <3>4, <3>5 DEF Dormant
  <2> QED
    BY <2>1, <2>3, <2>4, <2>5, <2>6, WalkedBefore
<1> QED
  BY <1>1, <1>2

LEMMA DueBefore ==
  ASSUME TypeInv, Chain, Linear, Rows, Walkers, NEW t \in Task, Turn(t), NEW c \in Block, Due(c)'
  PROVE Due(c)
<1>1. CASE KindOf(c) = "ACTION"
  BY <1>1, TakenAfter DEF Due
<1>2. CASE KindOf(c) # "ACTION"
  <2>1. PICK d \in Block : Heads(d, c) /\ (Dormant(d)' \/ \E u \in Task : AheadOf(tasks'[u], d, c))
    BY <1>2 DEF Due
  <2>2. CASE Dormant(d)'
    BY <1>2, <2>1, <2>2, DormantBefore DEF Due
  <2>3. ASSUME NEW u \in Task, AheadOf(tasks'[u], d, c) PROVE Due(c)
    BY <1>2, <2>1, <2>3, AheadBefore DEF Due
  <2> QED
    BY <2>1, <2>2, <2>3
<1> QED
  BY <1>1, <1>2

----------------------------------------------------------------------------
(* A turn keeps what is known of the blocks *)

LEMMA StartFree ==
  ASSUME TypeInv, Starters, NEW t \in Task, tasks[t].op \in Starts, tasks[t].block \in Block, KindOf(tasks[t].block) # "ACTION"
  PROVE tasks[t].block \in Opening /\ ~Taken(tasks[t].block)
<1>1. tasks[t].block \in Opening
  BY OpeningFacts DEF Starters
<1>2. tasks[t].block \in Nat
  BY BlockFacts
<1> QED
  BY <1>1, <1>2 DEF Starters

LEMMA WalkOutside ==
  ASSUME TypeInv, Rows, Walkers, NEW t \in Task, Walking(tasks[t])
  PROVE tasks[t].block \notin Opening
<1>1. PICK d \in Block : Heads(d, tasks[t].block) /\ (KindOf(d) = "ACTION" \/ (Resuming(tasks[t]) /\ waits[tasks[t].wait].block = d))
  BY DEF Walkers, Led, Walking, Resuming
<1>2. d \notin Opening
  BY <1>1, OpeningFacts DEF Rows, Walkers, Led
<1> QED
  BY <1>1, <1>2, HeadedOutside

LEMMA TxFree ==
  ASSUME TypeInv, Chain, Rows, Walkers, NEW t \in Task, TxLogs(t)
  PROVE tasks[t].block \in Block \ Opening /\ ~Taken(tasks[t].block)
<1>0. IsTask(tasks[t]) /\ tasks[t].op \in InTx /\ tasks[t].block \in Block
  BY TaskFacts, OwnGrows DEF TxLogs
<1>1. CASE tasks[t].pc = "first"
  <2>1. KindOf(tasks[t].block) = "ACTION" /\ tasks[t].block \notin Logged(logs)
    BY <1>1 DEF Walkers, TxLogs
  <2>2. \A v \in Task : DOMAIN tasks[v].own = {}
    BY <1>0, <1>1, OwnGrows DEF IsTask
  <2>3. ~Taken(tasks[t].block)
    BY <2>1, <2>2, LoggedNone DEF Taken
  <2> QED
    BY <1>0, <2>1, <2>3, OpeningFacts
<1>2. CASE tasks[t].pc \in {"insert", "wait"}
  BY <1>0, <1>2, WalkOutside DEF Walkers, Walking
<1> QED
  BY <1>1, <1>2 DEF TxLogs

LEMMA DistinctTurn ==
  ASSUME TypeInv, Chain, Linear, Once, NEW t \in Task, Turn(t)
  PROVE Distinct'
<1>0. \A u \in Task : u # t => tasks'[u] = tasks[u]
  BY Frame
<1>1. /\ Injective(logs) /\ \A u \in Task : Injective(tasks[u].own)
      /\ \A u \in Task : Logged(tasks[u].own) \cap Logged(logs) = {}
  BY DEF Once, Distinct
<1>2. CASE StartLogs(t)
  <2>1. ~Taken(tasks[t].block)
    BY <1>2, LogsGrow, StartFree DEF StartLogs, Once
  <2>2. Injective(logs') /\ Logged(logs') \subseteq Logged(logs) \cup {tasks[t].block} /\ DOMAIN tasks'[t].own = {}
    BY <1>1, <1>2, <2>1, LogsGrow DEF Taken
  <2>3. \A u \in Task : Injective(tasks'[u].own) /\ Logged(tasks'[u].own) \cap Logged(logs') = {}
    BY <1>0, <1>1, <2>1, <2>2, LoggedNone DEF Taken
  <2> QED
    BY <2>2, <2>3 DEF Distinct
<1>3. CASE TxLogs(t)
  <2>1. ~Taken(tasks[t].block)
    BY <1>3, TxFree DEF Once
  <2>2. /\ logs' = logs /\ Injective(tasks'[t].own)
        /\ Logged(tasks'[t].own) = Logged(tasks[t].own) \cup {tasks[t].block}
    BY <1>1, <1>3, <2>1, OwnGrows DEF Taken
  <2>3. \A u \in Task : Injective(tasks'[u].own) /\ Logged(tasks'[u].own) \cap Logged(logs') = {}
    BY <1>0, <1>1, <2>1, <2>2 DEF Taken
  <2> QED
    BY <1>1, <2>2, <2>3 DEF Distinct
<1>4. CASE Commits(t)
  <2>1. Injective(logs') /\ Logged(logs') = Logged(logs) \cup Logged(tasks[t].own) /\ DOMAIN tasks'[t].own = {}
    BY <1>1, <1>4, LogsJoin
  <2>2. ASSUME NEW u \in Task, u # t PROVE Logged(tasks[u].own) \cap Logged(tasks[t].own) = {}
    BY <2>2, LoggedNone DEF Chain
  <2>3. \A u \in Task : Injective(tasks'[u].own) /\ Logged(tasks'[u].own) \cap Logged(logs') = {}
    BY <1>0, <1>1, <2>1, <2>2, LoggedNone
  <2> QED
    BY <2>1, <2>3 DEF Distinct
<1>5. CASE ~StartLogs(t) /\ ~TxLogs(t) /\ ~Commits(t)
  <2>1. /\ Logged(logs') = Logged(logs) /\ Injective(logs')
        /\ Logged(tasks'[t].own) = Logged(tasks[t].own) /\ Injective(tasks'[t].own)
    BY <1>1, <1>5, LogsStay
  <2>2. \A u \in Task : Injective(tasks'[u].own) /\ Logged(tasks'[u].own) \cap Logged(logs') = {}
    BY <1>0, <1>1, <2>1
  <2> QED
    BY <2>1, <2>2 DEF Distinct
<1> QED
  BY <1>2, <1>3, <1>4, <1>5

LEMMA HeadedTurn ==
  ASSUME TypeInv, Chain, Linear, Once, NEW t \in Task, Turn(t)
  PROVE Headed'
<1>0. \A u \in Task : u # t => tasks'[u] = tasks[u]
  BY Frame
<1>1. HeadsIn(Logged(logs)) /\ \A u \in Task : HeadsIn(Logged(tasks[u].own))
  BY DEF Once, Headed
<1>2. CASE StartLogs(t)
  <2>1. tasks[t].block \in Opening
    BY <1>2, LogsGrow, StartFree DEF StartLogs, Once
  <2>2. /\ Logged(logs) \subseteq Logged(logs') /\ Logged(logs') \subseteq Logged(logs) \cup {tasks[t].block}
        /\ DOMAIN tasks'[t].own = {}
    BY <1>2, LogsGrow
  <2>3. \A d \in Block : KindOf(d) = "ACTION" => ~Heads(d, tasks[t].block)
    BY <2>1, HeadedOutside, OpeningFacts
  <2>4. HeadsIn(Logged(logs'))
    BY <1>1, <2>2, <2>3 DEF HeadsIn
  <2>5. HeadsIn(Logged(tasks'[t].own))
    BY <2>2, LoggedNone
  <2> QED
    BY <1>0, <1>1, <2>4, <2>5 DEF Headed
<1>3. CASE TxLogs(t)
  <2>1. logs' = logs /\ Logged(tasks'[t].own) = Logged(tasks[t].own) \cup {tasks[t].block} /\ tasks[t].block \in Block
    BY <1>3, OwnGrows
  <2>2. ASSUME NEW d \in Block, Heads(d, tasks[t].block), KindOf(d) = "ACTION", KindOf(tasks[t].block) # "ACTION"
        PROVE d \in Logged(tasks[t].own)
    <3>1. Walking(tasks[t])
      BY <1>3, <2>2 DEF Once, Walkers, TxLogs, Walking
    <3>2. PICK e \in Block : Heads(e, tasks[t].block) /\ (e \in Logged(tasks[t].own) \/ KindOf(e) = "WAIT_FOR")
      BY <3>1 DEF Once, Walkers, Led
    <3>3. e = d
      BY <2>1, <2>2, <3>2, HeadsUnique, BlockFacts
    <3> QED
      BY <2>2, <3>2, <3>3
  <2>3. HeadsIn(Logged(tasks'[t].own))
    BY <1>1, <2>1, <2>2 DEF HeadsIn
  <2> QED
    BY <1>0, <1>1, <2>1, <2>3 DEF Headed
<1>4. CASE Commits(t)
  <2>1. Logged(logs') = Logged(logs) \cup Logged(tasks[t].own) /\ DOMAIN tasks'[t].own = {}
    BY <1>4, LogsJoin
  <2>2. HeadsIn(Logged(logs'))
    BY <1>1, <2>1 DEF HeadsIn
  <2>3. HeadsIn(Logged(tasks'[t].own))
    BY <2>1, LoggedNone
  <2> QED
    BY <1>0, <1>1, <2>2, <2>3 DEF Headed
<1>5. CASE ~StartLogs(t) /\ ~TxLogs(t) /\ ~Commits(t)
  <2>1. Logged(logs') = Logged(logs) /\ Logged(tasks'[t].own) = Logged(tasks[t].own)
    BY <1>5, LogsStay
  <2> QED
    BY <1>0, <1>1, <2>1 DEF Headed
<1> QED
  BY <1>2, <1>3, <1>4, <1>5

(* A commit that has logged a wait opens it.                               *)
LEMMA WaitOpens ==
  ASSUME TypeInv, NEW t \in Task, Commits(t), NEW j \in DOMAIN tasks[t].own, tasks[t].own[j].waiting
  PROVE /\ DOMAIN waits' = DOMAIN waits \cup {Len(waits) + 1} /\ Len(waits) + 1 \notin DOMAIN waits
        /\ waits'[Len(waits) + 1].block = tasks[t].own[j].block
        /\ waits'[Len(waits) + 1].status = "WAITING" /\ waits'[Len(waits) + 1].run = run
<1>x. PICK x : x = tasks[t]
  OBVIOUS
<1>0. /\ waits \in Seq(WaitRow) /\ DOMAIN waits = 1..Len(waits) /\ Len(waits) \in Nat /\ IsTask(x) /\ run \in 1..MaxRuns
  BY <1>x, TaskFacts DEF TypeInv
<1>1. x.order = j /\ x.own[j].block \in Block /\ x.order \in Nat
  BY <1>0, <1>x DEF IsTask, IsLogs
<1>2. PICK row : row = [block |-> x.own[x.order].block, status |-> "WAITING", order |-> x.order,
                                    expired |-> FALSE, run |-> run]
  OBVIOUS
<1>3. row \in WaitRow /\ row.block = x.own[j].block /\ row.status = "WAITING" /\ row.run = run
  BY <1>0, <1>1, <1>2 DEF WaitRow, WaitStatus
<1>4. waits' = Append(waits, row)
  BY <1>x, <1>2 DEF Commits
<1>5. DOMAIN waits' = 1..(Len(waits) + 1) /\ waits'[Len(waits) + 1] = row
  BY <1>0, <1>3, <1>4
<1>6. 1..(Len(waits) + 1) = 1..Len(waits) \cup {Len(waits) + 1} /\ Len(waits) + 1 \notin 1..Len(waits)
  BY <1>0
<1> QED
  BY <1>0, <1>x, <1>3, <1>5, <1>6

(* The table of waits grows by a commit alone, with the wait it has logged.*)
LEMMA WaitsGrow ==
  ASSUME TypeInv, NEW t \in Task, Turn(t)
  PROVE \/ DOMAIN waits' = DOMAIN waits
        \/ /\ Commits(t) /\ DOMAIN waits' = DOMAIN waits \cup {Len(waits) + 1} /\ Len(waits) + 1 \notin DOMAIN waits
           /\ \E k \in DOMAIN tasks[t].own : /\ tasks[t].own[k].waiting /\ tasks[t].own[k].block = waits'[Len(waits) + 1].block
           /\ waits'[Len(waits) + 1].status = "WAITING" /\ waits'[Len(waits) + 1].run = run
<1>1. CASE Commits(t)
  <2>1. CASE \E k \in DOMAIN tasks[t].own : tasks[t].own[k].waiting
    BY <1>1, <2>1, WaitOpens
  <2>2. CASE waits' = waits
    BY <2>2
  <2> QED
    BY <1>1, <2>1, <2>2 DEF Commits
<1>2. ASSUME UNCHANGED waits PROVE DOMAIN waits' = DOMAIN waits
  BY <1>2
<1>3. CASE StartTurn(t) \/ StartLogs(t) \/ Wakes(t) \/ Reads(t)
  BY <1>2, <1>3 DEF StartTurn, StartLogs, Wakes, Reads
<1>4. CASE TxTurn(t) \/ TxLogs(t) \/ Leaves(t) \/ Opens(t)
  BY <1>2, <1>4 DEF TxTurn, TxLogs, Leaves, Opens
<1>5. CASE Notes(t) \/ ResumesWalk(t) \/ Restarts(t)
  BY <1>2, <1>5 DEF Notes, ResumesWalk, Restarts
<1>6. CASE Resolves(t)
  <2>1. \E i, over : waits' = [waits EXCEPT ![i].status = over] \/ UNCHANGED waits
    BY <1>6 DEF Resolves
  <2> QED
    BY <1>2, <2>1
<1>7. CASE Finds(t)
  <2>1. UNCHANGED waits \/ waits' = [i \in DOMAIN waits |->
                       IF i \in Waiting THEN [waits[i] EXCEPT !.status = "CANCELLED"] ELSE waits[i]]
    BY <1>7 DEF Finds
  <2> QED
    BY <1>2, <2>1
<1> QED
  BY <1>1, <1>3, <1>4, <1>5, <1>6, <1>7 DEF Turn

LEMMA LoggedGrows ==
  ASSUME TypeInv, Chain, Linear, NEW t \in Task, Turn(t)
  PROVE Logged(logs) \subseteq Logged(logs')
<1>1. CASE StartLogs(t)
  BY <1>1, LogsGrow
<1>2. CASE TxLogs(t)
  BY <1>2, OwnGrows
<1>3. CASE Commits(t)
  BY <1>3, LogsJoin
<1> QED
  BY <1>1, <1>2, <1>3, LogsStay

LEMMA RowsTurn ==
  ASSUME TypeInv, Chain, Linear, Once, NEW t \in Task, Turn(t)
  PROVE Rows'
<1>0. Kept /\ Logged(logs) \subseteq Logged(logs')
  BY WaitsKept, LoggedGrows
<1>1. ASSUME NEW i \in DOMAIN waits
      PROVE /\ waits'[i].block = waits[i].block /\ waits'[i].block \in Logged(logs) /\ waits'[i].block \in Logged(logs')
            /\ waits'[i].block \notin Opening /\ KindOf(waits'[i].block) = "WAIT_FOR"
  BY <1>0 DEF Kept, Once, Rows
<1>2. CASE DOMAIN waits' = DOMAIN waits
  <2>1. \A i, j \in DOMAIN waits : waits'[i].block = waits'[j].block => i = j
    BY <1>1 DEF Once, Rows
  <2> QED
    BY <1>1, <1>2, <2>1 DEF Rows
<1>3. ASSUME Commits(t), NEW n, DOMAIN waits' = DOMAIN waits \cup {n}, n \notin DOMAIN waits,
             \E k \in DOMAIN tasks[t].own : tasks[t].own[k].waiting /\ tasks[t].own[k].block = waits'[n].block
      PROVE Rows'
  <2>1. waits'[n].block \in Logged(tasks[t].own) /\ KindOf(waits'[n].block) = "WAIT_FOR"
    BY <1>3, TaskFacts DEF IsTask, Logged
  <2>2. /\ waits'[n].block \notin Opening /\ waits'[n].block \notin Logged(logs) /\ waits'[n].block \in Logged(logs')
    BY <1>3, <2>1, LogsJoin DEF Once, Walkers, Distinct
  <2>3. \A i \in DOMAIN waits' : waits'[i].block \in Logged(logs') /\ waits'[i].block \notin Opening
                                 /\ KindOf(waits'[i].block) = "WAIT_FOR"
    BY <1>1, <1>3, <2>1, <2>2
  <2>4. \A i \in DOMAIN waits : waits'[i].block # waits'[n].block
    BY <1>1, <2>2
  <2>5. \A i, j \in DOMAIN waits : waits'[i].block = waits'[j].block => i = j
    BY <1>1 DEF Once, Rows
  <2>6. \A i, j \in DOMAIN waits' : waits'[i].block = waits'[j].block => i = j
    BY <1>3, <2>4, <2>5
  <2> QED
    BY <2>3, <2>6 DEF Rows
<1> QED
  BY <1>2, <1>3, WaitsGrow

LEMMA Current ==
  ASSUME TypeInv, ~Complete
  PROVE CurrentBlock \in Block /\ Stops(CurrentBlock)
<1>1. {b \in Block : Stops(b)} # {} /\ {b \in Block : Stops(b)} \subseteq Nat
  BY BlockFacts DEF Complete
<1> QED
  BY <1>1, Least DEF CurrentBlock

(* How a task comes to resume.                                             *)
LEMMA ResumedBefore ==
  ASSUME TypeInv, Chain, Linear, NEW t \in Task, Turn(t), Resuming(tasks'[t])
  PROVE \/ Resuming(tasks[t]) /\ tasks'[t].wait = tasks[t].wait
        \/ /\ tasks'[t].wait \in DOMAIN waits /\ waits[tasks'[t].wait].status = "WAITING"
           /\ waits'[tasks'[t].wait].status # "WAITING"
<1>0. IsTask(tasks[t])
  BY TaskFacts
<1>1. CASE Walking(tasks'[t])
  <2>1. tasks'[t].op \in Resumes
    BY DEF Resuming
  <2>2. CASE TxLogs(t) /\ tasks[t].pc = "first"
    <3>1. tasks'[t].op = tasks[t].op
      BY <2>2, OwnGrows
    <3> QED
      BY <1>0, <2>1, <2>2, <3>1 DEF IsTask, Does, Resumes, Starts, InTx
  <2> QED
    BY <1>1, <2>1, <2>2, WalkedBefore DEF Resuming, Walking, Noted
<1>2. CASE ~Walking(tasks'[t])
  <2>1. tasks'[t].op \in Resumes /\ tasks'[t].pc \in {"note", "resume"} /\ tasks'[t].op \in InTx
    BY <1>2 DEF Resuming, Walking, Resumes, InTx
  <2>2. ~StartTurn(t) /\ ~StartLogs(t) /\ ~Wakes(t)
    BY <2>1, ShapeStart DEF Starts, Resumes
  <2>3. ~Reads(t) /\ ~TxTurn(t) /\ ~Restarts(t)
    BY <2>1, ShapeReads, ShapeTx DEF Resumes, Restarts, Linear, Growing
  <2>4. ~TxLogs(t) /\ ~Commits(t)
    BY <2>1, OwnGrows, LogsJoin
  <2>5. ~Leaves(t) /\ ~Opens(t) /\ ~Finds(t)
    BY <2>1, ShapeOff
  <2>6. ~ResumesWalk(t)
    BY <2>1, ShapeWait
  <2>7. CASE Resolves(t)
    BY <2>1, <2>7, ShapeWait
  <2>8. CASE Notes(t)
    BY <2>1, <2>8, ShapeWait DEF Notes, Resuming
  <2> QED
    BY <2>2, <2>3, <2>4, <2>5, <2>6, <2>7, <2>8 DEF Turn
<1> QED
  BY <1>1, <1>2

LEMMA LedTurn ==
  ASSUME TypeInv, Chain, Linear, Once, NEW t \in Task, Turn(t), NEW u \in Task
  PROVE Led(tasks'[u], waits')
<1>0. Kept /\ \A v \in Task : v # t => tasks'[v] = tasks[v]
  BY WaitsKept, Frame
<1>1. Led(tasks[u], waits)
  BY DEF Once, Walkers
<1>2. CASE u # t
  <2>1. PICK x : x = tasks[u]
    OBVIOUS
  <2>2. Led(x, waits) /\ tasks'[u] = x
    BY <1>0, <1>1, <1>2, <2>1
  <2>3. Resuming(x) => x.wait \in DOMAIN waits' /\ waits'[x.wait].status # "WAITING" /\ waits'[x.wait].block = waits[x.wait].block
    BY <1>0, <2>2 DEF Led, Kept
  <2>4. Walking(x) /\ x.op \in Resumes => Resuming(x)
    BY DEF Walking, Resuming
  <2>5. Led(x, waits')
    BY <2>2, <2>3, <2>4 DEF Led
  <2> QED
    BY <2>2, <2>5
<1>3. CASE u = t
  <2>1. ASSUME Resuming(tasks'[t]) PROVE tasks'[t].wait \in DOMAIN waits' /\ waits'[tasks'[t].wait].status # "WAITING"
    <3>1. CASE Resuming(tasks[t]) /\ tasks'[t].wait = tasks[t].wait
      <4>1. tasks[t].wait \in DOMAIN waits /\ waits[tasks[t].wait].status # "WAITING"
        BY <1>1, <1>3, <3>1 DEF Led
      <4> QED
        BY <1>0, <3>1, <4>1 DEF Kept
    <3>2. CASE tasks'[t].wait \in DOMAIN waits /\ waits'[tasks'[t].wait].status # "WAITING"
      BY <1>0, <3>2 DEF Kept
    <3> QED
      BY <2>1, <3>1, <3>2, ResumedBefore
  <2>2. ASSUME Walking(tasks'[t])
        PROVE \E d \in Block :
                /\ Heads(d, tasks'[t].block)
                /\ \/ KindOf(d) = "ACTION" /\ tasks'[t].op = "advance" /\ d \in Logged(tasks'[t].own)
                   \/ KindOf(d) = "WAIT_FOR" /\ tasks'[t].op \in Resumes /\ waits'[tasks'[t].wait].block = d
    <3>0. IsTask(tasks[t]) /\ Refers(tasks[t], waits)
      BY TaskFacts
    <3>1. CASE /\ Walking(tasks[t]) /\ tasks'[t].op = tasks[t].op /\ tasks'[t].wait = tasks[t].wait
               /\ tasks'[t].block = tasks[t].block /\ tasks'[t].own = tasks[t].own /\ waits' = waits
      BY <1>1, <1>3, <3>1 DEF Led
    <3>2. CASE /\ TxLogs(t) /\ tasks[t].pc = "insert" /\ tasks'[t].block = tasks[t].block + 1 /\ waits' = waits
               /\ tasks'[t].op = tasks[t].op /\ tasks'[t].wait = tasks[t].wait /\ tasks[t].op \in InTx
               /\ Logged(tasks'[t].own) = Logged(tasks[t].own) \cup {tasks[t].block} /\ tasks[t].block \in Block
      <4>1. Walking(tasks[t]) /\ KindOf(tasks[t].block) \notin {"ACTION", "WAIT_FOR"}
        BY <3>0, <3>2 DEF Walking, IsTask
      <4>2. PICK d \in Block :
                /\ Heads(d, tasks[t].block)
                /\ \/ KindOf(d) = "ACTION" /\ tasks[t].op = "advance" /\ d \in Logged(tasks[t].own)
                   \/ KindOf(d) = "WAIT_FOR" /\ tasks[t].op \in Resumes /\ waits[tasks[t].wait].block = d
        BY <1>1, <1>3, <4>1 DEF Led
      <4>3. Heads(d, tasks[t].block + 1)
        BY <3>2, <4>1, <4>2, HeadsNext
      <4> QED
        BY <3>2, <4>2, <4>3
    <3>3. CASE /\ TxLogs(t) /\ tasks[t].pc = "first" /\ tasks'[t].block = tasks[t].block + 1
               /\ tasks'[t].op = tasks[t].op
               /\ Logged(tasks'[t].own) = Logged(tasks[t].own) \cup {tasks[t].block} /\ tasks[t].block \in Block
      <4>1. KindOf(tasks[t].block) = "ACTION"
        BY <3>3 DEF Once, Walkers
      <4>2. tasks[t].op = "advance"
        BY <3>0, <3>3 DEF IsTask, Does
      <4>3. Heads(tasks[t].block, tasks[t].block + 1)
        BY <3>3, <4>1, HeadsSelf
      <4> QED
        BY <3>3, <4>1, <4>2, <4>3
    <3>4. CASE /\ Noted(tasks[t]) /\ tasks'[t].wait = tasks[t].wait /\ waits' = waits
               /\ tasks'[t].block = waits[tasks[t].wait].block + 1 /\ tasks'[t].op = tasks[t].op
      <4>0. tasks[t].wait \in DOMAIN waits /\ tasks[t].op \in Resumes
        BY <3>0, <3>4 DEF Noted, Refers
      <4>1. PICK w : w = waits[tasks[t].wait].block
        OBVIOUS
      <4>2. w \in Block /\ KindOf(w) = "WAIT_FOR"
        <5>1. waits[tasks[t].wait] \in WaitRow
          BY <4>0 DEF TypeInv
        <5> QED
          BY <4>0, <4>1, <5>1 DEF Once, Rows, WaitRow
      <4>3. Heads(w, w + 1)
        BY <4>2, HeadsSelf
      <4> QED
        BY <3>4, <4>0, <4>1, <4>2, <4>3
    <3> QED
      BY <2>2, <3>1, <3>2, <3>3, <3>4, WalkedBefore
  <2>3. PICK y, rows : y = tasks'[t] /\ rows = waits'
    OBVIOUS
  <2>4. Led(y, rows)
    BY <2>1, <2>2, <2>3 DEF Led
  <2> QED
    BY <1>3, <2>3, <2>4
<1> QED
  BY <1>2, <1>3

LEMMA AloneTurn ==
  ASSUME TypeInv, Chain, Linear, Once, NEW t \in Task, Turn(t), NEW u \in Task, NEW v \in Task,
         Resuming(tasks'[u]), Resuming(tasks'[v]), tasks'[u].wait = tasks'[v].wait
  PROVE u = v
<1>0. \A w \in Task : w # t => tasks'[w] = tasks[w]
  BY Frame
<1>1. ASSUME NEW w \in Task, w # t, Resuming(tasks'[w]), Resuming(tasks'[t]), tasks'[w].wait = tasks'[t].wait
      PROVE FALSE
  <2>1. Resuming(tasks[w]) /\ tasks[w].wait = tasks'[w].wait
    BY <1>0, <1>1
  <2>2. waits[tasks[w].wait].status # "WAITING"
    BY <2>1 DEF Once, Walkers, Led
  <2>3. Resuming(tasks[t]) /\ tasks'[t].wait = tasks[t].wait
    BY <1>1, <2>1, <2>2, ResumedBefore
  <2> QED
    BY <1>1, <2>1, <2>3 DEF Once, Walkers
<1>2. CASE u # t /\ v # t
  BY <1>0, <1>2 DEF Once, Walkers
<1> QED
  BY <1>1, <1>2

LEMMA UntakenTurn ==
  ASSUME TypeInv, Chain, Linear, Once, NEW t \in Task, Turn(t), NEW u \in Task, tasks'[u].pc \in {"insert", "wait"}
  PROVE ~(\/ tasks'[u].block \in Logged(logs') \/ \E v \in Task : tasks'[u].block \in Logged(tasks'[v].own))
<1>0. /\ \A w \in Task : w # t => tasks'[w] = tasks[w]
      /\ IsTask(tasks'[u]) /\ Rows /\ Walkers /\ Starters /\ NotAgain
  BY Frame, TypeTurn DEF TypeInv, Once
<1>1. PICK b : b = tasks'[u].block
  OBVIOUS
<1>2. b \in Block /\ KindOf(b) # "ACTION" /\ Walking(tasks'[u])
  BY <1>0, <1>1 DEF IsTask, Does, Walking, InTx, Starts, Resumes
<1>3. SUFFICES ASSUME Taken(b)' PROVE FALSE
  BY <1>1 DEF Taken
<1>4. CASE u # t
  <2>1. tasks[u].block = b /\ Walking(tasks[u]) /\ tasks[u].pc \in {"insert", "wait"}
    BY <1>0, <1>1, <1>2, <1>4
  <2>2. ~Taken(b) /\ b \notin Opening
    BY <1>0, <2>1, WalkOutside DEF Walkers
  <2>3. (StartLogs(t) \/ TxLogs(t)) /\ b = tasks[t].block
    BY <1>3, <2>2, TakenAfter
  <2>4. ~StartLogs(t)
    BY <1>0, <2>2, <2>3, LogsGrow, StartFree DEF StartLogs
  <2>5. TxLogs(t) /\ tasks[t].pc # "first"
    BY <1>0, <1>2, <2>3, <2>4 DEF Walkers
  <2>6. Walking(tasks[t])
    BY <2>5 DEF TxLogs, Walking
  <2>7. PICK d \in Block : Heads(d, b)
    BY <1>0, <2>1 DEF Walkers, Led
  <2>8. t = u
    BY <1>0, <2>1, <2>3, <2>6, <2>7, Alone
  <2> QED
    BY <1>4, <2>8
<1>5. CASE u = t
  <2>1. TxTurn(t) /\ Walking(tasks[t]) /\ tasks[t].pc = "walk" /\ tasks[t].block = b
    BY <1>1, <1>2, <1>5, WalkedBefore
  <2>2. ~StartLogs(t) /\ ~TxLogs(t)
    BY <2>1 DEF StartLogs, TxLogs
  <2>3. Taken(b)
    BY <1>3, <2>2, TakenAfter
  <2>4. b \notin Opening
    BY <1>0, <2>1, WalkOutside
  <2>5. PICK d \in Block : Heads(d, b)
    BY <1>0, <2>1 DEF Walkers, Led
  <2>6. AheadOf(tasks[t], d, b)
    BY <2>1, <2>5 DEF AheadOf
  <2>7. Due(b)
    BY <1>2, <2>5, <2>6 DEF Due
  <2> QED
    BY <1>0, <1>2, <2>3, <2>4, <2>7 DEF NotAgain
<1> QED
  BY <1>4, <1>5

(* The logs do not lose numbers, and without a new number no block.        *)
LEMMA NumbersGrow ==
  ASSUME TypeInv, Chain, Linear, NEW t \in Task, Turn(t)
  PROVE /\ DOMAIN logs \subseteq DOMAIN logs'
        /\ DOMAIN logs' = DOMAIN logs => Logged(logs') = Logged(logs)
<1>1. CASE StartLogs(t)
  <2>1. PICK row : logs' = With(logs, row)
    BY <1>1 DEF StartLogs
  <2>2. /\ DOMAIN With(logs, row) = DOMAIN logs \cup DOMAIN row
        /\ \A k \in DOMAIN logs : With(logs, row)[k] = logs[k]
    BY ONLY WithFacts, Zenon
  <2>3. DOMAIN logs \subseteq DOMAIN logs' /\ \A k \in DOMAIN logs : logs'[k] = logs[k]
    BY <2>1, <2>2
  <2>4. ASSUME DOMAIN logs' = DOMAIN logs PROVE Logged(logs') = Logged(logs)
    BY <2>3, <2>4, LoggedSame
  <2> QED
    BY <2>3, <2>4
<1>2. CASE Commits(t)
  <2>1. PICK own : own = tasks[t].own
    OBVIOUS
  <2>2. logs' = With(own, logs) /\ DOMAIN own \cap DOMAIN logs = {}
    BY <1>2, <2>1 DEF Commits, Chain
  <2>3. DOMAIN With(own, logs) = DOMAIN own \cup DOMAIN logs
    BY ONLY WithFacts, Zenon
  <2>4. ASSUME DOMAIN logs' = DOMAIN logs PROVE Logged(logs') = Logged(logs)
    <3>1. DOMAIN own = {}
      BY <2>2, <2>3, <2>4
    <3>2. Logged(own) = {}
      BY <3>1, LoggedNone
    <3>3. Logged(logs') = Logged(logs) \cup Logged(tasks[t].own)
      BY <1>2, LogsJoin
    <3> QED
      BY <2>1, <3>2, <3>3
  <2> QED
    BY <2>2, <2>3, <2>4
<1>3. CASE Notes(t)
  BY <1>3, LogsStay DEF Notes, StartLogs, TxLogs, Commits
<1>4. ASSUME logs' = logs PROVE DOMAIN logs \subseteq DOMAIN logs' /\ Logged(logs') = Logged(logs)
  BY <1>4
<1>5. CASE StartTurn(t) \/ Wakes(t) \/ Reads(t) \/ TxTurn(t) \/ TxLogs(t)
  BY <1>4, <1>5 DEF StartTurn, Wakes, Reads, TxTurn, TxLogs
<1>6. CASE Leaves(t) \/ Opens(t) \/ Finds(t) \/ Resolves(t) \/ ResumesWalk(t)
  BY <1>4, <1>6 DEF Leaves, Opens, Finds, Resolves, ResumesWalk
<1>7. ~Restarts(t)
  BY DEF Restarts, Linear, Growing
<1> QED
  BY <1>1, <1>2, <1>3, <1>5, <1>6, <1>7 DEF Turn

(* Only a read makes a task of one that inserts its first log.             *)
LEMMA ReadBefore ==
  ASSUME TypeInv, Chain, Linear, NEW t \in Task, Turn(t), tasks'[t].pc = "first"
  PROVE Reads(t)
<1>0. IsTask(tasks'[t])
  BY TypeTurn DEF TypeInv
<1>1. ~StartTurn(t) /\ ~StartLogs(t) /\ ~Wakes(t)
  BY <1>0, ShapeStart DEF IsTask, Does, Starts, InTx, Resumes
<1>2. ~TxTurn(t) /\ ~TxLogs(t) /\ ~Commits(t) /\ ~Restarts(t)
  BY ShapeTx, OwnGrows, LogsJoin DEF Restarts, Linear, Growing
<1>3. ~Leaves(t) /\ ~Opens(t) /\ ~Finds(t)
  BY ShapeOff
<1>4. ~Resolves(t) /\ ~Notes(t) /\ ~ResumesWalk(t)
  BY ShapeWait
<1> QED
  BY <1>1, <1>2, <1>3, <1>4 DEF Turn

(* A task that has read the logs finds its number taken when they grew.    *)
LEMMA FirstTurn ==
  ASSUME TypeInv, Chain, Linear, Once, NEW t \in Task, Turn(t), NEW u \in Task, tasks'[u].pc = "first"
  PROVE /\ KindOf(tasks'[u].block) = "ACTION"
        /\ tasks'[u].order \notin DOMAIN logs' => tasks'[u].block \notin Logged(logs')
<1>0. /\ \A w \in Task : w # t => tasks'[w] = tasks[w]
      /\ Chain' /\ TypeInv' /\ Growing
  BY Frame, TypeTurn, ChainTurn DEF Linear
<1>1. CASE u # t
  <2>1. tasks'[u] = tasks[u] /\ tasks[u].pc = "first" /\ IsTask(tasks[u])
    BY <1>0, <1>1, TaskFacts
  <2>2. /\ KindOf(tasks[u].block) = "ACTION"
        /\ tasks[u].order \notin DOMAIN logs => tasks[u].block \notin Logged(logs)
    BY <2>1 DEF Once, Walkers
  <2>3. ASSUME tasks[u].order \notin DOMAIN logs'
        PROVE DOMAIN logs' = DOMAIN logs
    <3>1. tasks[u].op \in InTx /\ InWalk(tasks[u]) /\ DOMAIN tasks[u].own = {} /\ tasks[u].order \in Nat /\ tasks[u].order >= 1
      BY <2>1 DEF IsTask, Does, InWalk, InTx, Starts, Resumes
    <3>2. PICK base \in 0..Last : base <= Top(tasks[u]) /\ DOMAIN tasks[u].own = (base + 1)..Top(tasks[u])
      BY <3>1 DEF Chain, Chained
    <3>3. Top(tasks[u]) = tasks[u].order - 1
      BY <2>1 DEF Top
    <3>4. Last \in Nat /\ DOMAIN logs = 1..Last
      BY LastIsNat DEF Chain
    <3>5. tasks[u].order - 1 = base
      <4>1. base + 1 \notin (base + 1)..(tasks[u].order - 1)
        BY <3>1, <3>2, <3>3
      <4> QED
        BY <3>1, <3>2, <3>3, <3>4, <4>1
    <3>6. PICK n \in Nat : DOMAIN logs' = 1..n
      <4>1. Last' \in Nat
        BY <1>0, LogsFinite DEF TypeInv, Last
      <4> QED
        BY <1>0, <4>1 DEF Chain
    <3>7. 1..Last \subseteq 1..n /\ tasks[u].order \notin 1..n
      BY <2>3, <3>4, <3>6, NumbersGrow
    <3>8. n = Last
      <4>1. n < tasks[u].order
        BY <3>1, <3>6, <3>7
      <4>2. Last <= n
        <5>1. CASE Last = 0
          BY <3>6, <5>1
        <5>2. CASE Last # 0
          <6>1. Last \in 1..Last
            BY <3>4, <5>2
          <6> QED
            BY <3>6, <3>7, <6>1
        <5> QED
          BY <5>1, <5>2
      <4> QED
        BY <3>1, <3>2, <3>4, <3>5, <3>6, <4>1, <4>2
    <3> QED
      BY <3>4, <3>6, <3>8
  <2> QED
    BY <2>1, <2>2, <2>3, NumbersGrow
<1>2. CASE u = t
  <2>1. Reads(t)
    BY <1>2, ReadBefore
  <2>2. /\ tasks'[t].block = CurrentBlock /\ KindOf(CurrentBlock) = "ACTION" /\ ~Complete /\ logs' = logs
    BY <1>2, <2>1, ShapeReads DEF Reads
  <2>3. LogsOf(CurrentBlock) = {}
    BY <2>2, Current DEF Stops
  <2>4. CurrentBlock \notin Logged(logs)
    BY <2>3 DEF LogsOf, Logged
  <2> QED
    BY <1>2, <2>2, <2>4
<1> QED
  BY <1>1, <1>2

LEMMA OutsideTurn ==
  ASSUME TypeInv, Chain, Linear, Once, NEW t \in Task, Turn(t), NEW u \in Task
  PROVE Logged(tasks'[u].own) \cap Opening = {}
<1>0. \A w \in Task : w # t => tasks'[w] = tasks[w]
  BY Frame
<1>1. \A w \in Task : Logged(tasks[w].own) \cap Opening = {}
  BY DEF Once, Walkers
<1>2. Logged(tasks'[t].own) \cap Opening = {}
  <2>1. CASE TxLogs(t)
    <3>1. /\ Logged(tasks'[t].own) = Logged(tasks[t].own) \cup {tasks[t].block} /\ tasks[t].block \notin Opening
      BY <2>1, OwnGrows, TxFree DEF Once
    <3> QED
      BY <1>1, <3>1
  <2>2. CASE StartLogs(t) \/ Commits(t)
    BY <2>2, LogsGrow, LogsJoin, LoggedNone
  <2> QED
    BY <1>1, <2>1, <2>2, LogsStay
<1> QED
  BY <1>0, <1>1, <1>2

LEMMA WalkersTurn ==
  ASSUME TypeInv, Chain, Linear, Once, NEW t \in Task, Turn(t)
  PROVE Walkers'
<1>1. \A u \in Task : Led(tasks'[u], waits')
  BY LedTurn
<1>2. \A u, v \in Task : Resuming(tasks'[u]) /\ Resuming(tasks'[v]) /\ tasks'[u].wait = tasks'[v].wait => u = v
  BY AloneTurn
<1>3. \A u \in Task : tasks'[u].pc \in {"insert", "wait"} => ~Taken(tasks[u].block)'
  BY UntakenTurn DEF Taken
<1>4. \A u \in Task : Logged(tasks'[u].own) \cap Opening = {}
  BY OutsideTurn
<1>5. \A u \in Task : tasks'[u].pc = "first" =>
        /\ KindOf(tasks'[u].block) = "ACTION"
        /\ tasks'[u].order \notin DOMAIN logs' => tasks'[u].block \notin Logged(logs')
  BY FirstTurn
<1> QED
  BY <1>1, <1>2, <1>3, <1>4, <1>5 DEF Walkers

(* Who performs a block.                                                   *)
LEMMA PerformedBy ==
  ASSUME TypeInv, Chain, Linear, Once, NEW t \in Task, Turn(t)
  PROVE \/ UNCHANGED performed
        \/ /\ tasks[t].op \in Starts /\ tasks[t].pc # "log" /\ Performs(tasks[t].block)
           /\ tasks[t].block \in Opening
           /\ tasks'[t].op \in Starts => tasks'[t].block = tasks[t].block /\ tasks'[t].pc = "log"
        \/ /\ tasks[t].op \in InTx /\ Performs(tasks[t].block) /\ tasks[t].block \in Block \ Opening /\ Due(tasks[t].block)
           /\ \/ TxTurn(t) /\ tasks'[t].pc = "insert" /\ tasks'[t].block = tasks[t].block
              \/ TxLogs(t) /\ KindOf(tasks[t].block) = "ACTION"
<1>0. IsTask(tasks[t]) /\ Rows /\ Walkers /\ Starters
  BY TaskFacts DEF Once
<1>1. CASE StartTurn(t) \/ Wakes(t) \/ StartLogs(t)
  BY <1>0, <1>1, ShapeStart, StartFree
<1>2. CASE TxTurn(t)
  <2>1. ASSUME Performs(tasks[t].block), tasks'[t].pc = "insert", tasks[t].block \in Block, KindOf(tasks[t].block) # "ACTION"
        PROVE tasks[t].block \in Block \ Opening /\ Due(tasks[t].block)
    <3>1. Walking(tasks[t]) /\ tasks[t].pc = "walk"
      BY <1>2, ShapeTx DEF Walking
    <3>2. PICK d \in Block : Heads(d, tasks[t].block)
      BY <1>0, <3>1 DEF Walkers, Led
    <3>3. AheadOf(tasks[t], d, tasks[t].block)
      BY <3>1, <3>2 DEF AheadOf
    <3> QED
      BY <1>0, <2>1, <3>1, <3>2, <3>3, WalkOutside DEF Due
  <2> QED
    BY <1>2, <2>1, ShapeTx
<1>3. CASE TxLogs(t)
  <2>1. CASE tasks[t].pc = "first"
    <3>1. KindOf(tasks[t].block) = "ACTION" /\ tasks[t].op \in InTx /\ Performs(tasks[t].block)
      BY <1>0, <1>3, <2>1 DEF TxLogs, Walkers
    <3> QED
      BY <1>0, <1>3, <3>1, TxFree DEF Due
  <2> QED
    BY <1>3, <2>1 DEF TxLogs
<1>4. CASE Reads(t) \/ Leaves(t) \/ Commits(t) \/ Opens(t) \/ Finds(t) \/ Resolves(t) \/ Notes(t) \/ ResumesWalk(t)
  BY <1>4 DEF Reads, Leaves, Commits, Opens, Finds, Resolves, Notes, ResumesWalk
<1>5. ~Restarts(t)
  BY DEF Restarts, Linear, Growing
<1> QED
  BY <1>1, <1>2, <1>3, <1>4, <1>5 DEF Turn

LEMMA StartedBefore ==
  ASSUME TypeInv, Chain, Linear, NEW t \in Task, Turn(t), tasks'[t].op \in Starts
  PROVE (StartTurn(t) \/ Wakes(t) \/ StartLogs(t)) /\ tasks[t].op \in Starts
<1>1. ~Reads(t) /\ ~Restarts(t)
  BY ShapeReads DEF Starts, Restarts, Linear, Growing
<1>2. ~TxTurn(t) /\ ~TxLogs(t) /\ ~Commits(t)
  BY ShapeTx, OwnGrows, LogsJoin DEF TxLogs, Commits, Starts, InTx
<1>3. ~Leaves(t) /\ ~Opens(t) /\ ~Finds(t)
  BY ShapeOff
<1>4. ~Resolves(t) /\ ~Notes(t) /\ ~ResumesWalk(t)
  BY ShapeWait DEF Resumes, Starts
<1> QED
  BY <1>1, <1>2, <1>3, <1>4, ShapeStart DEF Turn

LEMMA StartersTurn ==
  ASSUME TypeInv, Chain, Linear, Once, NEW t \in Task, Turn(t)
  PROVE Starters'
<1>0. /\ \A w \in Task : w # t => tasks'[w] = tasks[w]
      /\ Starters /\ TypeInv'
  BY Frame, TypeTurn DEF Once
<1>1. \A u \in Task : tasks'[u].op \in Starts => tasks[u].op \in Starts
  BY <1>0, StartedBefore
<1>2. \A u, v \in Task : tasks'[u].op \in Starts /\ tasks'[v].op \in Starts => u = v
  BY <1>0, <1>1 DEF Starters
<1>3. ASSUME NEW u \in Task, tasks'[u].op \in Starts
      PROVE /\ \A e \in 1..(tasks'[u].block - 1) : KindOf(e) # "ACTION"
            /\ \A c \in Opening : /\ Taken(c)' => c < tasks'[u].block
                                  /\ Beyond(tasks'[u], c) => performed'[c] = 0
  <2>0. /\ tasks[u].op \in Starts /\ tasks[u].block \in Nat
        /\ \A e \in 1..(tasks[u].block - 1) : KindOf(e) # "ACTION"
        /\ \A c \in Opening : /\ Taken(c) => c < tasks[u].block
                              /\ Beyond(tasks[u], c) => performed[c] = 0
        /\ \A c \in Opening : c \in Nat
        /\ performed \in [Block -> Nat] /\ \A c \in Opening : c \in Block
    BY <1>0, <1>1, <1>3, TaskFacts, Fields, OpeningFacts, BlockFacts DEF Starters, TypeInv
  <2>1. CASE u = t
    <3>1. StartTurn(t) \/ Wakes(t) \/ StartLogs(t)
      BY <1>3, <2>1, StartedBefore
    <3>2. \/ tasks'[t].block = tasks[t].block /\ tasks[t].pc # "log"
          \/ /\ tasks'[t].block = tasks[t].block + 1 /\ tasks'[t].pc # "log"
             /\ tasks[t].block \in Block /\ KindOf(tasks[t].block) # "ACTION"
      BY <1>3, <2>1, <3>1, ShapeStart
    <3>3. \A e \in 1..(tasks'[t].block - 1) : KindOf(e) # "ACTION"
      BY <2>0, <2>1, <3>2
    <3>4. ASSUME NEW c \in Opening, Taken(c)' PROVE c < tasks'[t].block
      <4>1. Taken(c) \/ (StartLogs(t) /\ c = tasks[t].block)
        BY <2>0, <2>1, <3>4, TakenAfter DEF TxLogs, Starts, InTx
      <4>2. StartLogs(t) => tasks[t].pc = "log"
        BY DEF StartLogs
      <4> QED
        BY <2>0, <2>1, <3>2, <4>1, <4>2
    <3>5. ASSUME NEW c \in Opening, Beyond(tasks'[t], c) PROVE performed'[c] = 0
      <4>1. Beyond(tasks[t], c)
        BY <2>0, <2>1, <3>2, <3>5 DEF Beyond
      <4>2. performed[c] = 0
        BY <2>0, <2>1, <4>1
      <4>3. CASE UNCHANGED performed
        BY <4>2, <4>3
      <4>4. CASE Performs(tasks[t].block) /\ tasks'[t].block = tasks[t].block /\ tasks'[t].pc = "log"
        <5>1. c # tasks[t].block
          BY <2>0, <2>1, <3>5, <4>4 DEF Beyond
        <5> QED
          BY <2>0, <4>2, <4>4, <5>1 DEF Performs
      <4> QED
        BY <1>3, <2>1, <3>1, <4>3, <4>4, ShapeStart
    <3> QED
      BY <2>1, <3>3, <3>4, <3>5
  <2>2. CASE u # t
    <3>1. tasks'[u] = tasks[u] /\ tasks[t].op \notin Starts
      BY <1>0, <2>0, <2>2 DEF Starters
    <3>2. ~StartLogs(t)
      BY <3>1 DEF StartLogs
    <3>3. \A c \in Opening : Taken(c)' => Taken(c)
      BY <3>2, TakenAfter, TxFree DEF Once
    <3>4. \A c \in Opening : performed'[c] = performed[c]
      <4>1. CASE UNCHANGED performed
        BY <4>1
      <4>2. CASE Performs(tasks[t].block) /\ tasks[t].block \notin Opening
        BY <2>0, <4>2 DEF Performs
      <4> QED
        BY <3>1, <4>1, <4>2, PerformedBy
    <3> QED
      BY <2>0, <3>1, <3>3, <3>4
  <2> QED
    BY <2>1, <2>2
<1> QED
  BY <1>2, <1>3 DEF Starters

LEMMA PassedAfter == (TypeInv /\ Chain /\ Rows /\ Walkers)' => Passed'
  BY Passing, PTL

(* A turn leaves the late blocks to their tasks.                           *)
LEMMA LateStays ==
  ASSUME TypeInv, Chain, Linear, NEW t \in Task, Turn(t), NEW c
  PROVE Late(c)' = Late(c)
<1>1. \A u \in Task : u # t => tasks'[u] = tasks[u]
  BY Frame
<1>2. Does(tasks[t].op, tasks[t].pc) /\ ~Restarts(t) /\ Does(tasks'[t].op, tasks'[t].pc)
  <2>1. TypeInv'
    BY TypeTurn
  <2> QED
    BY <2>1, TaskFacts DEF TypeInv, IsTask, Restarts, Linear, Growing
<1>3. tasks[t].pc # "late" /\ tasks'[t].pc # "late"
  <2>1. CASE StartTurn(t) \/ Wakes(t) \/ StartLogs(t)
    BY <1>2, <2>1, ShapeStart DEF Does, Starts, InTx
  <2>2. CASE Reads(t)
    BY <2>2, ShapeReads, IdleIsTask DEF Reads
  <2>3. CASE TxTurn(t)
    BY <2>3, ShapeTx
  <2>4. CASE TxLogs(t)
    BY <2>4, OwnGrows DEF TxLogs
  <2>5. CASE Commits(t)
    BY <2>5, LogsJoin DEF Commits
  <2>6. CASE Leaves(t) \/ Opens(t) \/ Finds(t)
    BY <2>6, ShapeOff, IdleIsTask DEF Leaves, Opens, Finds
  <2>7. CASE Resolves(t) \/ Notes(t) \/ ResumesWalk(t)
    BY <2>7, ShapeWait DEF Resolves, Notes, ResumesWalk
  <2> QED
    BY <1>2, <2>1, <2>2, <2>3, <2>4, <2>5, <2>6, <2>7 DEF Turn
<1> QED
  BY <1>1, <1>3 DEF Late

LEMMA LateNumbers ==
  ASSUME Counts, NEW c \in Block \ Opening
  PROVE Cardinality(Late(c)) \in Nat
  BY FS_CardinalityType DEF Counts

LEMMA CountsTurn ==
  ASSUME TypeInv, Chain, Linear, Once, NEW t \in Task, Turn(t)
  PROVE Counts'
<1>0. /\ Rows /\ Walkers /\ Starters /\ Counts
      /\ crashes' = crashes /\ crashes \in Nat /\ rollbacks' = rollbacks /\ rollbacks \in Nat
      /\ performed \in [Block -> Nat] /\ \A c \in Opening : c \in Block
  BY CountTyped, OpeningFacts DEF Once, TypeInv
<1>1. PICK b : b = tasks[t].block
  OBVIOUS
<1>2. ASSUME NEW c \in Opening PROVE performed'[c] <= 1 /\ Late(c)' = {}
  <2>1. performed[c] <= 1 /\ c \in Block /\ Late(c)' = {}
    BY <1>0, <1>2, LateStays DEF Counts
  <2>2. CASE UNCHANGED performed \/ (Performs(b) /\ c # b)
    BY <2>1, <2>2 DEF Performs
  <2>3. CASE Performs(b) /\ c = b /\ ~UNCHANGED performed
    <3>1. tasks[t].op \in Starts /\ tasks[t].pc # "log"
      BY <1>1, <1>2, <2>3, PerformedBy
    <3>2. Beyond(tasks[t], c)
      BY <1>1, <2>3, <3>1 DEF Beyond
    <3>3. performed[c] = 0
      BY <1>0, <1>2, <3>1, <3>2 DEF Starters
    <3> QED
      BY <2>1, <2>3, <3>3 DEF Performs
  <2> QED
    BY <1>1, <2>2, <2>3, PerformedBy
<1>3. ASSUME NEW c \in Block \ Opening
      PROVE IsFiniteSet(Late(c))' /\ Effects(c)' <= Undone' + 1 /\ (Due(c)' => Effects(c)' <= Undone')
  <2>0. PICK n \in Nat, m \in Nat : n = Cardinality(Late(c)) /\ m = performed[c]
    BY <1>0, <1>3, LateNumbers
  <2>1. /\ m + n <= crashes + rollbacks + 1 /\ (Due(c) => m + n <= crashes + rollbacks) /\ (Due(c)' => Due(c))
        /\ Late(c)' = Late(c) /\ IsFiniteSet(Late(c))
    BY <1>0, <1>3, <2>0, DueBefore, LateStays DEF Counts, Effects, Undone
  <2>2. Effects(c)' = performed'[c] + n /\ Undone' = crashes + rollbacks
    BY <1>0, <2>0, <2>1 DEF Effects, Undone
  <2>3. CASE UNCHANGED performed \/ (Performs(b) /\ c # b)
    <3>1. performed'[c] = m
      BY <1>3, <2>0, <2>3 DEF Performs
    <3> QED
      BY <1>0, <2>1, <2>2, <3>1
  <2>4. CASE Performs(b) /\ c = b /\ ~UNCHANGED performed
    <3>1. /\ Due(c)
          /\ \/ TxTurn(t) /\ tasks'[t].pc = "insert" /\ tasks'[t].block = c
             \/ TxLogs(t) /\ KindOf(c) = "ACTION"
      BY <1>1, <1>3, <2>4, PerformedBy
    <3>2. ~Due(c)'
      <4>1. CASE TxTurn(t) /\ tasks'[t].pc = "insert" /\ tasks'[t].block = c
        <5>1. TypeInv' /\ Chain' /\ Rows' /\ Walkers'
          BY TypeTurn, ChainTurn, RowsTurn, WalkersTurn DEF Linear
        <5>2. Passed'
          BY <5>1, PassedAfter
        <5> QED
          BY <1>3, <4>1, <5>2 DEF Passed
      <4>2. CASE TxLogs(t) /\ KindOf(c) = "ACTION"
        <5>1. Taken(c)'
          BY <1>1, <2>4, <4>2, TakenAfter
        <5> QED
          BY <4>2, <5>1 DEF Due
      <4> QED
        BY <3>1, <4>1, <4>2
    <3>3. performed'[c] = m + 1
      BY <1>3, <2>0, <2>4 DEF Performs
    <3> QED
      BY <1>0, <2>1, <2>2, <3>1, <3>2, <3>3
  <2> QED
    BY <1>1, <2>3, <2>4, PerformedBy
<1> QED
  BY <1>2, <1>3 DEF Counts

LEMMA NotAgainTurn ==
  ASSUME TypeInv, Chain, Linear, Once, NEW t \in Task, Turn(t)
  PROVE NotAgain'
<1>0. Rows /\ Walkers /\ Starters /\ NotAgain
  BY DEF Once
<1>1. SUFFICES ASSUME NEW c \in Block \ Opening, Taken(c)', Due(c)' PROVE FALSE
  BY DEF NotAgain
<1>2. Due(c) /\ ~Taken(c)
  BY <1>0, <1>1, DueBefore DEF NotAgain
<1>3. (StartLogs(t) \/ TxLogs(t)) /\ c = tasks[t].block
  BY <1>1, <1>2, TakenAfter
<1>4. ~StartLogs(t)
  <2>1. ASSUME StartLogs(t) PROVE FALSE
    <3>1. KindOf(c) # "ACTION" /\ tasks[t].op \in Starts
      BY <1>3, <2>1, LogsGrow DEF StartLogs
    <3> QED
      BY <1>0, <1>1, <1>3, <3>1, StartFree
  <2> QED
    BY <2>1
<1>5. KindOf(c) # "ACTION"
  BY <1>1 DEF Due
<1>6. tasks[t].pc \in {"insert", "wait"}
  BY <1>0, <1>3, <1>4, <1>5 DEF TxLogs, Walkers
<1>7. Passed
  BY <1>0, Passing
<1> QED
  BY <1>1, <1>2, <1>3, <1>6, <1>7 DEF Passed

LEMMA OnceTurn ==
  ASSUME TypeInv, Chain, Linear, Once, NEW t \in Task, Turn(t)
  PROVE Once'
  BY DistinctTurn, HeadedTurn, RowsTurn, WalkersTurn, StartersTurn, CountsTurn, NotAgainTurn DEF Once

(* Time passing leaves all that the invariant speaks of.                   *)
LEMMA OnceExpire ==
  ASSUME TypeInv, Once, Expire
  PROVE Once'
<1>1. /\ UNCHANGED <<logs, tasks, performed, crashes, rollbacks>> /\ DOMAIN waits' = DOMAIN waits
      /\ \A i \in DOMAIN waits : waits'[i].status = waits[i].status /\ waits'[i].block = waits[i].block
  BY ExpireKeeps DEF Expire, Kept
<1>2. Distinct' /\ Headed' /\ Starters'
  BY <1>1 DEF Once, Distinct, Headed, Starters, Taken
<1>3. Rows'
  BY <1>1 DEF Once, Rows
<1>4. ASSUME NEW t \in Task PROVE Led(tasks'[t], waits')
  <2>1. PICK x, rows, old : x = tasks[t] /\ rows = waits' /\ old = waits
    OBVIOUS
  <2>2. Led(x, old) /\ x = tasks'[t]
    BY <1>1, <2>1 DEF Once, Walkers
  <2>3. Walking(x) /\ x.op \in Resumes => Resuming(x)
    BY DEF Walking, Resuming
  <2>4. Resuming(x) => x.wait \in DOMAIN rows /\ rows[x.wait].status # "WAITING" /\ rows[x.wait].block = old[x.wait].block
    BY <1>1, <2>1, <2>2 DEF Led
  <2>5. Led(x, rows)
    BY <2>2, <2>3, <2>4 DEF Led
  <2> QED
    BY <2>1, <2>2, <2>5
<1>5. Walkers'
  BY <1>1, <1>4 DEF Once, Walkers, Taken
<1>6. \A c : (Taken(c)' <=> Taken(c)) /\ (Dormant(c)' <=> Dormant(c))
  BY <1>1 DEF Taken, Dormant
<1>7. \A c \in Block : Due(c)' <=> Due(c)
  BY <1>1, <1>6 DEF Due
<1>8. Counts' /\ NotAgain'
  BY <1>1, <1>6, <1>7 DEF Once, Counts, NotAgain, Effects, Undone, Late
<1> QED
  BY <1>2, <1>3, <1>5, <1>8 DEF Once

LEMMA OnceSame ==
  ASSUME Once, UNCHANGED vars
  PROVE Once'
<1>1. UNCHANGED <<logs, waits, tasks, performed, crashes, rollbacks>>
  BY DEF vars
<1>2. \A c : (Taken(c)' <=> Taken(c)) /\ (Dormant(c)' <=> Dormant(c))
  BY <1>1 DEF Taken, Dormant
<1>3. \A c \in Block : Due(c)' <=> Due(c)
  BY <1>1, <1>2 DEF Due
<1> QED
  BY <1>1, <1>2, <1>3 DEF Once, Distinct, Headed, Rows, Walkers, Starters, Counts, NotAgain, Taken, Effects, Undone, Late

(* A restart drops what was in flight.  What was logged stays logged: of   *)
(* the rest each block may be due once more, and once more performed.      *)
LEMMA OnceCrash ==
  ASSUME TypeInv, Once, Crash
  PROVE Once'
<1>1. /\ UNCHANGED <<logs, waits, performed>> /\ crashes' = crashes + 1 /\ crashes \in Nat
      /\ performed \in [Block -> Nat] /\ rollbacks' = rollbacks /\ rollbacks \in Nat
      /\ \A t \in Task : tasks'[t] = Idle
  BY DEF Crash, TypeInv
<1>2. Idle.op = "none" /\ Idle.pc = "idle" /\ DOMAIN Idle.own = {}
  BY IdleIsTask
<1>3. Logged(Idle.own) = {} /\ Injective(Idle.own) /\ HeadsIn(Logged(Idle.own))
  BY <1>2, LoggedNone
<1>4. ~Walking(Idle) /\ ~Resuming(Idle) /\ ~Noted(Idle) /\ Idle.op \notin Starts
  BY <1>2 DEF Walking, Resuming, Noted, InTx, Resumes, Starts
<1>5. \A c : Taken(c)' => c \in Logged(logs) /\ Taken(c)
  BY <1>1, <1>3 DEF Taken
<1>6. Distinct' /\ Headed' /\ Rows'
  BY <1>1, <1>3 DEF Once, Distinct, Headed, Rows
<1>7. Walkers' /\ Starters'
  BY <1>1, <1>2, <1>3, <1>4 DEF Walkers, Starters, Led
<1>8. Counts'
  <2>1. \A c : Late(c)' = {}
    BY <1>1, <1>2 DEF Late
  <2>2. \A c \in Opening : performed'[c] <= 1
    BY <1>1 DEF Once, Counts
  <2>3. ASSUME NEW c \in Block \ Opening
        PROVE IsFiniteSet(Late(c))' /\ Effects(c)' <= Undone'
    <3>1. PICK n \in Nat, m \in Nat : n = Cardinality(Late(c)) /\ m = performed[c]
      BY <1>1, <2>3, LateNumbers DEF Once
    <3>2. m + n <= crashes + rollbacks + 1
      BY <2>3, <3>1 DEF Once, Counts, Effects, Undone
    <3>3. IsFiniteSet(Late(c)') /\ Cardinality(Late(c)') = 0
      BY <2>1, FS_EmptySet
    <3>4. Effects(c)' = m + 0 /\ Undone' = crashes + 1 + rollbacks
      BY <1>1, <3>1, <3>3 DEF Effects, Undone
    <3> QED
      BY <1>1, <3>2, <3>3, <3>4
  <2>4. Undone' \in Nat /\ \A c \in Block \ Opening : Effects(c)' \in Nat
    <3>1. \A c \in Block \ Opening : performed'[c] \in Nat /\ Cardinality(Late(c)') = 0
      BY <1>1, <2>1, FS_EmptySet
    <3> QED
      BY <1>1, <3>1 DEF Effects, Undone
  <2> QED
    BY <2>1, <2>2, <2>3, <2>4 DEF Counts
<1>9. ASSUME NEW c \in Block \ Opening, Taken(c)', Due(c)' PROVE FALSE
  <2>1. c \in Logged(logs) /\ Taken(c) /\ ~Due(c)
    BY <1>5, <1>9 DEF Once, NotAgain
  <2>2. KindOf(c) # "ACTION"
    BY <1>9 DEF Due
  <2>3. PICK d \in Block : Heads(d, c) /\ Dormant(d)'
    BY <1>1, <1>4, <1>9, <2>2 DEF Due, AheadOf
  <2>4. CASE KindOf(d) = "ACTION"
    <3>1. d \in Logged(logs)
      BY <2>1, <2>2, <2>3, <2>4 DEF Once, Headed, HeadsIn
    <3> QED
      BY <1>1, <2>3, <2>4, <3>1 DEF Dormant, Taken
  <2>5. CASE KindOf(d) # "ACTION"
    <3>1. \A i \in DOMAIN waits : waits[i].block = d => waits[i].status = "WAITING"
      BY <1>1, <1>4, <2>3, <2>5 DEF Dormant
    <3>2. Dormant(d)
      BY <2>5, <3>1 DEF Dormant
    <3> QED
      BY <2>1, <2>2, <2>3, <3>2 DEF Due
  <2> QED
    BY <2>4, <2>5
<1>10. NotAgain'
  BY <1>9 DEF NotAgain
<1> QED
  BY <1>6, <1>7, <1>8, <1>10 DEF Once

(* What a rolled back transaction had not logged is due again, the block   *)
(* it leaves late included; the rest is as it was.                         *)
LEMMA RolledOff ==
  ASSUME TypeInv, Once, NEW t \in Task, Rolls(t)
  PROVE /\ \A u \in Task : u # t => tasks'[u] = tasks[u]
        /\ Logged(tasks'[t].own) = {} /\ Injective(tasks'[t].own) /\ HeadsIn(Logged(tasks'[t].own))
        /\ ~Walking(tasks'[t]) /\ ~Resuming(tasks'[t]) /\ ~Noted(tasks'[t])
        /\ \A c : Taken(c)' => Taken(c)
        /\ \A c \in Block \ Opening : Taken(c)' /\ Due(c)' => FALSE
<1>1. /\ UNCHANGED <<logs, waits>> /\ \A u \in Task : u # t => tasks'[u] = tasks[u]
      /\ DOMAIN tasks'[t].own = {} /\ tasks'[t].pc \in {"idle", "next", "late"}
  BY RollShape
<1>2. Logged(tasks'[t].own) = {} /\ Injective(tasks'[t].own) /\ HeadsIn(Logged(tasks'[t].own))
  BY <1>1, LoggedNone
<1>3. ~Walking(tasks'[t]) /\ ~Resuming(tasks'[t]) /\ ~Noted(tasks'[t])
  BY <1>1 DEF Walking, Resuming, Noted
<1>4. \A c : Taken(c)' => Taken(c)
  BY <1>1, <1>2 DEF Taken
<1>5. ASSUME NEW c \in Block \ Opening, Taken(c)', Due(c)' PROVE FALSE
  <2>1. ~Due(c) /\ KindOf(c) # "ACTION"
    BY <1>4, <1>5 DEF Once, NotAgain, Due
  <2>2. PICK d \in Block : Heads(d, c) /\ (Dormant(d)' \/ \E u \in Task : AheadOf(tasks'[u], d, c))
    BY <1>5, <2>1 DEF Due
  <2>3. ASSUME NEW u \in Task, AheadOf(tasks'[u], d, c) PROVE FALSE
    <3>1. u # t
      BY <1>3, <2>3 DEF AheadOf
    <3> QED
      BY <1>1, <2>1, <2>2, <2>3, <3>1 DEF Due
  <2>4. CASE Dormant(d)' /\ KindOf(d) = "ACTION"
    <3>1. d \in Logged(logs) \/ \E u \in Task : d \in Logged(tasks'[u].own)
      <4>1. CASE c \in Logged(logs)
        BY <2>1, <2>2, <2>4, <4>1 DEF Once, Headed, HeadsIn
      <4>2. ASSUME NEW u \in Task, c \in Logged(tasks'[u].own) PROVE d \in Logged(tasks'[u].own)
        <5>1. u # t /\ c \in Logged(tasks[u].own) /\ tasks'[u] = tasks[u]
          BY <1>1, <1>2, <4>2
        <5> QED
          BY <2>1, <2>2, <2>4, <5>1 DEF Once, Headed, HeadsIn
      <4> QED
        BY <1>1, <1>5, <4>1, <4>2 DEF Taken
    <3> QED
      BY <1>1, <2>4, <3>1 DEF Dormant, Taken
  <2>5. CASE Dormant(d)' /\ KindOf(d) # "ACTION"
    <3>1. ASSUME NEW i \in DOMAIN waits, waits[i].block = d, waits[i].status # "WAITING"
          PROVE \E u \in Task : Noted(tasks[u]) /\ tasks[u].wait = i
      <4>1. PICK u \in Task : Noted(tasks'[u]) /\ tasks'[u].wait = i
        BY <1>1, <2>5, <3>1 DEF Dormant
      <4>2. u # t
        BY <1>3, <4>1
      <4> QED
        BY <1>1, <4>1, <4>2
    <3>2. Dormant(d)
      BY <2>5, <3>1 DEF Dormant
    <3> QED
      BY <2>1, <2>2, <3>2 DEF Due
  <2> QED
    BY <2>2, <2>3, <2>4, <2>5
<1> QED
  BY <1>1, <1>2, <1>3, <1>4, <1>5

LEMMA CountsRolls ==
  ASSUME TypeInv, Once, NEW t \in Task, Rolls(t)
  PROVE /\ Counts'
        /\ \A c \in Opening : performed'[c] = performed[c]
<1>x. PICK b : b = tasks[t].block
  OBVIOUS
<1>0. /\ Rows /\ Walkers /\ Counts /\ crashes' = crashes /\ crashes \in Nat /\ rollbacks \in Nat
      /\ performed \in [Block -> Nat] /\ \A c \in Opening : c \in Block
      /\ \A u \in Task : u # t => tasks'[u] = tasks[u]
  BY RollShape, OpeningFacts DEF Once, TypeInv
<1>1. ASSUME NEW c \in Block \ Opening
      PROVE \E n \in Nat, m \in Nat : /\ n = Cardinality(Late(c)) /\ m = performed[c] /\ IsFiniteSet(Late(c))
                                      /\ m + n <= crashes + rollbacks + 1
                                      /\ Due(c) => m + n <= crashes + rollbacks
  <2>1. PICK n \in Nat, m \in Nat : n = Cardinality(Late(c)) /\ m = performed[c]
    BY <1>0, <1>1, LateNumbers
  <2> QED
    BY <1>0, <1>1, <2>1 DEF Counts, Effects, Undone
<1>2. CASE tasks'[t].pc # "late" /\ tasks[t].pc # "late" /\ rollbacks' = rollbacks + 1 /\ UNCHANGED performed
  <2>1. \A c : Late(c)' = Late(c)
    BY <1>0, <1>2 DEF Late
  <2>2. ASSUME NEW c \in Block \ Opening PROVE IsFiniteSet(Late(c))' /\ Effects(c)' <= Undone' /\ Effects(c)' <= Undone' + 1
    <3>1. PICK n \in Nat, m \in Nat : /\ n = Cardinality(Late(c)) /\ m = performed[c] /\ IsFiniteSet(Late(c))
                                      /\ m + n <= crashes + rollbacks + 1
      BY <1>1, <2>2
    <3>2. Late(c)' = Late(c)
      BY <1>0, <1>2 DEF Late
    <3>3. Effects(c)' = m + n /\ Undone' = crashes + (rollbacks + 1)
      BY <1>0, <1>2, <3>1, <3>2 DEF Effects, Undone
    <3> QED
      BY <1>0, <3>1, <3>2, <3>3
  <2> QED
    BY <1>0, <1>2, <2>1, <2>2 DEF Counts
<1>3. CASE /\ tasks'[t].pc = "late" /\ tasks[t].pc = "walk" /\ tasks'[t].block = b /\ tasks[t].op \in InTx
           /\ b \in Block /\ KindOf(b) # "ACTION" /\ rollbacks' = rollbacks + 1 /\ UNCHANGED performed
  <2>1. b \notin Opening /\ Due(b)
    <3>1. Walking(tasks[t])
      BY <1>3 DEF Walking
    <3>2. PICK d \in Block : Heads(d, b)
      BY <1>x, <1>0, <3>1 DEF Walkers, Led
    <3>3. AheadOf(tasks[t], d, b)
      BY <1>x, <1>3, <3>1, <3>2 DEF AheadOf
    <3> QED
      BY <1>x, <1>0, <1>3, <3>1, <3>2, <3>3, WalkOutside DEF Due
  <2>2. t \notin Late(b) /\ Late(b)' = Late(b) \cup {t} /\ \A c : c # b => Late(c)' = Late(c)
    BY <1>0, <1>3 DEF Late
  <2>3. ASSUME NEW c \in Block \ Opening PROVE IsFiniteSet(Late(c))' /\ Effects(c)' <= Undone' /\ Effects(c)' <= Undone' + 1
    <3>1. PICK n \in Nat, m \in Nat : /\ n = Cardinality(Late(c)) /\ m = performed[c] /\ IsFiniteSet(Late(c))
                                      /\ m + n <= crashes + rollbacks + 1 /\ (Due(c) => m + n <= crashes + rollbacks)
      BY <1>1, <2>3
    <3>2. Undone' = crashes + (rollbacks + 1) /\ performed'[c] = m
      BY <1>0, <1>3, <3>1 DEF Undone
    <3>3. CASE c # b
      <4>1. Late(c)' = Late(c)
        BY <1>0, <1>3, <3>3 DEF Late
      <4>2. Effects(c)' = m + n
        BY <3>1, <3>2, <4>1 DEF Effects
      <4> QED
        BY <1>0, <3>1, <3>2, <4>1, <4>2
    <3>4. CASE c = b
      <4>1. IsFiniteSet(Late(c)') /\ Cardinality(Late(c)') = n + 1
        BY <2>2, <3>1, <3>4, FS_AddElement
      <4>2. Effects(c)' = m + (n + 1)
        BY <3>2, <4>1 DEF Effects
      <4> QED
        BY <1>0, <2>1, <3>1, <3>2, <3>4, <4>1, <4>2
    <3> QED
      BY <3>3, <3>4
  <2>4. \A c \in Opening : Late(c)' = {}
    BY <1>0, <2>1, <2>2 DEF Counts
  <2> QED
    BY <1>0, <1>3, <2>3, <2>4 DEF Counts
<1>4. CASE tasks'[t].pc # "late" /\ tasks[t].pc = "late" /\ UNCHANGED rollbacks /\ (Performs(b) \/ UNCHANGED performed)
  <2>1. t \in Late(b) /\ Late(b)' = Late(b) \ {t} /\ \A c : c # b => Late(c)' = Late(c)
    BY <1>x, <1>0, <1>4 DEF Late
  <2>2. b \in Block \ Opening
    <3>1. b \in Block
      BY <1>x, <1>4, TaskFacts DEF IsTask
    <3> QED
      BY <1>0, <2>1, <3>1 DEF Counts
  <2>3. \A c \in Block : c # b => performed'[c] = performed[c]
    BY <1>4 DEF Performs
  <2>4. \A c \in Block \ Opening : Due(c)' => Due(c)
    <3>1. UNCHANGED <<logs, waits>> /\ DOMAIN tasks[t].own = {}
      BY <1>4, RollShape, TaskFacts DEF IsTask
    <3>2. Logged(tasks[t].own) = {} /\ Logged(tasks'[t].own) = {}
      BY <3>1, LoggedNone, RolledOff
    <3>4. ~Walking(tasks'[t]) /\ ~Noted(tasks'[t])
      BY RolledOff
    <3>5. ASSUME NEW d, Dormant(d)' PROVE Dormant(d)
      <4>1. Taken(d)' <=> Taken(d)
        BY <1>0, <3>1, <3>2 DEF Taken
      <4>2. \A u \in Task : Noted(tasks'[u]) => u # t /\ tasks'[u] = tasks[u]
        BY <1>0, <3>4
      <4> QED
        BY <3>1, <3>5, <4>1, <4>2 DEF Dormant
    <3>6. ASSUME NEW u \in Task, NEW d, NEW c, AheadOf(tasks'[u], d, c) PROVE AheadOf(tasks[u], d, c)
      <4>1. u # t
        BY <3>4, <3>6 DEF AheadOf
      <4> QED
        BY <1>0, <3>6, <4>1
    <3>7. ASSUME NEW c, Due(c)' PROVE Due(c)
      <4>1. CASE KindOf(c) = "ACTION"
        BY <1>0, <3>1, <3>2, <3>7, <4>1 DEF Due, Taken
      <4>2. CASE KindOf(c) # "ACTION"
        <5>1. PICK d \in Block : Heads(d, c) /\ (Dormant(d)' \/ \E u \in Task : AheadOf(tasks'[u], d, c))
          BY <3>7, <4>2 DEF Due
        <5>2. Dormant(d) \/ \E u \in Task : AheadOf(tasks[u], d, c)
          BY <3>5, <3>6, <5>1
        <5> QED
          BY <4>2, <5>1, <5>2 DEF Due
      <4> QED
        BY <4>1, <4>2
    <3> QED
      BY <3>7
  <2>5. ASSUME NEW c \in Block \ Opening
        PROVE IsFiniteSet(Late(c))' /\ Effects(c)' <= Undone' + 1 /\ (Due(c)' => Effects(c)' <= Undone')
    <3>1. PICK n \in Nat, m \in Nat : /\ n = Cardinality(Late(c)) /\ m = performed[c] /\ IsFiniteSet(Late(c))
                                      /\ m + n <= crashes + rollbacks + 1 /\ (Due(c) => m + n <= crashes + rollbacks)
      BY <1>1, <2>5
    <3>2. Undone' = crashes + rollbacks /\ (Due(c)' => Due(c))
      BY <1>0, <1>4, <2>4, <2>5 DEF Undone
    <3>3. CASE c # b
      <4>1. Late(c)' = Late(c)
        BY <1>x, <1>0, <1>4, <3>3 DEF Late
      <4>2. Effects(c)' = m + n
        BY <2>3, <2>5, <3>1, <3>3, <4>1 DEF Effects
      <4> QED
        BY <1>0, <3>1, <3>2, <4>1, <4>2
    <3>4. CASE c = b
      <4>1. IsFiniteSet(Late(c)') /\ Cardinality(Late(c)') = n - 1
        BY <2>1, <3>1, <3>4, FS_RemoveElement
      <4>2. performed'[c] = m \/ performed'[c] = m + 1
        BY <1>4, <2>5, <3>1, <3>4 DEF Performs
      <4>3. Effects(c)' = performed'[c] + (n - 1)
        BY <4>1 DEF Effects
      <4> QED
        BY <1>0, <3>1, <3>2, <4>1, <4>2, <4>3
    <3> QED
      BY <3>3, <3>4
  <2>6. \A c \in Opening : Late(c)' = {} /\ performed'[c] = performed[c]
    BY <1>0, <2>1, <2>2, <2>3 DEF Counts
  <2> QED
    BY <1>0, <2>5, <2>6 DEF Counts
<1> QED
  BY <1>x, <1>2, <1>3, <1>4, RollShape

LEMMA OnceRolls ==
  ASSUME TypeInv, Once, NEW t \in Task, Rolls(t)
  PROVE Once'
<1>1. /\ UNCHANGED <<logs, waits>> /\ \A u \in Task : u # t => tasks'[u] = tasks[u]
      /\ tasks'[t].pc \in {"idle", "next", "late"} /\ tasks'[t].op \notin Starts
  BY RollShape
<1>2. /\ Logged(tasks'[t].own) = {} /\ Injective(tasks'[t].own) /\ HeadsIn(Logged(tasks'[t].own))
      /\ ~Walking(tasks'[t]) /\ ~Resuming(tasks'[t])
      /\ \A c : Taken(c)' => Taken(c)
  BY RolledOff
<1>3. Distinct' /\ Headed' /\ Rows'
  BY <1>1, <1>2 DEF Once, Distinct, Headed, Rows
<1>4. Walkers'
  <2>1. \A u \in Task : Led(tasks'[u], waits')
    BY <1>1, <1>2 DEF Once, Walkers, Led
  <2>2. \A u, v \in Task : Resuming(tasks'[u]) /\ Resuming(tasks'[v]) /\ tasks'[u].wait = tasks'[v].wait => u = v
    BY <1>1, <1>2 DEF Once, Walkers
  <2>3. \A u \in Task : tasks'[u].pc \in {"insert", "wait", "first"} => u # t
    BY <1>1
  <2>4. ASSUME NEW u \in Task, tasks'[u].pc \in {"insert", "wait"} PROVE ~Taken(tasks[u].block)' /\ tasks'[u] = tasks[u]
    <3>1. PICK b : b = tasks[u].block
      OBVIOUS
    <3>2. tasks'[u] = tasks[u] /\ ~Taken(b)
      BY <1>1, <2>3, <2>4, <3>1 DEF Once, Walkers
    <3>3. \A x : Taken(x)' => Taken(x)
      BY <1>2
    <3> QED
      BY <1>1, <1>2, <2>3, <2>4, <3>1, <3>2 DEF Taken
  <2>5. \A u \in Task : tasks'[u].pc \in {"insert", "wait"} => ~Taken(tasks[u].block)'
    BY <2>4 DEF Taken
  <2>6. \A u \in Task : Logged(tasks'[u].own) \cap Opening = {}
    BY <1>1, <1>2 DEF Once, Walkers
  <2>7. \A u \in Task : tasks'[u].pc = "first" =>
          /\ KindOf(tasks'[u].block) = "ACTION"
          /\ tasks'[u].order \notin DOMAIN logs' => tasks'[u].block \notin Logged(logs')
    BY <1>1, <2>3 DEF Once, Walkers
  <2> QED
    BY <2>1, <2>2, <2>4, <2>5, <2>6, <2>7 DEF Walkers, Taken
<1>5. Starters'
  <2>1. \A u \in Task : tasks'[u].op \in Starts => tasks'[u] = tasks[u]
    BY <1>1
  <2> QED
    BY <1>2, <2>1, CountsRolls DEF Once, Starters
<1>6. Counts' /\ NotAgain'
  BY CountsRolls, RolledOff DEF NotAgain
<1> QED
  BY <1>3, <1>4, <1>5, <1>6 DEF Once

LEMMA OnceInit ==
  ASSUME Init
  PROVE Once
<1>1. /\ DOMAIN logs = {} /\ DOMAIN waits = {} /\ performed = [b \in Block |-> 0] /\ crashes = 0 /\ rollbacks = 0
  BY Starting, Unlogged
<1>2. PICK u \in Task : tasks = [v \in Task |-> IF v = u THEN Start ELSE Idle]
  BY Starting
<1>3. PICK x, y : x = Start /\ y = Idle
  OBVIOUS
<1>4. /\ x.op = "start" /\ x.pc = "walk" /\ x.block = 1 /\ DOMAIN x.own = {}
      /\ y.op = "none" /\ y.pc = "idle" /\ DOMAIN y.own = {}
  BY <1>3, Starting, IdleIsTask
<1>5. \A t \in Task : tasks[t] = IF t = u THEN x ELSE y
  BY <1>2, <1>3
<1>6. \A t \in Task : DOMAIN tasks[t].own = {} /\ (tasks[t].op \in Starts => t = u /\ tasks[t].block = 1)
                      /\ tasks[t].pc \in {"walk", "idle"} /\ tasks[t].op \notin InTx
  BY <1>4, <1>5 DEF Starts, InTx
<1>7. \A t \in Task : Logged(tasks[t].own) = {} /\ Injective(tasks[t].own) /\ HeadsIn(Logged(tasks[t].own))
  BY <1>6, LoggedNone
<1>8. Logged(logs) = {} /\ Injective(logs) /\ HeadsIn(Logged(logs))
  BY <1>1, LoggedNone
<1>9. \A c : ~Taken(c)
  BY <1>7, <1>8 DEF Taken
<1>10. Distinct /\ Headed /\ Rows
  BY <1>1, <1>7, <1>8 DEF Distinct, Headed, Rows
<1>11. \A t \in Task : ~Walking(tasks[t]) /\ ~Resuming(tasks[t])
  BY <1>6 DEF Walking, Resuming, InTx, Resumes
<1>12. Walkers
  BY <1>6, <1>7, <1>9, <1>11 DEF Walkers, Led
<1>13. \A c \in Block : performed[c] = 0
  BY <1>1
<1>14. Starters
  BY <1>6, <1>9, <1>13, OpeningFacts DEF Starters
<1>15. NotAgain
  BY <1>9 DEF NotAgain
<1>16. \A c : Late(c) = {}
  BY <1>6 DEF Late
<1>17. \A c \in Block : IsFiniteSet(Late(c)) /\ Effects(c) = 0
  BY <1>13, <1>16, FS_EmptySet DEF Effects
<1>18. Counts
  BY <1>1, <1>13, <1>16, <1>17, OpeningFacts DEF Counts, Undone
<1> QED
  BY <1>10, <1>12, <1>14, <1>15, <1>18 DEF Once

LEMMA OnceSteps ==
  ASSUME Linear
  PROVE TypeInv /\ Chain /\ Once /\ [Next]_vars => (TypeInv /\ Chain /\ Once)'
<1>1. ASSUME TypeInv, Chain, Once, [Next]_vars PROVE TypeInv' /\ Chain' /\ Once'
  <2>1. TypeInv'
    BY <1>1, TypeStep
  <2>2. CASE \E t \in Task : Turn(t)
    BY <1>1, <2>1, <2>2, ChainTurn, OnceTurn DEF Linear
  <2>3. CASE Expire \/ Crash \/ UNCHANGED vars
    BY <1>1, <2>1, <2>3, ChainRest, OnceExpire, OnceCrash, OnceSame
  <2>4. CASE \E t \in Task : Rolls(t)
    BY <1>1, <2>1, <2>4, ChainRolls, OnceRolls
  <2> QED
    BY <1>1, <2>2, <2>3, <2>4, Steps
<1> QED
  BY <1>1

(* Where only actions are submitted, no block of any flow is logged twice, *)
(* however starts, advances, events, timeouts, cancellations, rollbacks    *)
(* and restarts race.  Without a rollback or a restart none is performed   *)
(* twice, and each of these can repeat a block at most once: also where    *)
(* the block is still running when its transaction is rolled back, and     *)
(* ends when the next advance has executed it again.                       *)
THEOREM BlocksDoneOnce ==
  ASSUME Linear
  PROVE Spec => []DoneOnce
<1>1. Init => TypeInv /\ Chain /\ Once
  BY TypeInit, ChainInit, OnceInit
<1>2. TypeInv /\ Chain /\ Once /\ [Next]_vars => (TypeInv /\ Chain /\ Once)'
  BY OnceSteps
<1>3. TypeInv /\ Chain /\ Once => DoneOnce
  <2>1. ASSUME TypeInv, Once PROVE DoneOnce
    <3>1. \A b \in Opening : performed[b] <= 1
      BY <2>1 DEF Once, Counts
    <3>2. performed \in [Block -> Nat] /\ crashes \in Nat /\ rollbacks \in Nat
      BY <2>1 DEF TypeInv
    <3>3. ASSUME NEW b \in Block \ Opening PROVE performed[b] <= 1 + crashes + rollbacks
      <4>1. PICK n \in Nat, m \in Nat : n = Cardinality(Late(b)) /\ m = performed[b]
        BY <2>1, <3>2, <3>3, LateNumbers DEF Once
      <4>2. m + n <= crashes + rollbacks + 1
        BY <2>1, <3>3, <4>1 DEF Once, Counts, Effects, Undone
      <4> QED
        BY <3>2, <4>1, <4>2
    <3>4. \A b \in Block : performed[b] <= 1 + crashes + rollbacks
      BY <3>1, <3>2, <3>3
    <3> QED
      BY <2>1, <3>4 DEF DoneOnce, Once, Distinct, Injective
  <2> QED
    BY <2>1
<1> QED
  BY <1>1, <1>2, <1>3, PTL DEF Spec

(* What is logged with distinct blocks of a set is no more than the set.   *)
LEMMA AtMost ==
  ASSUME NEW n \in Nat, NEW S, IsFiniteSet(S), NEW f \in [1..n -> S], \A i, j \in 1..n : f[i] = f[j] => i = j
  PROVE n <= Cardinality(S)
<1>1. IsFiniteSet(1..n) /\ Cardinality(1..n) = n /\ Cardinality(S) \in Nat
  BY FS_Interval, FS_CardinalityType
<1> QED
  BY <1>1, FS_PigeonHole

LEMMA Bounded ==
  ASSUME TypeInv, Chain, Once
  PROVE WorkflowTypeOK
<1>1. Len(Flow) \in Nat /\ Block = 1..Len(Flow) /\ IsFiniteSet(Block) /\ Cardinality(Block) = Len(Flow)
  BY BlockFacts, FS_Interval
<1>2. DOMAIN logs \subseteq Block
  <2>1. Last \in Nat /\ DOMAIN logs = 1..Last
    BY LastIsNat DEF Chain
  <2>2. \A k \in DOMAIN logs : logs[k].block \in Block
    BY DEF TypeInv, IsLogs
  <2>3. PICK f : f = [k \in 1..Last |-> logs[k].block]
    OBVIOUS
  <2>4. f \in [1..Last -> Block] /\ \A i, j \in 1..Last : f[i] = f[j] => i = j
    BY <2>1, <2>2, <2>3 DEF Once, Distinct, Injective
  <2>5. Last <= Len(Flow)
    BY <1>1, <2>1, <2>4, AtMost
  <2> QED
    BY <1>1, <2>1, <2>5
<1>3. Len(waits) <= MaxRuns * Cardinality({b \in Block : KindOf(b) = "WAIT_FOR"})
  <2>1. PICK S : S = {b \in Block : KindOf(b) = "WAIT_FOR"}
    OBVIOUS
  <2>2. IsFiniteSet(S) /\ Cardinality(S) \in Nat
    BY <1>1, <2>1, FS_Subset, FS_CardinalityType
  <2>3. Len(waits) \in Nat /\ DOMAIN waits = 1..Len(waits)
    BY DEF TypeInv
  <2>4. ASSUME NEW i \in DOMAIN waits PROVE waits[i].block \in S
    <3>1. waits[i] \in WaitRow
      BY <2>3 DEF TypeInv
    <3>2. waits[i].block \in Block /\ KindOf(waits[i].block) = "WAIT_FOR"
      BY <3>1 DEF WaitRow, Once, Rows
    <3> QED
      BY <2>1, <3>2
  <2>5. PICK f : f = [i \in 1..Len(waits) |-> waits[i].block]
    OBVIOUS
  <2>6. f \in [1..Len(waits) -> S] /\ \A i, j \in 1..Len(waits) : f[i] = f[j] => i = j
    BY <2>3, <2>4, <2>5 DEF Once, Rows
  <2>7. Len(waits) <= Cardinality(S)
    BY <2>2, <2>3, <2>6, AtMost
  <2>8. PICK c \in Nat : c = Cardinality(S)
    BY <2>2
  <2>9. PICK m \in Nat : MaxRuns = m + 1
    BY BoundAssumption
  <2>10. (m + 1) * c = m * c + c /\ m * c \in Nat
    BY <2>8, <2>9
  <2> QED
    BY <2>1, <2>3, <2>7, <2>8, <2>9, <2>10
<1>4. waits \in Seq([block : Block, order : Nat, expired : BOOLEAN, run : 1..MaxRuns,
                     status : {"WAITING", "TRIGGERED", "EXPIRED", "CANCELLED"}])
  BY DEF TypeInv, WaitRow, WaitStatus
<1>5. ASSUME NEW t \in Task
      PROVE /\ tasks[t].op \in OpName /\ tasks[t].pc \in PcName
            /\ tasks[t].order \in Nat /\ tasks[t].block \in 0..(Len(Flow) + 1)
            /\ tasks[t].todo \subseteq DOMAIN waits
  BY DEF TypeInv, IsTask, Refers, Does, PcName
<1>6. \A k \in DOMAIN logs : logs[k] \in [block : Block, waiting : BOOLEAN]
  BY DEF TypeInv, IsLogs
<1> QED
  BY <1>2, <1>3, <1>4, <1>5, <1>6 DEF WorkflowTypeOK, TypeInv

(* Then the engine's types hold with their bounds too: no more steps are   *)
(* logged than the flow has blocks, nor waits opened than it has of these. *)
THEOREM WorkflowTypeCorrect ==
  ASSUME Linear
  PROVE Spec => []WorkflowTypeOK
<1>1. Init => TypeInv /\ Chain /\ Once
  BY TypeInit, ChainInit, OnceInit
<1>2. TypeInv /\ Chain /\ Once /\ [Next]_vars => (TypeInv /\ Chain /\ Once)'
  BY OnceSteps
<1>3. TypeInv /\ Chain /\ Once => WorkflowTypeOK
  BY Bounded
<1> QED
  BY <1>1, <1>2, <1>3, PTL DEF Spec

LEMMA NoWaitOpening ==
  ASSUME Separated
  PROVE \A c \in Opening : KindOf(c) # "WAIT_FOR"
<1>1. ASSUME NEW c \in Opening, KindOf(c) = "WAIT_FOR" PROVE FALSE
  <2>1. PICK a \in Block : Heads(a, c) /\ KindOf(a) = "ACTION"
    BY <1>1, OpeningFacts DEF Separated
  <2>2. a <= c
    BY <1>1, <2>1, OpeningFacts, BlockFacts DEF Heads
  <2> QED
    BY <1>1, <2>1, <2>2, OpeningFacts
<1> QED
  BY <1>1

LEMMA PassedStays ==
  ASSUME Kept, NEW b, PassedBefore(b)
  PROVE PassedBefore(b)'
  BY DEF Kept, PassedBefore, Over

(* A walk begins at an action or a wait that is over, and stops at the     *)
(* next: what lies behind it was behind that.                              *)
LEMMA Behind ==
  ASSUME TypeInv, Rows, Walkers, \A b \in Block : Taken(b) => PassedBefore(b),
         NEW t \in Task, NEW b \in Nat, b = tasks[t].block, Walking(tasks[t])
  PROVE PassedBefore(b)
<1>1. PICK d \in Block :
        /\ Heads(d, b)
        /\ \/ KindOf(d) = "ACTION" /\ tasks[t].op = "advance" /\ d \in Logged(tasks[t].own)
           \/ KindOf(d) = "WAIT_FOR" /\ tasks[t].op \in Resumes /\ waits[tasks[t].wait].block = d
  BY DEF Walkers, Led
<1>2. ASSUME NEW w \in Block, w < b, KindOf(w) = "WAIT_FOR" PROVE w < d \/ w = d
  <2>1. w \notin (d + 1)..(b - 1)
    BY <1>1, <1>2 DEF Heads
  <2> QED
    BY <1>2, <2>1, BlockFacts
<1>3. CASE KindOf(d) = "ACTION" /\ d \in Logged(tasks[t].own)
  <2>1. PassedBefore(d)
    BY <1>3 DEF Taken
  <2> QED
    BY <1>2, <1>3, <2>1 DEF PassedBefore
<1>4. CASE KindOf(d) = "WAIT_FOR" /\ tasks[t].op \in Resumes /\ waits[tasks[t].wait].block = d
  <2>1. Resuming(tasks[t])
    BY <1>4 DEF Resuming, Walking
  <2>2. tasks[t].wait \in DOMAIN waits /\ waits[tasks[t].wait].status # "WAITING"
    BY <2>1 DEF Walkers, Led
  <2>3. Over(d) /\ d \in Logged(logs)
    BY <1>4, <2>2 DEF Over, Rows
  <2>4. PassedBefore(d)
    BY <2>3 DEF Taken
  <2> QED
    BY <1>2, <2>3, <2>4 DEF PassedBefore
<1> QED
  BY <1>1, <1>3, <1>4

(* What an advance reads as the current block has no wait before it that   *)
(* is not over: its action was logged, and the wait with it.               *)
LEMMA CurrentPassed ==
  ASSUME TypeInv, Chain, Distinct, Respected, Separated, ~Complete
  PROVE PassedBefore(CurrentBlock)
<1>0. PICK n \in Nat : DOMAIN logs = 1..n
  BY LastIsNat DEF Chain
<1>1. PICK cur : cur = CurrentBlock
  OBVIOUS
<1>2. cur \in Block /\ \A b \in Block : b < cur => ~Stops(b)
  <2>1. {b \in Block : Stops(b)} # {} /\ {b \in Block : Stops(b)} \subseteq Nat
    BY BlockFacts DEF Complete
  <2>2. cur = Min({b \in Block : Stops(b)})
    BY <1>1 DEF CurrentBlock
  <2>3. cur \in Block /\ \A b \in Block : Stops(b) => cur <= b
    BY <2>1, <2>2, Least
  <2> QED
    BY <2>3, BlockFacts
<1>3. ASSUME NEW w \in Block, w < cur, KindOf(w) = "WAIT_FOR" PROVE Over(w)
  <2>1. PICK a \in Block : Heads(a, w) /\ KindOf(a) = "ACTION"
    BY <1>3 DEF Separated
  <2>2. ~Stops(a) /\ ~Stops(w)
    BY <1>2, <1>3, <2>1, BlockFacts DEF Heads
  <2>3. a \in Logged(logs)
    BY <2>1, <2>2 DEF Stops, LogsOf, Logged
  <2>4. w \in Logged(logs)
    BY <1>3, <2>1, <2>3 DEF Respected
  <2>5. PICK k \in DOMAIN logs : logs[k].block = w
    BY <2>4 DEF Logged
  <2>6. PICK S : S = LogsOf(w)
    OBVIOUS
  <2>7. S \subseteq 1..n /\ k \in S /\ \A j \in S : j = k
    BY <1>0, <2>5, <2>6 DEF LogsOf, Distinct, Injective
  <2>8. Max(S) = k
    BY <2>7, Greatest
  <2>9. ~logs[k].waiting
    BY <1>3, <2>2, <2>6, <2>7, <2>8 DEF Stops
  <2> QED
    BY <1>3, <2>5, <2>9 DEF Respected, OpenedFor, Over
<1> QED
  BY <1>1, <1>3 DEF PassedBefore

(* Only a transaction carries rows of its own from step to step.           *)
LEMMA OwnElse ==
  ASSUME TypeInv, Chain, Linear, NEW t \in Task, Turn(t), ~TxTurn(t), ~TxLogs(t)
  PROVE DOMAIN tasks'[t].own = {}
  BY ShapeStart, ShapeReads, ShapeOff, ShapeWait, LogsJoin DEF Turn, Restarts, Linear, Growing

LEMMA WholeTurn ==
  ASSUME TypeInv, Chain, Linear, Once, NEW t \in Task, Turn(t), Whole(tasks[t])
  PROVE Whole(tasks'[t])
<1>1. PICK x, y : x = tasks[t] /\ y = tasks'[t]
  OBVIOUS
<1>2. Whole(x) /\ IsTask(x) /\ x.block \in Nat
  BY <1>1, TaskFacts, Fields
<1>3. CASE TxTurn(t)
  <2>1. /\ y.block = x.block /\ y.own = x.own /\ Walking(x)
        /\ y.pc \in {"wait", "insert"} \/ (y.pc = "commit" /\ Halts(x.block))
    BY <1>1, <1>3, ShapeTx DEF Walking
  <2>2. ASSUME NEW a \in Logged(y.own), KindOf(a) = "ACTION"
        PROVE /\ Walking(y) => Heads(a, y.block) /\ \A c \in (a + 1)..(y.block - 1) : c \in Logged(y.own)
              /\ y.pc = "commit" => \A c \in Block : Heads(a, c) /\ KindOf(c) # "ACTION" => c \in Logged(y.own)
    <3>1. Heads(a, x.block) /\ \A c \in (a + 1)..(x.block - 1) : c \in Logged(x.own)
      BY <1>2, <2>1, <2>2 DEF Whole
    <3>2. ASSUME y.pc = "commit", NEW c \in Block, Heads(a, c), KindOf(c) # "ACTION" PROVE c \in Logged(x.own)
      <4>1. a \in Nat /\ a < x.block /\ a < c /\ c \in Nat
        BY <3>1, <3>2, BlockFacts DEF Heads
      <4>2. Halts(x.block)
        BY <2>1, <3>2
      <4>3. c # x.block
        BY <3>2, <4>2, BlockFacts DEF Halts, Kind
      <4>4. ~(x.block < c)
        <5>1. SUFFICES ASSUME x.block < c PROVE FALSE
          OBVIOUS
        <5>2. x.block \in (a + 1)..(c - 1) /\ x.block \in Block
          BY <1>2, <4>1, <5>1, BlockFacts
        <5> QED
          BY <3>2, <4>2, <5>2, BlockFacts DEF Heads, Halts, Kind
      <4> QED
        BY <1>2, <3>1, <4>1, <4>3, <4>4
    <3> QED
      BY <2>1, <3>1, <3>2
  <2> QED
    BY <1>1, <2>2 DEF Whole
<1>4. CASE TxLogs(t)
  <2>1. /\ x.block \in Block /\ Logged(y.own) = Logged(x.own) \cup {x.block}
        /\ IF x.pc = "wait" THEN y.pc = "commit" /\ y.block = x.block ELSE y.pc = "walk" /\ y.block = x.block + 1
        /\ x.op \in InTx /\ x.pc \in {"first", "insert", "wait"}
    BY <1>1, <1>4, OwnGrows DEF TxLogs
  <2>2. ASSUME NEW a \in Logged(y.own), KindOf(a) = "ACTION"
        PROVE /\ Walking(y) => Heads(a, y.block) /\ \A c \in (a + 1)..(y.block - 1) : c \in Logged(y.own)
              /\ y.pc = "commit" => \A c \in Block : Heads(a, c) /\ KindOf(c) # "ACTION" => c \in Logged(y.own)
    <3>1. CASE x.pc = "first"
      <4>1. Logged(x.own) = {}
        BY <1>2, <3>1, LoggedNone DEF IsTask
      <4>2. a = x.block /\ y.block = a + 1 /\ y.pc = "walk" /\ a \in Block
        BY <2>1, <2>2, <3>1, <4>1
      <4>3. Heads(a, y.block) /\ (a + 1)..(y.block - 1) = {}
        BY <2>2, <4>2, HeadsSelf, BlockFacts
      <4> QED
        BY <4>2, <4>3
    <3>2. CASE x.pc \in {"insert", "wait"}
      <4>1. Walking(x) /\ KindOf(x.block) # "ACTION"
        BY <1>2, <2>1, <3>2 DEF Walking, IsTask
      <4>2. a \in Logged(x.own)
        BY <2>1, <2>2, <4>1
      <4>3. Heads(a, x.block) /\ \A c \in (a + 1)..(x.block - 1) : c \in Logged(x.own)
        BY <1>2, <2>2, <4>1, <4>2 DEF Whole
      <4>4. a \in Nat /\ a < x.block
        BY <4>3, BlockFacts DEF Heads
      <4>5. CASE x.pc = "insert"
        <5>1. KindOf(x.block) \notin {"ACTION", "WAIT_FOR"} /\ y.block = x.block + 1 /\ y.pc = "walk"
          BY <1>2, <2>1, <4>5 DEF IsTask
        <5>2. Heads(a, y.block)
          BY <2>1, <4>3, <5>1, HeadsNext
        <5>3. \A c \in (a + 1)..(y.block - 1) : c \in Logged(y.own)
          BY <1>2, <2>1, <4>3, <4>4, <5>1
        <5> QED
          BY <5>1, <5>2, <5>3
      <4>6. CASE x.pc = "wait"
        <5>1. KindOf(x.block) = "WAIT_FOR" /\ y.block = x.block /\ y.pc = "commit" /\ ~Walking(y)
          BY <1>2, <2>1, <4>6 DEF IsTask, Walking
        <5>2. ASSUME NEW c \in Block, Heads(a, c) PROVE c \in Logged(y.own)
          <6>1. x.block \notin (a + 1)..(c - 1) /\ a < c /\ c \in Nat
            BY <5>1, <5>2, BlockFacts DEF Heads
          <6> QED
            BY <1>2, <2>1, <4>3, <4>4, <6>1
        <5> QED
          BY <5>1, <5>2
      <4> QED
        BY <3>2, <4>5, <4>6
    <3> QED
      BY <2>1, <3>1, <3>2
  <2> QED
    BY <1>1, <2>2 DEF Whole
<1>5. CASE ~TxTurn(t) /\ ~TxLogs(t)
  BY <1>5, OwnElse, LoggedNone DEF Whole
<1> QED
  BY <1>3, <1>4, <1>5

LEMMA TakenPassed ==
  ASSUME TypeInv, Chain, Linear, Separated, Once, Respected, NEW t \in Task, Turn(t), NEW b \in Block, Taken(b)'
  PROVE PassedBefore(b)'
<1>0. Kept /\ Rows /\ Walkers /\ Starters
  BY WaitsKept DEF Once
<1>1. CASE Taken(b)
  BY <1>0, <1>1, PassedStays DEF Respected
<1>2. CASE StartLogs(t) /\ b = tasks[t].block
  <2>1. b \in Opening
    BY <1>0, <1>2, LogsGrow, StartFree DEF StartLogs
  <2>2. \A w \in Block : w < b => KindOf(w) # "WAIT_FOR"
    BY <2>1, NoWaitOpening, OpeningFacts, BlockFacts
  <2>3. PassedBefore(b)
    BY <2>2 DEF PassedBefore
  <2> QED
    BY <1>0, <2>3, PassedStays
<1>3. CASE TxLogs(t) /\ b = tasks[t].block
  <2>1. CASE tasks[t].pc = "first"
    BY <1>0, <1>3, <2>1, PassedStays DEF Respected
  <2>2. CASE tasks[t].pc # "first"
    <3>1. Walking(tasks[t]) /\ b \in Nat
      BY <1>3, <2>2, BlockFacts DEF TxLogs, Walking
    <3>2. PassedBefore(b)
      BY <1>0, <1>3, <3>1, Behind DEF Respected
    <3> QED
      BY <1>0, <3>2, PassedStays
  <2> QED
    BY <2>1, <2>2
<1> QED
  BY <1>1, <1>2, <1>3, TakenAfter

LEMMA FirstPassed ==
  ASSUME TypeInv, Chain, Linear, Separated, Once, Respected, NEW t \in Task, Turn(t),
         NEW u \in Task, NEW b, b = tasks'[u].block, tasks'[u].pc = "first"
  PROVE PassedBefore(b)'
<1>0. Kept /\ \A v \in Task : v # t => tasks'[v] = tasks[v]
  BY WaitsKept, Frame
<1>1. CASE u = t
  <2>1. b = CurrentBlock /\ ~Complete
    BY <1>1, ReadBefore, ShapeReads
  <2>2. PassedBefore(CurrentBlock)
    BY <2>1, CurrentPassed DEF Once
  <2>3. PassedBefore(b)
    BY <2>1, <2>2 DEF PassedBefore
  <2> QED
    BY <1>0, <2>3, PassedStays
<1>2. CASE u # t
  <2>1. PassedBefore(b)
    BY <1>0, <1>2 DEF Respected, PassedBefore
  <2> QED
    BY <1>0, <2>1, PassedStays
<1> QED
  BY <1>1, <1>2

(* An action is logged with all that follows up to the next wait.          *)
LEMMA FollowedTurn ==
  ASSUME TypeInv, Chain, Linear, Once, Respected, NEW t \in Task, Turn(t),
         NEW a \in Logged(logs'), NEW c \in Block, KindOf(a) = "ACTION", Heads(a, c), KindOf(c) # "ACTION"
  PROVE c \in Logged(logs')
<1>0. Logged(logs) \subseteq Logged(logs')
  BY LoggedGrows
<1>1. CASE a \in Logged(logs)
  BY <1>0, <1>1 DEF Respected
<1>2. CASE a \notin Logged(logs)
  <2>1. ~StartLogs(t) /\ ~TxLogs(t)
    BY <1>2, LogsGrow, OwnGrows
  <2>2. Commits(t)
    BY <1>2, <2>1, LogsStay
  <2>3. a \in Logged(tasks[t].own) /\ tasks[t].pc = "commit"
    BY <1>2, <2>2, LogsJoin DEF Commits
  <2>4. c \in Logged(tasks[t].own)
    BY <2>3 DEF Respected, Whole
  <2> QED
    BY <2>2, <2>4, LogsJoin
<1> QED
  BY <1>1, <1>2

(* The row an insert adds to those of its transaction.                     *)
LEMMA InsertedRow ==
  ASSUME TypeInv, NEW t \in Task, TxLogs(t), NEW k \in DOMAIN tasks'[t].own
  PROVE \/ k \in DOMAIN tasks[t].own /\ tasks'[t].own[k] = tasks[t].own[k]
        \/ tasks'[t].own[k].block = tasks[t].block /\ (tasks[t].pc = "wait" => tasks'[t].own[k].waiting)
<1>x. PICK x : x = tasks[t]
  OBVIOUS
<1>1. /\ IsTask(x) /\ x.pc \in {"first", "insert", "wait"} /\ x.block \in Block /\ x.order \in Nat \ {0}
  BY <1>x, TaskFacts DEF TxLogs, IsTask
<1>2. PICK w \in BOOLEAN : w = (x.pc = "wait")
  OBVIOUS
<1>3. PICK row : row = Row(x.order, x.block, w)
  OBVIOUS
<1>4. DOMAIN row = {x.order} /\ row[x.order] = [block |-> x.block, waiting |-> w]
  BY <1>1, <1>3, RowFacts
<1>5. PICK old, own : old = x.own /\ own = With(old, row)
  OBVIOUS
<1>6. /\ DOMAIN With(old, row) = DOMAIN old \cup DOMAIN row
      /\ \A j \in DOMAIN old : With(old, row)[j] = old[j]
      /\ \A j \in DOMAIN row : j \notin DOMAIN old => With(old, row)[j] = row[j]
  BY ONLY WithFacts, Zenon
<1>7. \E pc, b : Move(t, At(x, pc, b, x.order, own))
  BY <1>x, <1>2, <1>3, <1>5 DEF TxLogs
<1>8. tasks'[t].own = own
  BY <1>7, AfterMove DEF At
<1>9. CASE k \in DOMAIN old
  BY <1>x, <1>5, <1>6, <1>8, <1>9
<1>10. CASE k \notin DOMAIN old
  <2>1. k \in DOMAIN row /\ own[k] = row[k]
    BY <1>5, <1>6, <1>8, <1>10
  <2>2. own[k].block = x.block /\ own[k].waiting = w
    BY <1>4, <2>1
  <2> QED
    BY <1>x, <1>2, <1>8, <2>2
<1> QED
  BY <1>9, <1>10

(* The rows of a transaction that log a wait are waiting.                  *)
LEMMA WaitingTurn ==
  ASSUME TypeInv, Chain, Linear, Once, Respected, NEW t \in Task, Turn(t),
         NEW u \in Task, NEW k \in DOMAIN tasks'[u].own, KindOf(tasks'[u].own[k].block) = "WAIT_FOR"
  PROVE tasks'[u].own[k].waiting
<1>0. \A v \in Task : v # t => tasks'[v] = tasks[v]
  BY Frame
<1>1. \A j \in DOMAIN tasks[u].own : KindOf(tasks[u].own[j].block) = "WAIT_FOR" => tasks[u].own[j].waiting
  BY DEF Respected
<1>2. CASE u # t
  BY <1>0, <1>1, <1>2
<1>3. CASE u = t /\ TxTurn(t)
  BY <1>1, <1>3, ShapeTx
<1>4. CASE u = t /\ TxLogs(t)
  <2>1. CASE k \in DOMAIN tasks[t].own /\ tasks'[t].own[k] = tasks[t].own[k]
    BY <1>1, <1>4, <2>1
  <2>2. CASE tasks'[t].own[k].block = tasks[t].block /\ (tasks[t].pc = "wait" => tasks'[t].own[k].waiting)
    <3>1. KindOf(tasks[t].block) = "WAIT_FOR" /\ IsTask(tasks[t]) /\ tasks[t].pc \in {"first", "insert", "wait"}
      BY <1>4, <2>2, TaskFacts DEF TxLogs
    <3>2. tasks[t].pc # "insert"
      BY <3>1 DEF IsTask
    <3>3. tasks[t].pc # "first"
      BY <3>1 DEF Once, Walkers
    <3> QED
      BY <1>4, <2>2, <3>1, <3>2, <3>3
  <2> QED
    BY <1>4, <2>1, <2>2, InsertedRow
<1>5. CASE u = t /\ ~TxTurn(t) /\ ~TxLogs(t)
  BY <1>5, OwnElse
<1> QED
  BY <1>2, <1>3, <1>4, <1>5

(* A logged wait stays opened, and is over once its log no longer waits.   *)
LEMMA OpenedTurn ==
  ASSUME TypeInv, Chain, Linear, Separated, Once, Respected, NEW t \in Task, Turn(t),
         NEW k \in DOMAIN logs', KindOf(logs'[k].block) = "WAIT_FOR"
  PROVE OpenedFor(k)'
<1>0. Kept /\ \A j \in DOMAIN logs : KindOf(logs[j].block) = "WAIT_FOR" => OpenedFor(j)
  BY WaitsKept DEF Respected
<1>1. ASSUME k \in DOMAIN logs, logs'[k].block = logs[k].block, logs[k].waiting => logs'[k].waiting
      PROVE OpenedFor(k)'
  <2>1. PICK i \in DOMAIN waits : waits[i].block = logs[k].block /\ (logs[k].waiting \/ waits[i].status # "WAITING")
    BY <1>0, <1>1 DEF OpenedFor
  <2>2. i \in DOMAIN waits' /\ waits'[i].block = logs'[k].block /\ (logs'[k].waiting \/ waits'[i].status # "WAITING")
    BY <1>0, <1>1, <2>1 DEF Kept
  <2> QED
    BY <2>2 DEF OpenedFor
<1>2. CASE StartLogs(t)
  <2>1. PICK x : x = tasks[t]
    OBVIOUS
  <2>2. x.block \in Opening /\ x.order + 1 \in Nat \ {0} /\ x.block \in Block
    <3>1. IsTask(x)
      BY <2>1, TaskFacts
    <3>2. x.order \in Nat
      BY <3>1 DEF IsTask
    <3>3. x.block \in Opening /\ x.block \in Block
      BY <1>2, <2>1, LogsGrow, StartFree DEF StartLogs, Once
    <3> QED
      BY <3>2, <3>3
  <2>3. PICK no \in BOOLEAN : no = FALSE
    OBVIOUS
  <2>4. PICK n \in Nat \ {0} : n = x.order + 1
    BY <2>2
  <2>5. PICK row : row = Row(n, x.block, no)
    OBVIOUS
  <2>6. DOMAIN row = {n} /\ row[n] = [block |-> x.block, waiting |-> no]
    BY <2>2, <2>5, RowFacts
  <2>7. logs' = With(logs, row)
    BY <1>2, <2>1, <2>3, <2>4, <2>5 DEF StartLogs
  <2>8. /\ DOMAIN With(logs, row) = DOMAIN logs \cup DOMAIN row
        /\ \A j \in DOMAIN logs : With(logs, row)[j] = logs[j]
        /\ \A j \in DOMAIN row : j \notin DOMAIN logs => With(logs, row)[j] = row[j]
    BY ONLY WithFacts, Zenon
  <2>9. k \in DOMAIN logs
    <3>1. ASSUME k \notin DOMAIN logs PROVE FALSE
      <4>1. logs'[k].block = x.block
        BY <2>6, <2>7, <2>8, <3>1
      <4> QED
        BY <2>2, <4>1, NoWaitOpening
    <3> QED
      BY <3>1
  <2> QED
    BY <1>1, <2>7, <2>8, <2>9
<1>3. CASE Commits(t)
  <2>1. PICK own : own = tasks[t].own
    OBVIOUS
  <2>2. logs' = With(own, logs)
    BY <1>3, <2>1 DEF Commits
  <2>3. /\ DOMAIN With(own, logs) = DOMAIN own \cup DOMAIN logs
        /\ \A j \in DOMAIN own : With(own, logs)[j] = own[j]
        /\ \A j \in DOMAIN logs : j \notin DOMAIN own => With(own, logs)[j] = logs[j]
    BY ONLY WithFacts, Zenon
  <2>4. CASE k \in DOMAIN own
    <3>1. logs'[k] = own[k] /\ own[k].waiting
      BY <2>1, <2>2, <2>3, <2>4 DEF Respected
    <3>2. Len(waits) + 1 \in DOMAIN waits' /\ waits'[Len(waits) + 1].block = own[k].block
      BY <1>3, <2>1, <2>4, <3>1, WaitOpens
    <3> QED
      BY <3>1, <3>2 DEF OpenedFor
  <2>5. CASE k \notin DOMAIN own
    BY <1>1, <2>2, <2>3, <2>5
  <2> QED
    BY <2>4, <2>5
<1>4. CASE Notes(t)
  <2>1. PICK i : i = tasks[t].wait
    OBVIOUS
  <2>2. DOMAIN logs' = DOMAIN logs /\ logs'[k].block = logs[k].block
    <3>1. DOMAIN logs' = DOMAIN logs
      BY <1>4 DEF Notes
    <3>2. logs[k] \in [block : Block, waiting : BOOLEAN]
      BY <3>1 DEF TypeInv, IsLogs
    <3>3. logs'[k] = logs[k] \/ logs'[k] = [logs[k] EXCEPT !.waiting = FALSE]
      BY <1>4, <3>1 DEF Notes
    <3> QED
      BY <3>1, <3>2, <3>3
  <2>3. CASE logs[k].block = waits[i].block
    <3>1. Resuming(tasks[t])
      BY <1>4 DEF Notes, Resuming
    <3>2. i \in DOMAIN waits /\ waits[i].status # "WAITING"
      BY <2>1, <3>1 DEF Once, Walkers, Led
    <3>3. i \in DOMAIN waits' /\ waits'[i].block = logs'[k].block /\ waits'[i].status # "WAITING"
      BY <1>0, <2>2, <2>3, <3>2 DEF Kept
    <3> QED
      BY <3>3 DEF OpenedFor
  <2>4. CASE logs[k].block # waits[i].block
    <3>1. logs'[k] = logs[k]
      BY <1>4, <2>1, <2>2, <2>4 DEF Notes
    <3> QED
      BY <1>1, <2>2, <3>1
  <2> QED
    BY <2>3, <2>4
<1>5. CASE logs' = logs
  BY <1>1, <1>5
<1>6. CASE StartTurn(t) \/ Wakes(t) \/ Reads(t) \/ TxTurn(t) \/ TxLogs(t)
  BY <1>5, <1>6 DEF StartTurn, Wakes, Reads, TxTurn, TxLogs
<1>7. CASE Leaves(t) \/ Opens(t) \/ Finds(t) \/ Resolves(t) \/ ResumesWalk(t)
  BY <1>5, <1>7 DEF Leaves, Opens, Finds, Resolves, ResumesWalk
<1>8. ~Restarts(t)
  BY DEF Restarts, Linear, Growing
<1> QED
  BY <1>2, <1>3, <1>4, <1>6, <1>7, <1>8 DEF Turn

LEMMA RespectedTurn ==
  ASSUME TypeInv, Chain, Linear, Separated, Once, Respected, NEW t \in Task, Turn(t)
  PROVE Respected'
<1>0. Kept /\ \A u \in Task : u # t => tasks'[u] = tasks[u]
  BY WaitsKept, Frame
<1>1. \A b \in Block : Taken(b)' => PassedBefore(b)'
  BY TakenPassed
<1>2. ASSUME NEW u \in Task, tasks'[u].pc = "first"
      PROVE \A w \in Block : w < tasks'[u].block /\ KindOf(w) = "WAIT_FOR" => Over(w)'
  <2>1. PICK b : b = tasks'[u].block
    OBVIOUS
  <2>2. PassedBefore(b)'
    BY <1>2, <2>1, FirstPassed
  <2> QED
    BY <2>1, <2>2 DEF PassedBefore
<1>3. ASSUME NEW u \in Task PROVE Whole(tasks'[u])
  <2>1. Whole(tasks[u])
    BY DEF Respected
  <2>2. CASE u = t
    BY <2>1, <2>2, WholeTurn
  <2>3. CASE u # t
    <3>1. PICK x : x = tasks[u]
      OBVIOUS
    <3> QED
      BY <1>0, <2>1, <2>3, <3>1
  <2> QED
    BY <2>2, <2>3
<1>4. \A a \in Logged(logs'), c \in Block :
        KindOf(a) = "ACTION" /\ Heads(a, c) /\ KindOf(c) # "ACTION" => c \in Logged(logs')
  BY FollowedTurn
<1>5. \A k \in DOMAIN logs' : KindOf(logs'[k].block) = "WAIT_FOR" => OpenedFor(k)'
  BY OpenedTurn
<1>6. \A u \in Task : \A k \in DOMAIN tasks'[u].own :
        KindOf(tasks'[u].own[k].block) = "WAIT_FOR" => tasks'[u].own[k].waiting
  BY WaitingTurn
<1>7. run' = 1
  <2>1. run = 1 /\ ~Restarts(t)
    BY DEF Respected, Restarts, Linear, Growing
  <2>2. CASE StartTurn(t) \/ StartLogs(t) \/ Wakes(t) \/ Reads(t) \/ TxTurn(t) \/ TxLogs(t) \/ Leaves(t)
    BY <2>1, <2>2 DEF StartTurn, StartLogs, Wakes, Reads, TxTurn, TxLogs, Leaves
  <2>3. CASE Commits(t) \/ Opens(t) \/ Finds(t) \/ Resolves(t) \/ Notes(t) \/ ResumesWalk(t)
    BY <2>1, <2>3 DEF Commits, Opens, Finds, Resolves, Notes, ResumesWalk
  <2> QED
    BY <2>1, <2>2, <2>3 DEF Turn
<1>8. \A i \in DOMAIN waits' : waits'[i].run = 1
  <2>1. run = 1 /\ \A i \in DOMAIN waits : waits[i].run = 1
    BY DEF Respected
  <2> QED
    BY <1>0, <2>1, WaitsGrow DEF Kept
<1> QED
  BY <1>1, <1>2, <1>3, <1>4, <1>5, <1>6, <1>7, <1>8 DEF Respected, PassedBefore

(* Time passing, a rollback and a restart take nothing back.               *)
LEMMA RespectedRest ==
  ASSUME TypeInv, Respected, Expire \/ Crash \/ UNCHANGED vars \/ \E t \in Task : Rolls(t)
  PROVE Respected'
<1>1. /\ UNCHANGED <<logs, run>> /\ DOMAIN waits' = DOMAIN waits
      /\ \A i \in DOMAIN waits : /\ waits'[i].status = waits[i].status /\ waits'[i].block = waits[i].block
                                 /\ waits'[i].run = waits[i].run
      /\ \A t \in Task : \/ tasks'[t] = tasks[t]
                         \/ tasks'[t].pc # "first" /\ DOMAIN tasks'[t].own = {}
  <2>1. CASE Expire
    BY <2>1, ExpireKeeps DEF Expire, Kept
  <2>2. CASE Crash \/ UNCHANGED vars
    BY <2>2, IdleIsTask DEF Crash, vars
  <2>3. CASE \E t \in Task : Rolls(t)
    BY <2>3, RollShape
  <2> QED
    BY <2>1, <2>2, <2>3
<1>3. \A y : DOMAIN y.own = {} => Logged(y.own) = {}
  BY LoggedNone
<1>4. \A w : Over(w)' <=> Over(w)
  BY <1>1 DEF Over
<1>5. \A b : PassedBefore(b)' <=> PassedBefore(b)
  BY <1>4 DEF PassedBefore
<1>6. \A b : Taken(b)' => Taken(b)
  BY <1>1, <1>3 DEF Taken
<1>7. ASSUME NEW t \in Task
      PROVE /\ tasks'[t].pc = "first" => tasks'[t].pc = tasks[t].pc /\ tasks'[t].block = tasks[t].block
            /\ Whole(tasks'[t])
            /\ \A k \in DOMAIN tasks'[t].own : KindOf(tasks'[t].own[k].block) = "WAIT_FOR" => tasks'[t].own[k].waiting
  <2>1. PICK x : x = tasks[t]
    OBVIOUS
  <2>2. Whole(x) /\ \A k \in DOMAIN x.own : KindOf(x.own[k].block) = "WAIT_FOR" => x.own[k].waiting
    BY <2>1 DEF Respected
  <2>3. CASE tasks'[t] = x
    BY <2>1, <2>2, <2>3
  <2>4. CASE tasks'[t].pc # "first" /\ DOMAIN tasks'[t].own = {}
    BY <1>3, <2>4 DEF Whole
  <2> QED
    BY <1>1, <2>1, <2>3, <2>4
<1>8. \A k \in DOMAIN logs' : KindOf(logs'[k].block) = "WAIT_FOR" => OpenedFor(k)'
  BY <1>1 DEF Respected, OpenedFor
<1> QED
  BY <1>1, <1>5, <1>6, <1>7, <1>8 DEF Respected, PassedBefore, Over

LEMMA RespectedInit ==
  ASSUME Init
  PROVE Respected
<1>1. DOMAIN logs = {} /\ DOMAIN waits = {} /\ run = 1
  BY Starting, Unlogged
<1>2. Start.pc = "walk" /\ DOMAIN Start.own = {} /\ Idle.pc = "idle" /\ DOMAIN Idle.own = {}
  BY Starting, IdleIsTask
<1>3. \A t \in Task : DOMAIN tasks[t].own = {} /\ tasks[t].pc # "first"
  BY <1>2, Starting
<1>4. Logged(logs) = {} /\ \A t \in Task : Logged(tasks[t].own) = {}
  BY <1>1, <1>3, LoggedNone
<1> QED
  BY <1>1, <1>3, <1>4 DEF Respected, Whole, Taken

(* Where moreover each wait follows an action, no block of any flow is     *)
(* logged behind a wait before it is over, although the advance that logs  *)
(* it has read the progress in another transaction.                        *)
THEOREM NoStepBehindWait ==
  ASSUME Linear, Separated
  PROVE Spec => []WaitsRespected
<1>1. Init => TypeInv /\ Chain /\ Once /\ Respected
  BY TypeInit, ChainInit, OnceInit, RespectedInit
<1>2. TypeInv /\ Chain /\ Once /\ Respected /\ [Next]_vars => (TypeInv /\ Chain /\ Once /\ Respected)'
  <2>1. ASSUME TypeInv, Chain, Once, Respected, [Next]_vars PROVE TypeInv' /\ Chain' /\ Once' /\ Respected'
    BY <2>1, OnceSteps, RespectedTurn, RespectedRest, Steps
  <2> QED
    BY <2>1
<1>3. TypeInv /\ Chain /\ Once /\ Respected => WaitsRespected
  <2>1. ASSUME TypeInv, Respected, NEW k \in DOMAIN logs, NEW b \in 1..(logs[k].block - 1), KindOf(b) = "WAIT_FOR"
        PROVE \E i \in DOMAIN waits : waits[i].block = b /\ waits[i].run = run /\ waits[i].status # "WAITING"
    <3>1. logs[k].block \in Block /\ Taken(logs[k].block)
      BY <2>1 DEF TypeInv, IsLogs, Taken, Logged
    <3>2. b \in Block /\ b < logs[k].block
      BY <2>1, <3>1, BlockFacts
    <3>3. Over(b)
      BY <2>1, <3>1, <3>2 DEF Respected, PassedBefore
    <3> QED
      BY <2>1, <3>3 DEF Over, Respected
  <2> QED
    BY <2>1 DEF WaitsRespected
<1> QED
  BY <1>1, <1>2, <1>3, PTL DEF Spec
----------------------------------------------------------------------------
(* The blocks the start walks over *)

Automatic(b) == b \in Opening /\ KindOf(b) \in {"NOTIFY", "STATUS"}

(* A start that has block b before it.                                     *)
Comes(x, b) == x.op = "start" /\ (x.block < b \/ (x.block = b /\ x.pc = "walk"))
Reached(b) == performed[b] > 0 \/ \E t \in Task : Comes(tasks[t], b)
Reaching == crashes = 0 => \A b : Automatic(b) => Reached(b)

(* The walk passes no block of them without executing it, and ends behind  *)
(* them, unless a delay leaves it to a timer or a write fails.             *)
LEMMA StartComes ==
  ASSUME TypeInv, MayFail = FALSE, \A c \in Opening : KindOf(c) # "LONG_DELAY",
         NEW t \in Task, NEW b, Automatic(b), Comes(tasks[t], b), FromStart(t)
  PROVE  Reached(b)'
<1> PICK x : x = tasks[t]
  OBVIOUS
<1>0. /\ IsRec(x) /\ IsTask(x) /\ DOMAIN tasks = Task /\ x.op = "start" /\ x.pc = "walk"
      /\ performed \in [Block -> Nat]
  BY TaskFacts DEF TypeInv, FromStart
<1>1. b \in Nat /\ b \in Block /\ x.block \in Nat /\ x.block >= 1 /\ x.block <= b
  BY <1>0, BlockFacts DEF IsTask, Automatic, Opening, Comes
<1>2. x.block \in Opening
  <2>1. \A e \in 1..b : KindOf(e) # "ACTION"
    BY DEF Automatic, Opening
  <2>2. x.block \in Block /\ \A e \in 1..x.block : e \in 1..b
    BY <1>1, BlockFacts
  <2> QED
    BY <2>1, <2>2 DEF Opening
<1>3. ~Halts(x.block) /\ KindOf(x.block) # "LONG_DELAY"
  <2>1. KindOf(x.block) # "LONG_DELAY"
    BY <1>2
  <2>2. x.block \in 1..x.block /\ x.block \in Block
    BY <1>1, <1>2 DEF Opening
  <2>3. KindOf(x.block) # "ACTION"
    BY <1>2, <2>2 DEF Opening
  <2>4. KindOf(x.block) # "END"
    BY <2>2, BlockFacts DEF Kind
  <2> QED
    BY <2>1, <2>3, <2>4 DEF Halts
<1>4. ASSUME NEW pc \in {"log", "sleep"}, Goto(t, x, pc), x.block < b PROVE Reached(b)'
  <2>1. Move(t, Here(x, pc))
    BY <1>0, <1>4, Gone
  <2>2. tasks'[t].op = "start" /\ tasks'[t].block = x.block
    BY <1>0, <2>1 DEF Move, Here, At, Rec
  <2> QED
    BY <1>4, <2>2 DEF Reached, Comes
<1>5. CASE KindOf(x.block) \in {"NOTIFY", "STATUS"} /\ ExecuteSystemBlock(x.block) /\ Goto(t, x, "log")
  <2>1. CASE x.block < b
    BY <1>4, <1>5, <2>1
  <2>2. CASE x.block = b
    <3>1. performed'[b] = performed[b] + 1 /\ performed[b] \in Nat
      BY <1>0, <1>1, <1>5, <2>2 DEF ExecuteSystemBlock
    <3> QED
      BY <3>1 DEF Reached
  <2> QED
    BY <1>1, <2>1, <2>2
<1>6. CASE KindOf(x.block) \in {"DELAY", "WAIT_FOR"} /\ (Goto(t, x, "sleep") \/ Goto(t, x, "log"))
  <2>1. x.block < b
    BY <1>1, <1>6 DEF Automatic
  <2> QED
    BY <1>4, <1>6, <2>1
<1> QED
  BY <1>0, <1>3, <1>5, <1>6 DEF FromStart, SystemBlockFails

(* What a start does between two blocks leaves those before it.            *)
LEMMA LoggedComes ==
  ASSUME TypeInv, NEW t \in Task, NEW b, Automatic(b), Comes(tasks[t], b), LogFromStart(t) \/ Wake(t)
  PROVE  Reached(b)'
<1> PICK x : x = tasks[t]
  OBVIOUS
<1>0. IsRec(x) /\ IsTask(x) /\ DOMAIN tasks = Task /\ x.op = "start" /\ x.pc \in {"log", "sleep"}
  BY TaskFacts DEF LogFromStart, Wake, Comes
<1>1. b \in Nat /\ x.block \in Nat /\ x.block < b
  BY <1>0, BlockFacts DEF IsTask, Automatic, Opening, Comes
<1>2. CASE LogFromStart(t)
  <2>1. PICK k, c : k = x.order + 1 /\ c = x.block + 1
    OBVIOUS
  <2>2. PICK y : y = [x EXCEPT !.order = k, !.block = c]
    OBVIOUS
  <2>3. y = At(x, x.pc, c, k, x.own) /\ IsRec(y)
    BY <1>0, <2>2, OrderBlock
  <2>4. Goto(t, y, "walk")
    BY <1>2, <2>1, <2>2 DEF LogFromStart
  <2>5. Move(t, Here(y, "walk"))
    BY <1>0, <2>3, <2>4, Gone
  <2>6. tasks'[t].op = "start" /\ tasks'[t].block = c /\ tasks'[t].pc = "walk"
    BY <1>0, <2>3, <2>5 DEF Move, Here, At, Rec
  <2>7. c < b \/ c = b
    BY <1>1, <2>1
  <2> QED
    BY <2>6, <2>7 DEF Reached, Comes
<1>3. CASE Wake(t)
  <2>1. Goto(t, x, "log")
    BY <1>0, <1>3 DEF Wake
  <2>2. Move(t, Here(x, "log"))
    BY <1>0, <2>1, Gone
  <2>3. tasks'[t].op = "start" /\ tasks'[t].block = x.block
    BY <1>0, <2>2 DEF Move, Here, At, Rec
  <2> QED
    BY <1>1, <2>3 DEF Reached, Comes
<1> QED
  BY <1>2, <1>3

(* Executions are counted up, until a reassignment starts from scratch.    *)
LEMMA CountedUp ==
  ASSUME TypeInv, NEW t \in Task, (Turn(t) /\ ~Restarts(t)) \/ Rolls(t)
  PROVE  \A b \in Block : performed'[b] >= performed[b]
<1>0. performed \in [Block -> Nat]
  BY DEF TypeInv
<1>1. ASSUME NEW c, Performs(c) PROVE \A b \in Block : performed'[b] >= performed[b]
  BY <1>0, <1>1 DEF Performs
<1>2. ASSUME UNCHANGED performed PROVE \A b \in Block : performed'[b] >= performed[b]
  BY <1>0, <1>2
<1>3. CASE StartTurn(t) \/ StartLogs(t) \/ Wakes(t) \/ Reads(t)
  BY <1>1, <1>2, <1>3 DEF StartTurn, StartLogs, Wakes, Reads
<1>4. CASE TxTurn(t) \/ TxLogs(t) \/ Leaves(t) \/ Opens(t)
  BY <1>1, <1>2, <1>4 DEF TxTurn, TxLogs, Leaves, Opens
<1>5. CASE Notes(t) \/ ResumesWalk(t) \/ Finds(t) \/ Resolves(t) \/ Commits(t)
  BY <1>2, <1>5 DEF Notes, ResumesWalk, Finds, Resolves, Commits
<1>6. CASE Rolls(t)
  BY <1>1, <1>2, <1>6, RollShape
<1> QED
  BY <1>3, <1>4, <1>5, <1>6 DEF Turn

(* The actions of a start are its own.                                     *)
LEMMA StartActs ==
  ASSUME TypeInv, NEW t \in Task, tasks[t].op = "start",
         \/ Continue(t) \/ Rollback(t) \/ TimeOut(t)
         \/ AdvanceStep(t) \/ SubmitPosition(t) \/ HandleExpiredWaits(t)
         \/ UpdateStatus(t) \/ Assign(t) \/ Reassign(t)
  PROVE  FromStart(t) \/ LogFromStart(t) \/ Wake(t)
<1>1. tasks[t] # Idle /\ tasks[t].pc \in {"walk", "sleep", "log"}
  BY IdleIsTask, TaskFacts DEF Does, InTx, Resumes
<1>2. ~(AdvanceStep(t) \/ SubmitPosition(t) \/ HandleExpiredWaits(t) \/ UpdateStatus(t) \/ Assign(t) \/ Reassign(t))
  BY <1>1 DEF AdvanceStep, SubmitPosition, HandleExpiredWaits, UpdateStatus, Assign, Reassign
<1>3. ~(Timer(t) \/ LogTimer(t) \/ WalkBlocks(t) \/ InsertLog(t) \/ Abort(t) \/ CommitLogs(t))
  BY <1>1 DEF Timer, LogTimer, WalkBlocks, InTransaction, InsertLog, Abort, CommitLogs
<1>6. ~(Rollback(t) \/ TimeOut(t) \/ FinishLate(t))
  BY <1>1 DEF Rollback, TimeOut, FinishLate, InTransaction
<1>4. ~(ReadProgress(t) \/ Conclude(t) \/ CancelWaits(t) \/ CheckEarlyTrigger(t) \/ ResolveWait(t) \/ NoMoreWaits(t))
  BY <1>1 DEF ReadProgress, Conclude, CancelWaits, CheckEarlyTrigger, ResolveWait, NoMoreWaits
<1>5. ~(LogWaitResolution(t) \/ ResumeFromBlock(t))
  BY <1>1 DEF LogWaitResolution, ResumeFromBlock
<1> QED
  BY <1>2, <1>3, <1>4, <1>5, <1>6 DEF Continue

LEMMA ReachingStep ==
  ASSUME TypeInv, Reaching, [Next]_vars, MayFail = FALSE, \A c \in Opening : KindOf(c) # "LONG_DELAY"
  PROVE  Reaching'
<1>1. ASSUME UNCHANGED <<tasks, performed, crashes>> PROVE Reaching'
  BY <1>1 DEF Reaching, Reached
<1>2. CASE Expire \/ UNCHANGED vars
  BY <1>1, <1>2 DEF Expire, vars
<1>3. CASE Crash
  <2>1. crashes \in Nat /\ crashes' = crashes + 1
    BY <1>3, BoundAssumption DEF TypeInv, Crash
  <2>2. crashes' # 0
    BY <2>1
  <2> QED
    BY <2>2 DEF Reaching
<1>4. ASSUME NEW t \in Task,
             \/ Continue(t) \/ Rollback(t) \/ TimeOut(t)
             \/ AdvanceStep(t) \/ SubmitPosition(t) \/ HandleExpiredWaits(t)
             \/ UpdateStatus(t) \/ Assign(t) \/ Reassign(t)
      PROVE  Reaching'
  <2>0. Turn(t) \/ Rolls(t)
    BY <1>4, Turning
  <2>1. crashes' = crashes /\ performed' \in [Block -> Nat]
    BY <2>0, CountTyped, TypeRolls, RollShape DEF TypeInv
  <2> SUFFICES ASSUME crashes = 0, NEW b, Automatic(b) PROVE Reached(b)'
    BY <2>1 DEF Reaching
  <2>2. b \in Block /\ Reached(b)
    BY DEF Automatic, Opening, Reaching
  <2>3. CASE Restarts(t)
    <3>1. tasks'[t] = Rec("start", "walk", 1, 0, <<>>, FALSE, 0, {})
      BY <2>3 DEF Restarts, Move
    <3>2. tasks'[t].op = "start" /\ tasks'[t].block = 1 /\ tasks'[t].pc = "walk"
      BY <3>1 DEF Rec
    <3>3. 1 < b \/ 1 = b
      BY <2>2, BlockFacts
    <3> QED
      BY <3>2, <3>3 DEF Reached, Comes
  <2>4. CASE ~Restarts(t) /\ performed[b] > 0
    <3>1. performed'[b] >= performed[b] /\ performed[b] \in Nat /\ performed'[b] \in Nat
      BY <2>0, <2>1, <2>2, <2>4, CountedUp DEF TypeInv
    <3> QED
      BY <2>4, <3>1 DEF Reached
  <2>5. ASSUME NEW u \in Task, Comes(tasks[u], b) PROVE Reached(b)'
    <3>1. CASE u = t
      <4>1. FromStart(t) \/ LogFromStart(t) \/ Wake(t)
        BY <1>4, <2>5, <3>1, StartActs DEF Comes
      <4> QED
        BY <2>5, <3>1, <4>1, StartComes, LoggedComes
    <3>2. CASE u # t
      <4>1. tasks'[u] = tasks[u]
        BY <2>0, <3>2, Frame, RollShape
      <4> QED
        BY <2>5, <4>1 DEF Reached
    <3> QED
      BY <3>1, <3>2
  <2> QED
    BY <2>2, <2>3, <2>4, <2>5 DEF Reached
<1> QED
  BY <1>2, <1>3, <1>4 DEF Next

LEMMA ReachingInit ==
  ASSUME Init
  PROVE  Reaching
<1>1. PICK t \in Task : tasks[t] = Start
  BY DEF Init
<1>2. Start.op = "start" /\ Start.pc = "walk" /\ Start.block = 1
  BY Starting
<1>3. ASSUME NEW b, Automatic(b) PROVE Comes(tasks[t], b)
  <2>1. 1 < b \/ 1 = b
    BY <1>3, BlockFacts DEF Automatic, Opening
  <2> QED
    BY <1>1, <1>2, <2>1 DEF Comes
<1> QED
  BY <1>3 DEF Reaching, Reached

(* As long as the process does not restart and no write fails, a workflow  *)
(* whose opening has no delay left to a timer executes every system block  *)
(* before its first action, however the technician's advances, events and  *)
(* reassignments run beside it, and take the step orders it counts on.     *)
THEOREM DelaysContinue ==
  ASSUME MayFail = FALSE, \A c \in Opening : KindOf(c) # "LONG_DELAY"
  PROVE  Spec => [](crashes = 0 => DelayContinues)
<1>1. Init => TypeInv /\ Reaching
  BY TypeInit, ReachingInit
<1>2. TypeInv /\ Reaching /\ [Next]_vars => (TypeInv /\ Reaching)'
  <2>1. ASSUME TypeInv, Reaching, [Next]_vars PROVE TypeInv' /\ Reaching'
    BY <2>1, TypeStep, ReachingStep
  <2> QED
    BY <2>1
<1>3. TypeInv /\ Reaching => (crashes = 0 => DelayContinues)
  <2> SUFFICES ASSUME Reaching, crashes = 0, Quiet,
                      NEW b \in Block, \A c \in 1..b : KindOf(c) # "ACTION", KindOf(b) \in {"NOTIFY", "STATUS"}
               PROVE  performed[b] > 0
    BY DEF DelayContinues
  <2>1. Reached(b)
    BY DEF Reaching, Automatic, Opening
  <2>2. \A t \in Task : tasks[t].op # "start"
    BY IdleIsTask DEF Quiet
  <2> QED
    BY <2>1, <2>2 DEF Reached, Comes
<1> QED
  BY <1>1, <1>2, <1>3, PTL DEF Spec
=============================================================================
