---------------------------- MODULE Subscriptions ----------------------------
(***************************************************************************)
(* The subscription of one tenant (not the master): its plan, its add-ons, *)
(* the limit of its company, and the calls and webhooks of the payment     *)
(* gateway, Asaas.  No handler of asaas.service.ts uses a transaction: a   *)
(* handler reads, decides, and then writes one row, or calls the gateway,  *)
(* at a time ("todo"), with other handlers in between.                     *)
(***************************************************************************)
EXTENDS Integers, FiniteSets, SequencesExt

CONSTANTS Plan,        \* plans: the number stands for the price and for maxOsPerMonth
          AddOn,       \* the orders one add-on gives (osQuantity)
          Covered,     \* whether credit can cover an upgrade: a set of Booleans
          Request,     \* requests and webhooks in flight
          Handlers,    \* the handlers this instance exercises
          Together,    \* bound: handlers in flight at once, with the jobs
          MaxCycles,   \* bound: monthly charges of the gateway
          MaxRequests  \* bound: requests of the tenant

ASSUME PlanAssumption == Plan \subseteq Nat \ {0} /\ AddOn \in Nat \ {0} /\ Covered \subseteq BOOLEAN

(* The daily jobs, which do not overlap themselves.                        *)
Cron == {"checkOverdueSubscriptions", "applyPendingDowngrades", "expireAddOnPurchases"}

VARIABLES db,     \* the tables: subs, tenant, companies (their limits), purchases
          asaas,  \* the gateway: its subscriptions (alive?), bills, webhooks under way
          task,   \* the handlers in flight, of requests and of jobs
          begun   \* how many requests the tenant has made

vars == <<db, asaas, task, begun>>

----------------------------------------------------------------------------
(* Rows *)

None == 0

(* pending, due: pendingPlanId and whether pendingPlanAt has passed; ext:  *)
(* asaasSubscriptionId; overdue: overdueAt, "late" after the grace days.   *)
Subscription(status, plan, ext) ==
  [status |-> status, plan |-> plan, pending |-> None, due |-> FALSE, ext |-> ext, overdue |-> "no"]

Purchase(sub) == [status |-> "PENDING", sub |-> sub, due |-> FALSE]

(* of: the gateway's subscription, ours, or the purchase that is charged.  *)
Bill(for, of, plan) == [for |-> for, of |-> of, plan |-> plan, status |-> "open"]

Message(event, of) == [event |-> event, of |-> of]

Current == {i \in DOMAIN db.subs : db.subs[i].status \in {"ACTIVE", "PAST_DUE"}}
ActiveSubs == {i \in DOMAIN db.subs : db.subs[i].status = "ACTIVE"}
Latest(I) == CHOOSE i \in I : \A j \in I : j <= i

----------------------------------------------------------------------------
(* Writes, in the order a handler makes them.  soft: how many of them are  *)
(* given up, with no error, when this one fails inside its try block.      *)

SetSub(i, set) == [kind |-> "sub", i |-> i, set |-> set, soft |-> 0]
SetTenant(set) == [kind |-> "tenant", set |-> set, soft |-> 0]
SetPurchase(p, set) == [kind |-> "purchase", i |-> p, set |-> set, soft |-> 0]
AddSub(status, plan) == [kind |-> "newSub", row |-> Subscription(status, plan, None), soft |-> 0]
AddPurchase(sub) == [kind |-> "newPurchase", row |-> Purchase(sub), soft |-> 0]
LinkNew == [kind |-> "link", soft |-> 1]
SetLimit(n) == [kind |-> "limit", to |-> n, soft |-> 1]
Credit(n, soft) == [kind |-> "credit", by |-> n, soft |-> soft]
Floor == [kind |-> "floor", soft |-> 1]
Below(plan) == [kind |-> "below", to |-> plan, soft |-> 1]
ActivateFirst == [kind |-> "activate", soft |-> 0]
Onboard == [kind |-> "onboard", soft |-> 0]
AddCompany(n) == [kind |-> "newCompany", limit |-> n, soft |-> 0]
SuspendAlone(i) == [kind |-> "suspendAlone", i |-> i, soft |-> 0]
CreateExt == [kind |-> "createExt", soft |-> 2]
CreateExtOrThrow == [kind |-> "createExt", soft |-> 0]
CancelExt(x) == [kind |-> "cancelExt", ext |-> x, soft |-> 1]
Charge(for, of, plan) == [kind |-> "charge", bill |-> Bill(for, of, plan), soft |-> 0]

(* A row after the write of some of its columns.                           *)
Put(row, set) == [column \in DOMAIN row |-> IF column \in DOMAIN set THEN set[column] ELSE row[column]]

(* The plan of the tenant, and the limit of its company set to the plan's. *)
MovePlan(plan) == <<SetTenant([plan |-> plan]), SetLimit(plan)>>

----------------------------------------------------------------------------
(* Handlers in flight.  row, ext: the row, and the gateway's subscription, *)
(* that the handler has created.  For the properties only, on: what it is  *)
(* about, and stale: whether another one has changed the tenant or a       *)
(* subscription since it read them.                                        *)

Idle == [op |-> "idle", todo |-> <<>>, row |-> None, ext |-> None, on |-> None, stale |-> FALSE]
Busy(t) == task[t] # Idle
Running(op, todo, on) == [Idle EXCEPT !.op = op, !.todo = todo, !.on = on]

Launch(t, op, todo, on) ==
  /\ ~Busy(t)
  /\ Cardinality({u \in DOMAIN task : Busy(u)}) < Together
  /\ task' = [task EXCEPT ![t] = IF todo = <<>> THEN Idle ELSE Running(op, todo, on)]
  /\ UNCHANGED db

Ask(t, op, todo, on) ==
  /\ op \in Handlers
  /\ begun < MaxRequests /\ begun' = begun + 1
  /\ Launch(t, op, todo, on)
  /\ UNCHANGED asaas

(* A webhook is answered 200 whatever happens, and never comes again.      *)
Receive(t, m, op, todo, on) ==
  /\ m \in asaas.post
  /\ Launch(t, op, todo, on)
  /\ asaas' = [asaas EXCEPT !.post = @ \ {m}]
  /\ UNCHANGED begun

Job(op, todo) == op \in Handlers /\ todo # <<>> /\ Launch(op, op, todo, None) /\ UNCHANGED <<asaas, begun>>

Todo(t) == task[t].todo
Continue(t, k) == IF k = <<>> THEN Idle ELSE [task[t] EXCEPT !.todo = k]

(* The next write of t, done on the tables; and then k is left to do.      *)
Save(t, tables, rest) ==
  LET touched == tables.subs # db.subs \/ tables.tenant # db.tenant
  IN /\ db' = tables
     /\ task' = [u \in DOMAIN task |-> IF u = t THEN rest
                                     ELSE IF Busy(u) THEN [task[u] EXCEPT !.stale = @ \/ touched]
                                     ELSE Idle]
     /\ UNCHANGED <<asaas, begun>>
Write(t, tables, k) == Save(t, tables, Continue(t, k))

(* A read in the middle of a handler, and then k is left to do.            *)
Look(t, k) == Save(t, db, [Continue(t, k) EXCEPT !.stale = FALSE])

Has(t, kind) == Todo(t) # <<>> /\ Head(Todo(t)).kind = kind

WriteSub(t) ==
  LET w == Head(Todo(t))
  IN Has(t, "sub") /\ Write(t, [db EXCEPT !.subs[w.i] = Put(@, w.set)], Tail(Todo(t)))

WriteTenant(t) ==
  Has(t, "tenant") /\ Write(t, [db EXCEPT !.tenant = Put(@, Head(Todo(t)).set)], Tail(Todo(t)))

WritePurchase(t) ==
  LET w == Head(Todo(t))
      p == IF w.i = None THEN task[t].row ELSE w.i
  IN Has(t, "purchase") /\ Write(t, [db EXCEPT !.purchases[p] = Put(@, w.set)], Tail(Todo(t)))

InsertRow(t) ==
  LET w == Head(Todo(t))
      table == IF w.kind = "newSub" THEN "subs" ELSE "purchases"
      row == IF w.kind = "newSub" THEN [w.row EXCEPT !.ext = task[t].ext] ELSE w.row
  IN /\ Has(t, "newSub") \/ Has(t, "newPurchase")
     /\ Save(t, [db EXCEPT ![table] = Append(@, row)],
             [Continue(t, Tail(Todo(t))) EXCEPT !.row = Len(db[table]) + 1])

Link(t) ==
  Has(t, "link") /\ Write(t, [db EXCEPT !.subs[task[t].row].ext = task[t].ext], Tail(Todo(t)))

(* The limit of the company, where the tenant has one: set to the plan's,  *)
(* increased or decreased by an add-on.                                    *)
WithLimit(n) == [db EXCEPT !.companies = IF @ = <<>> THEN @ ELSE [@ EXCEPT ![1] = n]]

WriteLimit(t) ==
  LET w == Head(Todo(t))
  IN \/ Has(t, "limit") /\ Write(t, WithLimit(w.to), Tail(Todo(t)))
     \/ Has(t, "credit") /\ Write(t, WithLimit(db.companies[1] + w.by), Tail(Todo(t)))

(* Mutant: the floor is zero.                                              *)
FloorAtZero(t) == Has(t, "floor") /\ Look(t, Tail(Todo(t)))

(* "limits never go below plan baseline": the plan is read, then the       *)
(* company, and then the plan's limit is written if the company's was      *)
(* below.                                                                  *)
ReadFloor(t) ==
  Has(t, "floor") /\ Look(t, <<Below(db.tenant.plan)>> \o Tail(Todo(t)))

CheckFloor(t) ==
  /\ Has(t, "below")
  /\ LET plan == Head(Todo(t)).to
         low == db.companies # <<>> /\ db.companies[1] < plan
     IN Write(t, db, (IF low THEN <<SetLimit(plan)>> ELSE <<>>) \o Tail(Todo(t)))

(* Mutants: every webhook that found the tenant inactive activates it; a   *)
(* tenant is suspended whatever it has left.                               *)
ActivateEach(t) == Has(t, "activate") /\ Write(t, [db EXCEPT !.tenant.status = "ACTIVE"], Tail(Todo(t)))
SuspendAlways(t) ==
  Has(t, "suspendAlone") /\ Look(t, <<SetTenant([status |-> "SUSPENDED"])>> \o Tail(Todo(t)))

(* The first of concurrent webhooks to find the tenant not active makes it *)
(* active, and goes on to activate and to onboard; the others skip both.   *)
Activate(t) ==
  /\ Has(t, "activate")
  /\ \/ /\ db.tenant.status # "ACTIVE"
        /\ Write(t, [db EXCEPT !.tenant.status = "ACTIVE"], Tail(Todo(t)))
     \/ /\ db.tenant.status = "ACTIVE"
        /\ Write(t, db, SubSeq(Todo(t), 4, Len(Todo(t))))

ReadOnboard(t) ==
  /\ Has(t, "onboard")
  /\ Look(t, (IF db.companies = <<>> THEN <<AddCompany(db.tenant.plan)>> ELSE <<>>) \o Tail(Todo(t)))

InsertCompany(t) ==
  Has(t, "newCompany")
  /\ Write(t, [db EXCEPT !.companies = Append(@, Head(Todo(t)).limit)], Tail(Todo(t)))

(* The tenant is suspended if it has no other active subscription.         *)
ReadOthers(t) ==
  /\ Has(t, "suspendAlone")
  /\ LET alone == ActiveSubs \subseteq {Head(Todo(t)).i}
     IN Look(t, (IF alone THEN <<SetTenant([status |-> "SUSPENDED"])>> ELSE <<>>) \o Tail(Todo(t)))

(* A call of the gateway, which sends its webhooks of it.                  *)
CallGateway(t, gateway) ==
  /\ asaas' = gateway
  /\ UNCHANGED <<db, begun>>

OpenExt(t) ==
  /\ Has(t, "createExt")
  /\ task' = [task EXCEPT ![t].todo = Tail(@), ![t].ext = Len(asaas.subs) + 1]
  /\ CallGateway(t, [asaas EXCEPT !.subs = Append(@, TRUE),
                                  !.post = @ \cup {Message("SUBSCRIPTION_CREATED", Len(asaas.subs) + 1)}])

CloseExt(t) ==
  LET x == Head(Todo(t)).ext
  IN /\ Has(t, "cancelExt")
     /\ task' = [task EXCEPT ![t].todo = Tail(@)]
     /\ CallGateway(t, IF asaas.subs[x]
                       THEN [asaas EXCEPT !.subs[x] = FALSE,
                                          !.post = @ \cup {Message("SUBSCRIPTION_DELETED", x)}]
                       ELSE asaas)

OpenBill(t) ==
  LET b == Head(Todo(t)).bill
  IN /\ Has(t, "charge")
     /\ task' = [task EXCEPT ![t] = Continue(t, Tail(Todo(t)))]
     /\ CallGateway(t, [asaas EXCEPT !.bills = Append(@, IF b.of = None THEN [b EXCEPT !.of = task[t].row] ELSE b)])

(* A write or a call that fails: with it the rest of its try block is      *)
(* given up, or without one the rest of the handler.                       *)
Fail(t) ==
  /\ Todo(t) # <<>>
  /\ LET soft == Head(Todo(t)).soft
     IN task' = [task EXCEPT ![t] = IF soft = 0 THEN Idle
                                    ELSE Continue(t, SubSeq(Todo(t), soft + 1, Len(Todo(t))))]
  /\ UNCHANGED <<db, asaas, begun>>

Step(t) ==
  \/ WriteSub(t) \/ WriteTenant(t) \/ WritePurchase(t) \/ InsertRow(t) \/ Link(t)
  \/ WriteLimit(t) \/ ReadFloor(t) \/ CheckFloor(t) \/ Activate(t) \/ ReadOnboard(t)
  \/ InsertCompany(t) \/ ReadOthers(t) \/ OpenExt(t) \/ CloseExt(t) \/ OpenBill(t)
=============================================================================
