------------------------------- MODULE Billing -------------------------------
(***************************************************************************)
(* What happens to the subscription of a tenant: its own requests, the     *)
(* daily jobs, the payment gateway, and the webhooks the gateway sends, in *)
(* any order and one or two of each payment.                               *)
(***************************************************************************)
EXTENDS Subscriptions, FiniteSetsExt

CONSTANT FirstStates   \* what a behaviour may start with: [db, asaas]

----------------------------------------------------------------------------
(* The tables and the gateway: what their rows hold.                       *)

SubRow == [status : {"PENDING", "ACTIVE", "PAST_DUE", "CANCELLED", "SUSPENDED"}, plan : Plan,
           pending : Plan \cup {None}, due : BOOLEAN, ext : Nat, overdue : {"no", "recent", "late"}]
TenantRow == [status : {"PENDING_VERIFICATION", "PENDING_PAYMENT", "ACTIVE", "BLOCKED", "SUSPENDED"}, plan : Plan]
PurchaseRow == [status : {"PENDING", "PAID", "EXPIRED"}, sub : Nat, due : BOOLEAN]
Tables == [subs : Seq(SubRow), tenant : TenantRow, companies : Seq(Int), purchases : Seq(PurchaseRow)]

OfPayment == {"PAYMENT_CONFIRMED", "PAYMENT_RECEIVED", "PAYMENT_OVERDUE"}
OfSubscription == {"SUBSCRIPTION_CREATED", "SUBSCRIPTION_DELETED"}
BillRow == [for : {"cycle", "upgrade", "addon"}, of : Nat, plan : Plan \cup {None}, status : {"open", "paid", "missed"}]
GatewayRows == [subs : Seq(BOOLEAN), bills : Seq(BillRow), post : SUBSET [event : OfPayment \cup OfSubscription, of : Nat]]

(* Types, of the tables d and the gateway g: a date of a later plan        *)
(* belongs to a plan, a subscription past due has the date it is late      *)
(* from, and rows refer to rows that exist.                                *)
SubTyped(s, g) ==
  /\ s.due => s.pending # None
  /\ s.status = "PAST_DUE" => s.overdue # "no"
  /\ s.ext \in 0 .. Len(g.subs)
BillTyped(b, d, g) ==
  /\ b.for = "cycle" => b.of \in DOMAIN g.subs
  /\ b.for = "upgrade" => b.of \in DOMAIN d.subs /\ b.plan \in Plan
  /\ b.for = "addon" => b.of \in DOMAIN d.purchases
MessageTyped(m, g) ==
  /\ m.event \in OfPayment => m.of \in DOMAIN g.bills
  /\ m.event \in OfSubscription => m.of \in DOMAIN g.subs
Typed(d, g) ==
  /\ d \in Tables /\ g \in GatewayRows
  /\ \A i \in DOMAIN d.subs : SubTyped(d.subs[i], g)
  /\ \A p \in DOMAIN d.purchases : d.purchases[p].sub \in DOMAIN d.subs
  /\ \A b \in DOMAIN g.bills : BillTyped(g.bills[b], d, g)
  /\ \A m \in g.post : MessageTyped(m, g)

(* A tenant before its requests: it has one subscription that is not       *)
(* cancelled at most, which the gateway charges if it charges any; it has  *)
(* one company at most, with the limit of its plan and of the add-ons it   *)
(* has paid; and it is active if its subscription is.                      *)
Sound(d, g) ==
  /\ Typed(d, g)
  /\ \A i, j \in DOMAIN d.subs : d.subs[i].status # "CANCELLED" /\ d.subs[j].status # "CANCELLED" => i = j
  /\ \A i \in DOMAIN d.subs : d.subs[i].status = "ACTIVE" => d.tenant.status = "ACTIVE"
  /\ \A x \in DOMAIN g.subs : g.subs[x] =>
       \E i \in DOMAIN d.subs : d.subs[i].ext = x /\ d.subs[i].status # "CANCELLED"
  /\ \A m \in g.post : m.event = "SUBSCRIPTION_DELETED" => ~g.subs[m.of]
  /\ Len(d.companies) <= 1
  /\ \A c \in DOMAIN d.companies :
       d.companies[c] \in d.tenant.plan ..
         d.tenant.plan + AddOn * Cardinality({p \in DOMAIN d.purchases : d.purchases[p].status = "PAID"})

ASSUME FirstStatesAssumption == \A s \in FirstStates : Sound(s.db, s.asaas)

ASSUME RequestAssumption == Request \cap Cron = {}

VARIABLE slips   \* for the properties only: what has happened that explains a wrong state

billingVars == <<vars, slips>>

----------------------------------------------------------------------------
(* Requests of the tenant *)

(* subscribe and createSignupCheckout.                                     *)
Subscribe(t) ==
  /\ ~(db.tenant.status = "ACTIVE" /\ ActiveSubs # {})
  /\ Ask(t, "subscribe",
       <<CreateExtOrThrow, AddSub("PENDING", db.tenant.plan), SetTenant([status |-> "PENDING_PAYMENT"])>>, None)

(* Mutant: the old subscription goes on at the gateway.                    *)
ApplyUpgradeBeside(i, plan) ==
  <<SetSub(i, [status |-> "CANCELLED", pending |-> None, due |-> FALSE]), AddSub("ACTIVE", plan), CreateExt, LinkNew>>
  \o MovePlan(plan)

(* applyUpgrade of subscription i: the old one ends at the gateway and     *)
(* here, the new one starts here and at the gateway.                       *)
ApplyUpgrade(i, plan) ==
     (IF db.subs[i].ext = None THEN <<>> ELSE <<CancelExt(db.subs[i].ext)>>)
  \o <<SetSub(i, [status |-> "CANCELLED", pending |-> None, due |-> FALSE]),
       AddSub("ACTIVE", plan), CreateExt, LinkNew>>
  \o MovePlan(plan)

(* createUpgradeCheckout: pendingPlanAt is the present.  The upgrade is    *)
(* charged, or applied at once where the credit covers it.                 *)
Upgrade(t, plan, covered) ==
  /\ Current # {}
  /\ LET i == Latest(Current)
     IN /\ plan > db.subs[i].plan
        /\ Ask(t, "upgrade",
             <<SetSub(i, [pending |-> plan, due |-> TRUE])>>
             \o (IF covered THEN ApplyUpgrade(i, plan) ELSE <<Charge("upgrade", i, plan)>>), i)

Downgrade(t, plan) ==
  /\ Current # {}
  /\ LET i == Latest(Current)
     IN /\ plan < db.subs[i].plan
        /\ Ask(t, "downgrade", <<SetSub(i, [pending |-> plan, due |-> FALSE])>>, i)

(* Mutant: the date of the plan that is given up stays.                    *)
CancelDowngradeKeepingDate(t, i) ==
  /\ i \in Current /\ db.subs[i].pending # None
  /\ Ask(t, "cancelDowngrade", <<SetSub(i, [pending |-> None])>>, i)

CancelDowngrade(t, i) ==
  /\ i \in Current /\ db.subs[i].pending # None
  /\ Ask(t, "cancelDowngrade", <<SetSub(i, [pending |-> None, due |-> FALSE])>>, i)

(* createAddOnCheckout: a free add-on is credited at once.                 *)
BuyAddOn(t, i, free) ==
  /\ i \in ActiveSubs
  /\ Ask(t, "buyAddOn",
       <<AddPurchase(i)>> \o IF free THEN <<SetPurchase(None, [status |-> "PAID"]), Credit(AddOn, 1)>>
                                     ELSE <<Charge("addon", None, None)>>, i)

----------------------------------------------------------------------------
(* Webhooks of payments: handlePaymentWebhook *)

Paid(m) == m.event \in {"PAYMENT_CONFIRMED", "PAYMENT_RECEIVED"}
BillOf(m) == asaas.bills[m.of]
Linked(x) == {i \in DOMAIN db.subs : db.subs[i].ext = x}

(* The upgrade is applied whatever has become of the subscription.         *)
UpgradePaid(t, m) ==
  /\ Paid(m) /\ BillOf(m).for = "upgrade"
  /\ Receive(t, m, "upgradePaid", ApplyUpgrade(BillOf(m).of, BillOf(m).plan), BillOf(m).of)

(* The purchase the payment names if it is pending, or else the oldest     *)
(* pending one of an active subscription of the customer.                  *)
Pending(p) == db.purchases[p].status = "PENDING"
Oldest(P) == CHOOSE p \in P : \A q \in P : p <= q
PendingOf(i) == {p \in DOMAIN db.purchases : Pending(p) /\ db.purchases[p].sub = i}
Confirm(p) == <<SetPurchase(p, [status |-> "PAID"]), Credit(AddOn, 1)>>

AddOnPaid(t, m) ==
  LET named == BillOf(m).of
  IN /\ Paid(m) /\ BillOf(m).for = "addon"
     /\ \/ Pending(named) /\ Receive(t, m, "addOnPaid", Confirm(named), named)
        \/ /\ ~Pending(named)
           /\ \/ /\ ActiveSubs = {}
                 /\ Receive(t, m, "addOnPaid", <<>>, None)
              \/ \E i \in ActiveSubs :
                   IF PendingOf(i) = {} THEN Receive(t, m, "addOnPaid", <<>>, None)
                   ELSE Receive(t, m, "addOnPaid", Confirm(Oldest(PendingOf(i))), Oldest(PendingOf(i)))

(* A payment of the gateway's subscription makes ours active, and with it  *)
(* the tenant; a pending plan is applied, whether it is due or not.        *)
CyclePaid(t, m) ==
  /\ Paid(m) /\ BillOf(m).for = "cycle"
  /\ \/ Linked(BillOf(m).of) = {} /\ Receive(t, m, "cyclePaid", <<>>, None)
     \/ \E i \in Linked(BillOf(m).of) :
          LET s == db.subs[i]
              moves == s.pending # None
              plan == IF moves THEN s.pending ELSE s.plan
          IN Receive(t, m, "cyclePaid",
                  (IF db.tenant.status = "ACTIVE" THEN <<>>
                   ELSE <<ActivateFirst, SetTenant([status |-> "ACTIVE"]), Onboard>>)
               \o (IF moves THEN MovePlan(plan) ELSE <<>>)
               \o <<SetSub(i, IF moves THEN [status |-> "ACTIVE", overdue |-> "no",
                                            plan |-> plan, pending |-> None, due |-> FALSE]
                              ELSE [status |-> "ACTIVE", overdue |-> "no"])>>, i)

CycleOverdue(t, m) ==
  /\ m.event = "PAYMENT_OVERDUE"
  /\ \/ Linked(BillOf(m).of) = {} /\ Receive(t, m, "cycleOverdue", <<>>, None)
     \/ \E i \in Linked(BillOf(m).of) :
          LET since == db.subs[i].overdue
          IN Receive(t, m, "cycleOverdue",
               <<SetSub(i, [status |-> "PAST_DUE", overdue |-> IF since = "no" THEN "recent" ELSE since])>>, i)

----------------------------------------------------------------------------
(* Webhooks of subscriptions: handleSubscriptionWebhook *)

ExtCreated(t, m) ==
  /\ m.event = "SUBSCRIPTION_CREATED"
  /\ LET unlinked == {i \in DOMAIN db.subs : db.subs[i].ext = None}
     IN Receive(t, m, "extCreated",
          IF unlinked = {} THEN <<>> ELSE <<SetSub(Latest(unlinked), [ext |-> m.of])>>, None)

ExtDeleted(t, m) ==
  /\ m.event = "SUBSCRIPTION_DELETED"
  /\ \/ Linked(m.of) = {} /\ Receive(t, m, "extDeleted", <<>>, None)
     \/ \E i \in Linked(m.of) :
          Receive(t, m, "extDeleted", <<SetSub(i, [status |-> "CANCELLED"]), SuspendAlone(i)>>, i)

----------------------------------------------------------------------------
(* Daily jobs *)

(* A job writes for each row it has found, in the order the database gives *)
(* them.                                                                   *)
Each(order, todo) == FlattenSeq([k \in DOMAIN order |-> todo[order[k]]])

(* Tenants seven days late are blocked, unless they are already.           *)
Late == {i \in DOMAIN db.subs : db.subs[i].status = "PAST_DUE" /\ db.subs[i].overdue = "late"}

(* Mutant: of active tenants only.                                         *)
CheckOverdueOfActive ==
  /\ db.tenant.status = "ACTIVE"
  /\ \E order \in SetToSeqs(Late) : Job("checkOverdueSubscriptions",
       Each(order, [i \in Late |-> <<SetTenant([status |-> "BLOCKED"]), SetSub(i, [status |-> "SUSPENDED"])>>]))

CheckOverdue ==
  /\ db.tenant.status # "BLOCKED"
  /\ \E order \in SetToSeqs(Late) : Job("checkOverdueSubscriptions",
       Each(order, [i \in Late |-> <<SetTenant([status |-> "BLOCKED"]), SetSub(i, [status |-> "SUSPENDED"])>>]))

PlansDue == {i \in Current : db.subs[i].pending # None /\ db.subs[i].due}

ApplyPending ==
  \E order \in SetToSeqs(PlansDue) : Job("applyPendingDowngrades",
    Each(order, [i \in PlansDue |->
         <<SetSub(i, [plan |-> db.subs[i].pending, pending |-> None, due |-> FALSE]),
           SetTenant([plan |-> db.subs[i].pending])>> \o MovePlan(db.subs[i].pending)]))

PaidAddOns == {p \in DOMAIN db.purchases : db.purchases[p].status = "PAID"}
AddOnsDue == {p \in PaidAddOns : db.purchases[p].due}

ExpireAddOns ==
  \E order \in SetToSeqs(AddOnsDue) : Job("expireAddOnPurchases",
    Each(order, [p \in AddOnsDue |-> <<Credit(-AddOn, 2), Floor, SetPurchase(p, [status |-> "EXPIRED"])>>]))

----------------------------------------------------------------------------
(* The gateway and its customer, outside the code; and time *)

Cycles == {b \in DOMAIN asaas.bills : asaas.bills[b].for = "cycle"}

BillCycle(x) ==
  /\ asaas.subs[x] /\ Cardinality(Cycles) < MaxCycles
  /\ \A b \in Cycles : asaas.bills[b].of = x => asaas.bills[b].status = "paid"
  /\ asaas' = [asaas EXCEPT !.bills = Append(@, Bill("cycle", x, None))]

Payable(b) == asaas.bills[b].status # "paid" /\ (asaas.bills[b].for = "cycle" => asaas.subs[asaas.bills[b].of])

(* A card is confirmed and then received, other payments only received.    *)
PayBill(b, events) ==
  /\ Payable(b)
  /\ asaas' = [asaas EXCEPT !.bills[b].status = "paid", !.post = @ \cup {Message(e, b) : e \in events}]

MissBill(b) ==
  /\ Payable(b) /\ asaas.bills[b].for = "cycle" /\ asaas.bills[b].status = "open"
  /\ asaas' = [asaas EXCEPT !.bills[b].status = "missed", !.post = @ \cup {Message("PAYMENT_OVERDUE", b)}]

(* The gateway's panel can end a subscription, too.                        *)
EndExt(x) ==
  /\ asaas.subs[x]
  /\ asaas' = [asaas EXCEPT !.subs[x] = FALSE, !.post = @ \cup {Message("SUBSCRIPTION_DELETED", x)}]

Gateway ==
  /\ \/ \E x \in DOMAIN asaas.subs : BillCycle(x) \/ EndExt(x)
     \/ \E b \in DOMAIN asaas.bills :
          \/ \E events \in {{"PAYMENT_RECEIVED"}, {"PAYMENT_CONFIRMED", "PAYMENT_RECEIVED"}} : PayBill(b, events)
          \/ MissBill(b)
  /\ UNCHANGED <<db, task, begun>>

(* The grace days pass; a date set for a later plan, the end of an add-on. *)
GraceEnds(i) == db.subs[i].overdue = "recent" /\ db' = [db EXCEPT !.subs[i].overdue = "late"]
Time ==
  /\ \/ \E i \in DOMAIN db.subs :
          \/ GraceEnds(i)
          \/ db.subs[i].pending # None /\ ~db.subs[i].due /\ db' = [db EXCEPT !.subs[i].due = TRUE]
     \/ \E p \in PaidAddOns : ~db.purchases[p].due /\ db' = [db EXCEPT !.purchases[p].due = TRUE]
  /\ UNCHANGED <<asaas, task, begun>>

----------------------------------------------------------------------------
Handle(t) ==
  \/ Subscribe(t)
  \/ \E plan \in Plan : Downgrade(t, plan) \/ \E covered \in Covered : Upgrade(t, plan, covered)
  \/ \E i \in DOMAIN db.subs : CancelDowngrade(t, i) \/ \E free \in BOOLEAN : BuyAddOn(t, i, free)
  \/ \E m \in asaas.post : \/ UpgradePaid(t, m) \/ AddOnPaid(t, m) \/ CyclePaid(t, m) \/ CycleOverdue(t, m)
                           \/ ExtCreated(t, m) \/ ExtDeleted(t, m)

(* What the code lets happen to a subscription that is wrong, or passes    *)
(* for right only until the next step.  Slip names it as it happens.       *)

Slot == Request \cup Cron
Begins(op) == {t \in Slot : ~Busy(t) /\ task'[t].op = op}
Doing(todo, kind) == \E k \in DOMAIN todo : todo[k].kind = kind
Upgrades(t) == ~Busy(t) /\ task'[t].op \in {"upgrade", "upgradePaid"} /\ Doing(task'[t].todo, "newSub")

(* A webhook of the same payment, or of another one of the same            *)
(* subscription, applies the upgrade once more.                            *)
UpgradedAgain == \E t \in Slot :
  /\ Upgrades(t)
  /\ \/ task'[t].on \notin Current
     \/ \E u \in Slot \ {t} : task[u].on = task'[t].on /\ Doing(Todo(u), "newSub")

(* The plan of an upgrade that waits for its payment is applied by the     *)
(* daily job, or by the payment of a month.                                *)
UpgradedUnpaid ==
  /\ db'.tenant.plan > db.tenant.plan
  /\ \E t \in Slot : task[t].op \in {"applyPendingDowngrades", "cyclePaid"} /\ task'[t] # task[t]

(* A payment, or its delay, brings a cancelled subscription back.          *)
Revived == \E i \in DOMAIN db.subs : db.subs[i].status = "CANCELLED" /\ db'.subs[i].status # "CANCELLED"

(* Two changes of the plan at once; or the floor, or the first company,    *)
(* written with the limit of a plan that the tenant no longer has.         *)
PlanRace ==
  \/ \E t \in Slot : /\ ~Busy(t) /\ Doing(task'[t].todo, "limit")
                    /\ \E u \in Slot \ {t} : Doing(Todo(u), "limit")
  \/ \E t \in Slot : /\ task[t].op = "expireAddOnPurchases" /\ Has(t, "limit")
                    /\ Head(Todo(t)).to # db.tenant.plan /\ WriteLimit(t)
  \/ \E t \in Request : InsertCompany(t) /\ Head(Todo(t)).limit # db.tenant.plan

(* Two webhooks of one payment confirm an add-on together, or it expires   *)
(* before it is credited.                                                  *)
CreditRace ==
  \/ \E t \in Request : WritePurchase(t) /\ db' = db
  \/ \E t \in Begins("expireAddOnPurchases"), u \in Request : Doing(Todo(u), "credit")

(* A tenant is blocked or suspended, or set to await its first payment, by *)
(* a handler that has not seen it pay or upgrade, or is paying; or the job *)
(* blocks it for one subscription when it has another; or the end of the   *)
(* subscription an upgrade replaces suspends it while the new one is being *)
(* made, or is past due.                                                   *)
Paying(u) == task[u].op \in {"cyclePaid", "upgradePaid", "upgrade"}
LocksOut == \E t \in Slot :
  \/ /\ WriteTenant(t) /\ db'.tenant.status \notin {db.tenant.status, "ACTIVE"}
     /\ \/ task[t].stale
        \/ t \in Cron /\ ActiveSubs # {}
        \/ \E u \in Request : Paying(u)
  \/ /\ ReadOthers(t) /\ Doing(task'[t].todo, "tenant")
     /\ (\E u \in Request : Paying(u)) \/ Current # ActiveSubs

(* An upgrade is paid by a tenant that is not active, and stays so.        *)
UpgradedLocked == db.tenant.status # "ACTIVE" /\ \E t \in Slot : Upgrades(t)

(* A second subscription is opened at the gateway beside the first, or     *)
(* beside the one that another request is about to record.                 *)
SubscribedAgain ==
  /\ Begins("subscribe") # {}
  /\ \/ \E i \in DOMAIN db.subs : db.subs[i].status # "CANCELLED"
     \/ \E u \in Slot : Doing(Todo(u), "newSub")

(* The webhook of a new subscription of the gateway comes late, and links  *)
(* it to the row that has been made for the next one.                      *)
Mislinked == \E t \in Begins("extCreated") :
  LET w == Head(task'[t].todo)
  IN ~\E u \in Slot : Doing(Todo(u), "link") /\ task[u].row = w.i /\ task[u].ext = w.set.ext

Slip == (IF UpgradedAgain THEN {"again"} ELSE {})
   \cup (IF UpgradedUnpaid THEN {"unpaid"} ELSE {})
   \cup (IF Revived THEN {"revived"} ELSE {})
   \cup (IF PlanRace THEN {"plans"} ELSE {})
   \cup (IF CreditRace THEN {"credits"} ELSE {})
   \cup (IF SubscribedAgain THEN {"subscribed"} ELSE {})
   \cup (IF Mislinked THEN {"mislinked"} ELSE {})
   \cup (IF LocksOut THEN {"locked"} ELSE {})
   \cup (IF UpgradedLocked THEN {"unlocked"} ELSE {})

(* The bound of the runs: what follows a slip is not explored.             *)
Go(A) == slips = {} /\ A /\ slips' = Slip
Halt(t) == slips = {} /\ Fail(t) /\ slips' = {"halted"}

Next ==
  \/ \E t \in Request : Go(Handle(t))
  \/ Go(CheckOverdue) \/ Go(ApplyPending) \/ Go(ExpireAddOns)
  \/ \E t \in Slot : Go(Step(t)) \/ Halt(t)
  \/ Go(Gateway)
  \/ Go(Time)

Init ==
  /\ \E s \in FirstStates : db = s.db /\ asaas = s.asaas
  /\ task = [t \in Slot |-> Idle]
  /\ begun = 0
  /\ slips = {}

Spec == Init /\ [][Next]_billingVars

(* The process keeps running its handlers and its daily jobs, and the days *)
(* pass.                                                                   *)
Fairness ==
  /\ \A t \in Slot : WF_billingVars(Go(Step(t)))
  /\ WF_billingVars(Go(CheckOverdue))
  /\ WF_billingVars(Go(Time))

FairSpec == Spec /\ Fairness

----------------------------------------------------------------------------
(* Properties *)

AtRest == \A t \in Slot : ~Busy(t)
Explained == slips # {}

(* The tables stay typed, through every write of some columns of a row.    *)
BillingTypeOK == Typed(db, asaas)

(* The first payment is handled once, however many of its webhooks run     *)
(* together: one company and one first user.                               *)
OnboardedOnce == ~Explained => Len(db.companies) <= 1

(* The limit of the company is its plan's and at most what its paid add-   *)
(* ons give, through upgrades, downgrades, and the floor under what an     *)
(* expired add-on takes away.                                              *)
LimitWithinPlan ==
  AtRest /\ ~Explained => \A c \in DOMAIN db.companies :
    db.companies[c] \in db.tenant.plan .. db.tenant.plan + AddOn * Cardinality(PaidAddOns)

(* A tenant with an active subscription is not locked out, once every      *)
(* webhook has been handled: neither by the job that blocks the late, nor  *)
(* by the end of the subscription an upgrade replaces.                     *)
PaidTenantWorks ==
  AtRest /\ ~Explained /\ asaas.post = {} /\ ActiveSubs # {} => db.tenant.status = "ACTIVE"

(* A tenant is charged once: it has one active subscription at most, and   *)
(* the gateway charges none that is cancelled here.                        *)
ChargedOnce ==
  AtRest /\ ~Explained =>
    /\ Cardinality(ActiveSubs) <= 1
    /\ \A x \in DOMAIN asaas.subs : asaas.subs[x] => \E i \in Linked(x) : db.subs[i].status # "CANCELLED"

(* A subscription past due is paid, ended, or its tenant blocked.          *)
PastDue(i) == i \in DOMAIN db.subs /\ db.subs[i].status = "PAST_DUE"
PastDueEnds ==
  \A i \in 1 .. MaxRequests + 1 : PastDue(i) ~> ~PastDue(i) \/ db.tenant.status = "BLOCKED" \/ Explained

(* What the comment of createUpgradeCheckout promises: the tenant gets a   *)
(* dearer plan once its upgrade is paid, or covered by the credit.         *)
UpgradePaidFirst ==
  [][db'.tenant.plan > db.tenant.plan =>
       \/ \E t \in Slot : task[t].op = "upgrade" /\ task'[t] # task[t]
       \/ \E b \in DOMAIN asaas.bills : asaas.bills[b].for = "upgrade" /\ asaas.bills[b].plan = db'.tenant.plan
                                       /\ asaas.bills[b].status = "paid"]_billingVars
=============================================================================
