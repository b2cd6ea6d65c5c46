----------------------------- MODULE LimitProofs -----------------------------
(***************************************************************************)
(* The limit of the company fits its plan and its add-ons, for every       *)
(* instance.  LimitWithinPlan speaks of what is at rest; the invariant     *)
(* adds what the handlers in flight still owe the limit: a plan half       *)
(* written, an add-on bought and not credited, one taken off by the job    *)
(* and not marked, a floor not yet restored.                               *)
(***************************************************************************)
EXTENDS ChargingProofs

----------------------------------------------------------------------------
(* The limit of the company.  While no plan is being changed, the limit is *)
(* at most the plan's and what the counted add-ons give, and at least the  *)
(* plan's but while the job that expires add-ons is about to see to that.  *)

NextIs(r, kind) == r.todo # <<>> /\ Is(r.todo[1], kind)
Expires(r) == r.op = Floorer

(* A handler that sets the limit to a new plan, and one in the middle of   *)
(* it: the plan of the tenant, and then the limit.                         *)
Plans(r) == ~Expires(r) /\ Doing(r.todo, "limit")
Moved(r) == ~Expires(r) /\ (NextIs(r, "limit") \/ (NextIs(r, "tenant") /\ Moving(r.todo[1])))

(* A handler that credits the add-on it has bought, and one that has yet   *)
(* to, of an add-on that is paid.                                          *)
Buys(r) == ~Expires(r) /\ Doing(r.todo, "credit")
Crediting(r) == ~Expires(r) /\ NextIs(r, "credit")
Bought(r) == IF r.op = "buyAddOn" THEN r.row ELSE r.on

(* The job that expires add-ons: those it has listed, the one it has taken *)
(* off the limit, and whether the limit may be below the plan's.           *)
EndsAt(r, k, p) == k \in DOMAIN r.todo /\ Is(r.todo[k], "purchase") /\ r.todo[k].i = p
Lists(r, p) == Expires(r) /\ \E k : EndsAt(r, k, p)
Taken(r, p) == Expires(r) /\ (EndsAt(r, 1, p) \/ EndsAt(r, 2, p))
Sinking(r, d) ==
  /\ Expires(r)
  /\ NextIs(r, "floor") \/ NextIs(r, "limit") \/ (NextIs(r, "below") /\ r.todo[1].to = d.tenant.plan)

(* The add-ons that are paid, and credited, and not taken off the limit.   *)
PaidOff(d) == {p \in DOMAIN d.purchases : d.purchases[p].status = "PAID"}
Waits(r, p) == (Crediting(r) /\ Bought(r) = p) \/ Taken(r, p)
Counted == {p \in PaidOff(db) : \A t \in Slot : ~Waits(task[t], p)}

Within(d, sum, sinks) ==
  \A c \in DOMAIN d.companies : /\ d.companies[c] <= d.tenant.plan + AddOn * sum
                                /\ ~sinks => d.tenant.plan <= d.companies[c]
Bounded ==
  (\A t \in Slot : ~Moved(task[t])) => Within(db, Cardinality(Counted), \E t \in Slot : Sinking(task[t], db))

(* What is true of the handler r in flight, and of two of them.            *)
Sets(r, d) == NextIs(r, "limit") /\ ~Expires(r) => r.todo[1].to = d.tenant.plan
Backed(r, d) ==
  /\ Crediting(r) => Bought(r) \in PaidOff(d)
  /\ \A p : Lists(r, p) => p \in PaidOff(d)
  /\ Expires(r) => \A k, l, p : EndsAt(r, k, p) /\ EndsAt(r, l, p) => k = l
Apart(r, q) ==
  /\ ~(Plans(r) /\ Plans(q))
  /\ ~(Crediting(r) /\ Crediting(q) /\ Bought(r) = Bought(q))
  /\ ~(Buys(r) /\ Lists(q, Bought(r)))

LimitInv ==
  /\ \A t \in Slot : Sets(task[t], db) /\ Backed(task[t], db)
  /\ \A t, u \in Slot : t # u => Apart(task[t], task[u])
  /\ Bounded

(* An idle slot takes no part in it, and a handler keeps its own.          *)
LEMMA IdleApart ==
  ASSUME NEW q, NEW d
  PROVE  /\ Sets(Idle, d) /\ Backed(Idle, d) /\ Apart(Idle, q) /\ Apart(q, Idle)
         /\ ~Plans(Idle) /\ ~Moved(Idle) /\ ~Sinking(Idle, d) /\ ~Buys(Idle) /\ ~Expires(Idle) /\ \A p : ~Waits(Idle, p) /\ ~Lists(Idle, p)
<1>1. PICK r : r = Idle
  OBVIOUS
<1>2. r.op = "idle" /\ r.todo = <<>> /\ DOMAIN <<>> = {}
  BY <1>1, IdleTask
<1>3. ~Expires(r) /\ ~Doing(r.todo, "limit") /\ ~Doing(r.todo, "credit") /\ \A kind : ~NextIs(r, kind)
  BY <1>2 DEF Expires, Floorer, Doing, NextIs
<1> QED
  BY <1>1, <1>3 DEF Sets, Backed, Apart, Plans, Moved, Sinking, Buys, Waits, Crediting, Taken, Lists

LEMMA AlikeKinds ==
  ASSUME NEW r, NEW q, Alike(r, q)
  PROVE  /\ Expires(q) <=> Expires(r)
         /\ \A kind : NextIs(q, kind) <=> NextIs(r, kind)
         /\ q.todo = r.todo
         /\ Plans(q) <=> Plans(r)
         /\ Moved(q) <=> Moved(r)
         /\ Buys(q) <=> Buys(r)
         /\ Crediting(q) <=> Crediting(r)
         /\ Bought(q) = Bought(r)
         /\ \A k, p : EndsAt(q, k, p) <=> EndsAt(r, k, p)
         /\ \A p : Lists(q, p) <=> Lists(r, p)
         /\ \A p : Waits(q, p) <=> Waits(r, p)
         /\ \A d : Sinking(q, d) <=> Sinking(r, d)
<1>1. q.op = r.op /\ q.todo = r.todo /\ q.on = r.on /\ q.row = r.row
  BY DEF Alike
<1>2. Expires(q) <=> Expires(r)
  BY <1>1 DEF Expires
<1>3. \A kind : NextIs(q, kind) <=> NextIs(r, kind)
  BY <1>1 DEF NextIs
<1>4. \A k, p : EndsAt(q, k, p) <=> EndsAt(r, k, p)
  BY <1>1 DEF EndsAt
<1>5. Bought(q) = Bought(r)
  BY <1>1 DEF Bought
<1>6. (Plans(q) <=> Plans(r)) /\ (Moved(q) <=> Moved(r)) /\ (Buys(q) <=> Buys(r))
  BY <1>1, <1>2, <1>3 DEF Plans, Moved, Buys
<1>7. (Crediting(q) <=> Crediting(r)) /\ (\A d : Sinking(q, d) <=> Sinking(r, d))
  BY <1>1, <1>2, <1>3 DEF Crediting, Sinking
<1>8. \A p : (Lists(q, p) <=> Lists(r, p)) /\ (Taken(q, p) <=> Taken(r, p))
  BY <1>2, <1>4 DEF Lists, Taken
<1>9. \A p : Waits(q, p) <=> Waits(r, p)
  BY <1>5, <1>7, <1>8 DEF Waits
<1> QED
  BY <1>1, <1>2, <1>3, <1>4, <1>5, <1>6, <1>7, <1>8, <1>9

(* The job runs in its own slot.                                           *)
LEMMA JobSlot == ASSUME TasksFit, NEW t \in Slot, NEW u \in Slot, Expires(task[t]), Expires(task[u]) PROVE t = u
<1>1. ASSUME NEW v \in Slot, Expires(task[v]) PROVE v = Floorer
  <2>1. task[v] # Idle
    BY <1>1, IdleTask DEF Expires, Floorer
  <2>2. IF v \in Cron THEN task[v].op = v ELSE task[v].op \notin Cron
    BY <2>1 DEF TasksFit, Fits
  <2>3. Floorer \in Cron
    BY DEF Floorer, Cron
  <2> QED
    BY <1>1, <2>2, <2>3 DEF Expires
<1> QED
  BY <1>1

----------------------------------------------------------------------------
(* What comes next in a handler.                                           *)

(* A limit is set to a plan by an upgrade, the payment of a month, or one  *)
(* of two daily jobs.                                                      *)
LEMMA LimitBy ==
  ASSUME NEW op, NEW on, NEW w, NEW e \in Nat, NEW z, At(op, on, w, e, z), Is(w, "limit")
  PROVE  \/ op \in Upgrading /\ e = 0 /\ w = z
         \/ op = "cyclePaid" /\ e = 1 /\ Is(z, "sub") /\ w.to = z.set.plan
         \/ op = Applier /\ e % 4 = 0
         \/ op = Floorer /\ e % 3 = 1
  BY DEF At, AtSubscribe, AtUpgrade, AtDowngrade, AtCancelDowngrade, AtBuyAddOn, AtAddOnPaid, AtCyclePaid,
         AtCycleOverdue, AtExtCreated, AtExtDeleted, AtCheckOverdue, AtApplyPending, AtExpireAddOns, Found,
         Is, Sub, SubOf, Tenant, Pends

LEMMA AtAll ==
  ASSUME NEW op, NEW on, NEW w, NEW e, NEW z, At(op, on, w, e, z)
  PROVE  /\ op = "cyclePaid" => AtCyclePaid(on, w, e, z)
         /\ op = Applier => AtApplyPending(w, e)
         /\ op = Floorer => AtExpireAddOns(w, e)
         /\ op = "buyAddOn" => AtBuyAddOn(on, w, e, z)
         /\ op = "addOnPaid" => AtAddOnPaid(on, w, e)
  BY DEF At, Upgrading, Applier, Floorer

(* The tenant's plan is set by the same handlers, but for the job that     *)
(* expires add-ons.                                                        *)
LEMMA PlanBy ==
  ASSUME NEW op, NEW on, NEW w, NEW e \in Nat, NEW z, At(op, on, w, e, z), Is(w, "tenant"), Moving(w)
  PROVE  \/ op \in Upgrading /\ e = 1 /\ Is(z, "limit") /\ w.set = [plan |-> z.to]
         \/ op = "cyclePaid" /\ e = 2 /\ Is(z, "sub") /\ w.set = [plan |-> z.set.plan]
         \/ op = Applier /\ e % 4 \in {1, 2} /\ \E plan \in Plan : w.set = [plan |-> plan]
<1>1. PICK set : set = w.set
  OBVIOUS
<1>2. "plan" \in DOMAIN set
  BY <1>1 DEF Moving
<1>3. \A status : set # [status |-> status]
  BY <1>2
<1>4. /\ set # [status |-> "PENDING_PAYMENT"] /\ set # [status |-> "ACTIVE"]
      /\ set # [status |-> "SUSPENDED"] /\ set # [status |-> "BLOCKED"]
  BY <1>3
<1> QED
  BY <1>1, <1>4 DEF At, AtSubscribe, AtUpgrade, AtDowngrade, AtCancelDowngrade, AtBuyAddOn, AtAddOnPaid, AtCyclePaid,
         AtCycleOverdue, AtExtCreated, AtExtDeleted, AtCheckOverdue, AtApplyPending, AtExpireAddOns, Found,
         Is, Sub, SubOf, Tenant, Pends

(* The limit is set right after the plan of the tenant, and to it.         *)
LEMMA LimitNext ==
  ASSUME NEW r, IsTask(r), 2 \in DOMAIN r.todo, Is(r.todo[2], "limit")
  PROVE  ~Expires(r) /\ Is(r.todo[1], "tenant") /\ r.todo[1].set = [plan |-> r.todo[2].to]
<1> DEFINE v == r.todo[1]
           w == r.todo[2]
           z == r.todo[Len(r.todo)]
<1>1. PICK n \in Nat : n = Len(r.todo)
  BY TaskLists
<1>2. DOMAIN r.todo = 1 .. n
  BY <1>1, TaskLists
<1>3. n >= 2 /\ n - 2 \in Nat /\ n - 1 \in Nat /\ 1 \in DOMAIN r.todo
  BY <1>2
<1>4. At(r.op, r.on, w, n - 2, z) /\ At(r.op, r.on, v, n - 1, z)
  BY <1>1, <1>3 DEF IsTask
<1>5. 2 # 1
  OBVIOUS
<1>6. r.op # Floorer
  BY <1>5 DEF IsTask, Found
<1> HIDE DEF v, w, z
<1>7. Is(w, "limit")
  BY DEF w
<1>8. \/ r.op \in Upgrading /\ n - 2 = 0 /\ w = z
      \/ r.op = "cyclePaid" /\ n - 2 = 1 /\ Is(z, "sub") /\ w.to = z.set.plan
      \/ r.op = Applier /\ (n - 2) % 4 = 0
  BY <1>3, <1>4, <1>6, <1>7, LimitBy
<1>9. CASE r.op \in Upgrading /\ n - 2 = 0 /\ w = z
  <2>1. AtUpgrade(r.on, v, 1, z) /\ Is(z, "limit")
    BY <1>4, <1>7, <1>9, AtOf
  <2>2. ~Is(z, "charge")
    BY <2>1 DEF Is
  <2>3. Tenant(v, [plan |-> z.to])
    BY <2>1, <2>2 DEF AtUpgrade
  <2> QED
    BY <1>6, <1>9, <2>3 DEF Tenant, Expires, v, w
<1>10. CASE r.op = "cyclePaid" /\ n - 2 = 1 /\ Is(z, "sub") /\ w.to = z.set.plan
  <2>1. AtCyclePaid(r.on, v, 2, z) /\ AtCyclePaid(r.on, w, 1, z)
    BY <1>4, <1>10, AtAll
  <2>2. Moving(z)
    BY <1>7, <2>1 DEF AtCyclePaid, Is, Tenant
  <2>3. Tenant(v, [plan |-> z.set.plan])
    BY <2>1, <2>2 DEF AtCyclePaid
  <2> QED
    BY <1>6, <1>10, <2>3 DEF Tenant, Expires, v, w
<1>11. CASE r.op = Applier /\ (n - 2) % 4 = 0
  <2>1. AtApplyPending(v, n - 1)
    BY <1>4, <1>11, AtAll
  <2>2. (n - 1) % 4 = 1
    BY <1>3, <1>11
  <2>3. PICK plan \in Plan : Tenant(v, [plan |-> plan])
    BY <2>1, <2>2 DEF AtApplyPending
  <2>4. ~Is(w, "tenant")
    BY <1>7 DEF Is
  <2>5. 1 + 1 = 2
    OBVIOUS
  <2>6. Is(w, "limit") /\ w.to = v.set.plan
    BY <1>3, <1>11, <2>3, <2>4, <2>5 DEF IsTask, Tenant, v, w
  <2>7. v.set.plan = plan
    BY <2>3 DEF Tenant
  <2> QED
    BY <1>6, <2>3, <2>6, <2>7 DEF Tenant, Expires, v, w
<1> QED
  BY <1>8, <1>9, <1>10, <1>11

LEMMA PlanSet == ASSUME NEW plan, NEW set, set = [plan |-> plan] PROVE "plan" \in DOMAIN set /\ set.plan = plan
  OBVIOUS

(* After the plan of the tenant comes the limit, or the plan once more.    *)
LEMMA PlanNext ==
  ASSUME NEW r, IsTask(r), NEW k \in DOMAIN r.todo, Is(r.todo[k], "tenant"), Moving(r.todo[k])
  PROVE  /\ ~Expires(r) /\ k + 1 \in DOMAIN r.todo
         /\ \/ Is(r.todo[k + 1], "limit") /\ r.todo[k + 1].to = r.todo[k].set.plan
            \/ /\ Is(r.todo[k + 1], "tenant") /\ r.todo[k + 1].set = r.todo[k].set
               /\ k + 2 \in DOMAIN r.todo /\ Is(r.todo[k + 2], "limit")
<1> DEFINE v == r.todo[k]
           w == r.todo[k + 1]
           z == r.todo[Len(r.todo)]
<1>1. PICK n \in Nat : n = Len(r.todo)
  BY TaskLists
<1>2. DOMAIN r.todo = 1 .. n
  BY <1>1, TaskLists
<1>3. k \in Nat /\ n - k \in Nat /\ 1 <= k /\ k <= n
  BY <1>2
<1>4. At(r.op, r.on, v, n - k, z)
  BY <1>1, <1>3 DEF IsTask
<1>5. Is(v, "tenant") /\ Moving(v) /\ w = r.todo[k + 1] /\ v = r.todo[k] /\ z = r.todo[n]
  BY <1>1
<1> HIDE DEF v, w, z
<1>6. \/ r.op \in Upgrading /\ n - k = 1 /\ Is(z, "limit") /\ v.set = [plan |-> z.to]
      \/ r.op = "cyclePaid" /\ n - k = 2 /\ Is(z, "sub") /\ v.set = [plan |-> z.set.plan]
      \/ r.op = Applier /\ (n - k) % 4 \in {1, 2} /\ \E plan \in Plan : v.set = [plan |-> plan]
  BY <1>3, <1>4, <1>5, PlanBy
<1>7. ~Expires(r)
  BY <1>6 DEF Expires, Upgrading, Applier, Floorer
<1>8. k + 1 \in DOMAIN r.todo /\ n - (k + 1) \in Nat
  <2>1. n - k >= 1
    BY <1>3, <1>6
  <2> QED
    BY <1>2, <1>3, <2>1
<1>9. At(r.op, r.on, w, n - (k + 1), z)
  BY <1>1, <1>5, <1>8 DEF IsTask
<1>10. CASE r.op \in Upgrading /\ n - k = 1 /\ Is(z, "limit") /\ v.set = [plan |-> z.to]
  <2>1. k + 1 = n
    BY <1>3, <1>10
  <2>2. w = z
    BY <1>5, <2>1
  <2>3. v.set.plan = z.to
    BY <1>10, PlanSet
  <2> QED
    BY <1>5, <1>7, <1>8, <1>10, <2>2, <2>3
<1>11. CASE r.op = "cyclePaid" /\ n - k = 2 /\ Is(z, "sub") /\ v.set = [plan |-> z.set.plan]
  <2>1. n - (k + 1) = 1
    BY <1>3, <1>11
  <2>2. AtCyclePaid(r.on, v, 2, z) /\ AtCyclePaid(r.on, w, 1, z)
    BY <1>4, <1>9, <1>11, <2>1, AtAll
  <2>3. v.set # [status |-> "ACTIVE"]
    <3>1. PICK set : set = v.set
      OBVIOUS
    <3>2. "plan" \in DOMAIN set
      BY <1>5, <3>1 DEF Moving
    <3> QED
      BY <3>1, <3>2
  <2>4. ~Is(v, "onboard") /\ ~Is(v, "activate") /\ ~Is(v, "newCompany") /\ ~Is(v, "limit") /\ 2 # 1 /\ 2 # 0
    BY <1>5 DEF Is
  <2>5. Moving(z)
    BY <2>2, <2>3, <2>4 DEF AtCyclePaid, Tenant
  <2>6. Is(w, "limit") /\ w.to = z.set.plan
    BY <1>11, <2>2, <2>5 DEF AtCyclePaid
  <2>7. v.set.plan = z.set.plan
    BY <1>11, PlanSet
  <2> QED
    BY <1>5, <1>7, <1>8, <2>6, <2>7
<1>12. CASE r.op = Applier /\ (n - k) % 4 \in {1, 2} /\ \E plan \in Plan : v.set = [plan |-> plan]
  <2>1. Tenant(w, v.set) \/ (Is(w, "limit") /\ w.to = v.set.plan)
    BY <1>5, <1>12 DEF IsTask
  <2>2. CASE Is(w, "limit") /\ w.to = v.set.plan
    BY <1>5, <1>7, <1>8, <2>2
  <2>3. CASE Tenant(w, v.set)
    <3>1. AtApplyPending(w, n - (k + 1)) /\ Is(w, "tenant") /\ w.set = v.set
      BY <1>9, <1>12, <2>3, AtAll DEF Tenant
    <3>2. (n - (k + 1)) % 4 \in {1, 2}
      BY <3>1 DEF AtApplyPending, Is, Sub
    <3>3. (n - (k + 1)) % 4 = 1
      BY <1>3, <1>12, <3>2
    <3>4. k + 2 \in DOMAIN r.todo /\ n - (k + 2) \in Nat /\ (n - (k + 2)) % 4 = 0
      <4>1. PICK m \in Nat : m = n - (k + 1)
        BY <1>8
      <4>2. m % 4 = 1
        BY <3>3, <4>1
      <4>3. m >= 1 /\ m - 1 \in Nat /\ (m - 1) % 4 = 0
        BY <4>2
      <4>4. n - (k + 2) = m - 1 /\ k + 2 <= n /\ k + 2 \in 1 .. n
        BY <1>3, <4>1, <4>3
      <4> QED
        BY <1>2, <4>3, <4>4
    <3>5. PICK x : x = r.todo[k + 2]
      OBVIOUS
    <3>6. At(r.op, r.on, x, n - (k + 2), z)
      BY <1>1, <1>5, <3>4, <3>5 DEF IsTask
    <3>7. AtApplyPending(x, n - (k + 2))
      BY <1>12, <3>6, AtAll
    <3>8. Is(x, "limit")
      BY <3>4, <3>7 DEF AtApplyPending
    <3> QED
      BY <1>5, <1>7, <1>8, <3>1, <3>4, <3>5, <3>8
  <2> QED
    BY <2>1, <2>2, <2>3
<1> QED
  BY <1>6, <1>10, <1>11, <1>12

(* A handler in the middle of a change of the plan is one that changes it. *)
LEMMA MovedPlans == ASSUME NEW r, IsTask(r), Moved(r) PROVE Plans(r)
<1>1. r.todo # <<>> /\ ~Expires(r) /\ 1 \in DOMAIN r.todo
  BY HeadAt DEF Moved, NextIs
<1>2. CASE Is(r.todo[1], "limit")
  BY <1>1, <1>2 DEF Plans, Doing, Is
<1>3. CASE Is(r.todo[1], "tenant") /\ Moving(r.todo[1])
  <2>1. \E k \in DOMAIN r.todo : Is(r.todo[k], "limit")
    BY <1>1, <1>3, PlanNext
  <2> QED
    BY <1>1, <2>1 DEF Plans, Doing, Is
<1> QED
  BY <1>2, <1>3 DEF Moved, NextIs

LEMMA CreditBy ==
  ASSUME NEW op, NEW on, NEW w, NEW e \in Nat, NEW z, At(op, on, w, e, z), Is(w, "credit")
  PROVE  \/ op = "buyAddOn" /\ e = 0 /\ Is(z, "credit") /\ w.by = AddOn
         \/ op = "addOnPaid" /\ e = 0 /\ w.by = AddOn
         \/ op = Floorer /\ e % 3 = 2 /\ w.by = -AddOn
  BY DEF At, AtSubscribe, AtUpgrade, AtDowngrade, AtCancelDowngrade, AtBuyAddOn, AtAddOnPaid, AtCyclePaid,
         AtCycleOverdue, AtExtCreated, AtExtDeleted, AtCheckOverdue, AtApplyPending, AtExpireAddOns, Found,
         Is, Sub, SubOf, Tenant, Pends

LEMMA PurchaseBy ==
  ASSUME NEW op, NEW on, NEW w, NEW e \in Nat, NEW z, At(op, on, w, e, z), Is(w, "purchase")
  PROVE  \/ op = "buyAddOn" /\ e = 1 /\ Is(z, "credit") /\ w.i = None /\ w.set = [status |-> "PAID"]
         \/ op = "addOnPaid" /\ e = 1 /\ w.i = on /\ on # None /\ w.set = [status |-> "PAID"]
         \/ op = Floorer /\ e % 3 = 0 /\ w.i # None /\ w.set = [status |-> "EXPIRED"]
  BY DEF At, AtSubscribe, AtUpgrade, AtDowngrade, AtCancelDowngrade, AtBuyAddOn, AtAddOnPaid, AtCyclePaid,
         AtCycleOverdue, AtExtCreated, AtExtDeleted, AtCheckOverdue, AtApplyPending, AtExpireAddOns, Found,
         Is, Sub, SubOf, Tenant, Pends

LEMMA AtPlace ==
  ASSUME NEW r, IsTask(r), NEW n, n = Len(r.todo), NEW k \in DOMAIN r.todo
  PROVE  /\ n \in Nat /\ k \in Nat /\ 1 <= k /\ k <= n /\ n - k \in Nat /\ DOMAIN r.todo = 1 .. n
         /\ At(r.op, r.on, r.todo[k], n - k, r.todo[n])
<1>1. n \in Nat /\ DOMAIN r.todo = 1 .. n
  BY TaskLists
<1> QED
  BY <1>1 DEF IsTask

(* Only a purchase of an add-on credits it, last.                          *)
LEMMA BuysBy ==
  ASSUME NEW r, IsTask(r), Buys(r)
  PROVE  r.op \in {"buyAddOn", "addOnPaid"}
<1>1. PICK k \in DOMAIN r.todo : Is(r.todo[k], "credit")
  BY DEF Buys, Doing, Is
<1>2. PICK n : n = Len(r.todo)
  OBVIOUS
<1>3. n - k \in Nat /\ At(r.op, r.on, r.todo[k], n - k, r.todo[n])
  BY <1>2, AtPlace
<1> QED
  BY <1>1, <1>3, CreditBy DEF Buys, Expires

LEMMA CreditHead ==
  ASSUME NEW r, IsTask(r), Crediting(r)
  PROVE  Buys(r) /\ Len(r.todo) = 1 /\ r.todo[1].by = AddOn
<1>1. PICK n : n = Len(r.todo)
  OBVIOUS
<1>2. 1 \in DOMAIN r.todo /\ Is(r.todo[1], "credit") /\ r.op # Floorer
  BY HeadAt DEF Crediting, NextIs, Expires
<1>3. n \in Nat /\ n - 1 \in Nat /\ At(r.op, r.on, r.todo[1], n - 1, r.todo[n])
  BY <1>1, <1>2, AtPlace
<1>4. n - 1 = 0 /\ r.todo[1].by = AddOn
  BY <1>2, <1>3, CreditBy
<1>5. n = 1
  BY <1>3, <1>4
<1> QED
  BY <1>1, <1>2, <1>4, <1>5 DEF Crediting, Buys, Doing, Is

LEMMA CreditNext ==
  ASSUME NEW r, IsTask(r), ~Expires(r), 2 \in DOMAIN r.todo, Is(r.todo[2], "credit")
  PROVE  Is(r.todo[1], "purchase")
<1>1. PICK n : n = Len(r.todo)
  OBVIOUS
<1>2. n \in Nat /\ n - 2 \in Nat /\ At(r.op, r.on, r.todo[2], n - 2, r.todo[n]) /\ 1 \in DOMAIN r.todo /\ n >= 2
  BY <1>1, AtPlace
<1>3. r.op \in {"buyAddOn", "addOnPaid"} /\ n - 2 = 0 /\ (r.op = "buyAddOn" => Is(r.todo[n], "credit"))
  BY <1>2, CreditBy DEF Expires
<1>4. n - 1 = 1
  BY <1>2, <1>3
<1>5. At(r.op, r.on, r.todo[1], 1, r.todo[n])
  BY <1>1, <1>2, <1>4, AtPlace
<1>6. r.op = "buyAddOn" => ~Is(r.todo[n], "charge")
  BY <1>3 DEF Is
<1> QED
  BY <1>3, <1>5, <1>6, AtAll DEF AtBuyAddOn, AtAddOnPaid

(* The purchase that a handler confirms is the one it credits next.        *)
LEMMA PaidHead ==
  ASSUME NEW r, IsTask(r), ~Expires(r), NextIs(r, "purchase")
  PROVE  /\ Buys(r) /\ Len(r.todo) = 2 /\ Is(r.todo[2], "credit") /\ r.todo[1].set = [status |-> "PAID"]
         /\ Bought(r) = IF r.todo[1].i = None THEN r.row ELSE r.todo[1].i
<1>1. PICK n : n = Len(r.todo)
  OBVIOUS
<1>2. 1 \in DOMAIN r.todo /\ Is(r.todo[1], "purchase") /\ r.op # Floorer
  BY HeadAt DEF NextIs, Expires
<1>3. n \in Nat /\ n - 1 \in Nat /\ At(r.op, r.on, r.todo[1], n - 1, r.todo[n])
  BY <1>1, <1>2, AtPlace
<1>4. /\ n - 1 = 1 /\ r.todo[1].set = [status |-> "PAID"]
      /\ \/ r.op = "buyAddOn" /\ Is(r.todo[n], "credit") /\ r.todo[1].i = None
         \/ r.op = "addOnPaid" /\ r.todo[1].i = r.on /\ r.on # None
  BY <1>2, <1>3, PurchaseBy
<1>5. n = 2 /\ 2 \in DOMAIN r.todo
  BY <1>1, <1>2, <1>3, <1>4, AtPlace
<1>6. Is(r.todo[2], "credit")
  <2>1. CASE r.op = "buyAddOn"
    BY <1>4, <1>5, <2>1
  <2>2. CASE r.op = "addOnPaid"
    <3>1. n - 2 = 0 /\ At(r.op, r.on, r.todo[2], n - 2, r.todo[n])
      <4>1. At(r.op, r.on, r.todo[2], n - 2, r.todo[n])
        BY <1>1, <1>5, AtPlace
      <4>2. n - 2 = 0
        BY <1>5
      <4> QED
        BY <4>1, <4>2
    <3>2. AtAddOnPaid(r.on, r.todo[2], 0)
      BY <2>2, <3>1, AtAll
    <3> QED
      BY <3>2 DEF AtAddOnPaid
  <2> QED
    BY <1>4, <2>1, <2>2
<1>7. Buys(r)
  BY <1>2, <1>5, <1>6 DEF Buys, Doing, Is, Expires
<1>8. Bought(r) = IF r.todo[1].i = None THEN r.row ELSE r.todo[1].i
  BY <1>4 DEF Bought
<1> QED
  BY <1>1, <1>4, <1>5, <1>6, <1>7, <1>8

(* The job takes an add-on off the limit, restores the floor, and ends it. *)
LEMMA JobPlace ==
  ASSUME NEW r, IsTask(r), Expires(r), NEW n, n = Len(r.todo), NEW k \in DOMAIN r.todo
  PROVE  /\ (n - k) % 3 = 2 => Is(r.todo[k], "credit") /\ r.todo[k].by = -AddOn
         /\ (n - k) % 3 = 1 => Is(r.todo[k], "floor") \/ (k = 1 /\ Found(r.todo[k]))
         /\ (n - k) % 3 = 0 => Is(r.todo[k], "purchase") /\ r.todo[k].i # None /\ r.todo[k].set = [status |-> "EXPIRED"]
         /\ (n - k) % 3 \in {0, 1, 2}
<1>1. n - k \in Nat /\ At(r.op, r.on, r.todo[k], n - k, r.todo[n])
  BY AtPlace
<1>2. AtExpireAddOns(r.todo[k], n - k)
  BY <1>1, AtAll DEF Expires
<1>3. Found(r.todo[k]) => k = 1
  BY DEF IsTask, Expires
<1> QED
  BY <1>1, <1>2, <1>3 DEF AtExpireAddOns

LEMMA JobHead ==
  ASSUME NEW r, IsTask(r), Expires(r), r.todo # <<>>
  PROVE  \/ /\ Is(r.todo[1], "credit") /\ r.todo[1].by = -AddOn
            /\ 2 \in DOMAIN r.todo /\ Is(r.todo[2], "floor") /\ 3 \in DOMAIN r.todo /\ Is(r.todo[3], "purchase")
         \/ /\ Is(r.todo[1], "floor") \/ Found(r.todo[1])
            /\ 2 \in DOMAIN r.todo /\ Is(r.todo[2], "purchase")
            /\ 3 \in DOMAIN r.todo => Is(r.todo[3], "credit")
         \/ /\ Is(r.todo[1], "purchase") /\ r.todo[1].i # None /\ r.todo[1].set = [status |-> "EXPIRED"]
            /\ 2 \in DOMAIN r.todo => Is(r.todo[2], "credit")
            /\ 3 \in DOMAIN r.todo => Is(r.todo[3], "floor")
<1>1. PICK n : n = Len(r.todo)
  OBVIOUS
<1>2. 1 \in DOMAIN r.todo
  BY HeadAt
<1>3. n \in Nat /\ n >= 1 /\ DOMAIN r.todo = 1 .. n /\ n - 1 \in Nat
  BY <1>1, <1>2, AtPlace
<1>4. (n - 1) % 3 \in {0, 1, 2}
  BY <1>1, <1>2, JobPlace
<1>5. CASE (n - 1) % 3 = 2
  <2>1. 2 \in DOMAIN r.todo /\ 3 \in DOMAIN r.todo /\ (n - 2) % 3 = 1 /\ (n - 3) % 3 = 0 /\ 2 # 1
    BY <1>3, <1>5
  <2> QED
    BY <1>1, <1>2, <1>5, <2>1, JobPlace
<1>6. CASE (n - 1) % 3 = 1
  <2>1. 2 \in DOMAIN r.todo /\ (n - 2) % 3 = 0 /\ (3 \in DOMAIN r.todo => (n - 3) % 3 = 2)
    BY <1>3, <1>6
  <2> QED
    BY <1>1, <1>2, <1>6, <2>1, JobPlace
<1>7. CASE (n - 1) % 3 = 0
  <2>1. (2 \in DOMAIN r.todo => (n - 2) % 3 = 2) /\ (3 \in DOMAIN r.todo => (n - 3) % 3 = 1) /\ 3 # 1
    BY <1>3, <1>7
  <2> QED
    BY <1>1, <1>2, <1>7, <2>1, JobPlace
<1> QED
  BY <1>4, <1>5, <1>6, <1>7

----------------------------------------------------------------------------
(* A step of the handler t, with the others left as they were.             *)

LEMMA OthersAlike ==
  ASSUME TasksFit, NEW t \in Slot, \A u \in Slot \ {t} : Kept(u), NEW u \in Slot, u # t
  PROVE  Alike(task[u], task'[u]) /\ IsTask(task[u])
<1>1. u \in Slot \ {t}
  OBVIOUS
<1> QED
  BY <1>1, KeptAlike, FitTask

LEMMA SetsKept ==
  ASSUME TasksFit, NEW t \in Slot, \A u \in Slot \ {t} : Kept(u), NEW u \in Slot, u # t,
         NEW e, e.tenant.plan = db.tenant.plan, Sets(task[u], db)
  PROVE  Sets(task'[u], e)
  BY OthersAlike, AlikeKinds DEF Sets

(* What t may do to the other handlers, and what they may do to it.        *)
Clear(t) ==
  /\ Sets(task'[t], db') /\ Backed(task'[t], db')
  /\ \A u \in Slot \ {t} : Sets(task'[u], db')
  /\ Plans(task'[t]) => Plans(task[t]) \/ \A u \in Slot \ {t} : ~Plans(task[u])
  /\ \A p \in PaidOff(db) : p \in PaidOff(db') \/ Lists(task[t], p)
  /\ \A u \in Slot \ {t} :
       /\ ~(Crediting(task'[t]) /\ Crediting(task[u]) /\ Bought(task'[t]) = Bought(task[u]))
       /\ ~(Buys(task'[t]) /\ Lists(task[u], Bought(task'[t])))
       /\ ~(Buys(task[u]) /\ Lists(task'[t], Bought(task[u])))

LEMMA LimitKept ==
  ASSUME TasksFit, LimitInv, NEW t \in Slot, \A u \in Slot \ {t} : Kept(u), Clear(t), Bounded'
  PROVE  LimitInv'
<1>1. Slot' = Slot
  BY DEF Slot, Cron
<1>2. ASSUME NEW u \in Slot, u # t PROVE Backed(task'[u], db')
  <2>1. Alike(task[u], task'[u]) /\ IsTask(task[u]) /\ Backed(task[u], db) /\ u \in Slot \ {t}
    BY <1>2, OthersAlike DEF LimitInv
  <2>2. Crediting(task'[u]) => Bought(task'[u]) \in PaidOff(db')
    <3>1. SUFFICES ASSUME Crediting(task'[u]) PROVE Bought(task'[u]) \in PaidOff(db')
      OBVIOUS
    <3>2. Crediting(task[u]) /\ Bought(task'[u]) = Bought(task[u])
      BY <2>1, <3>1, AlikeKinds
    <3>3. Bought(task[u]) \in PaidOff(db) /\ Buys(task[u])
      BY <2>1, <3>2, CreditHead DEF Backed
    <3>4. ~Lists(task[t], Bought(task[u]))
      BY <1>2, <3>3 DEF LimitInv, Apart
    <3> QED
      BY <3>2, <3>3, <3>4 DEF Clear
  <2>3. ASSUME NEW p, Lists(task'[u], p) PROVE p \in PaidOff(db')
    <3>1. Lists(task[u], p) /\ Expires(task[u])
      BY <2>1, <2>3, AlikeKinds DEF Lists
    <3>2. p \in PaidOff(db)
      BY <2>1, <3>1 DEF Backed
    <3>3. ~Expires(task[t])
      BY <1>2, <3>1, JobSlot
    <3> QED
      BY <3>2, <3>3 DEF Clear, Lists
  <2>4. Expires(task'[u]) => \A k, l, p : EndsAt(task'[u], k, p) /\ EndsAt(task'[u], l, p) => k = l
    BY <2>1, AlikeKinds DEF Backed
  <2> QED
    BY <2>2, <2>3, <2>4 DEF Backed
<1>3. \A u \in Slot : Sets(task'[u], db') /\ Backed(task'[u], db')
  BY <1>2 DEF Clear
<1>4. ASSUME NEW u \in Slot, u # t PROVE Apart(task'[t], task'[u]) /\ Apart(task'[u], task'[t])
  <2>1. Alike(task[u], task'[u]) /\ IsTask(task[u]) /\ u \in Slot \ {t}
    BY <1>4, OthersAlike
  <2>2. ~(Plans(task[t]) /\ Plans(task[u]))
    BY <1>4 DEF LimitInv, Apart
  <2>3. ~(Plans(task'[t]) /\ Plans(task'[u]))
    BY <2>1, <2>2, AlikeKinds DEF Clear
  <2>4. ~(Crediting(task'[t]) /\ Crediting(task'[u]) /\ Bought(task'[t]) = Bought(task'[u]))
    BY <2>1, AlikeKinds DEF Clear
  <2>5. ~(Buys(task'[t]) /\ Lists(task'[u], Bought(task'[t])))
    BY <2>1, AlikeKinds DEF Clear
  <2>6. ~(Buys(task'[u]) /\ Lists(task'[t], Bought(task'[u])))
    BY <2>1, AlikeKinds DEF Clear
  <2> QED
    BY <2>3, <2>4, <2>5, <2>6 DEF Apart
<1>5. ASSUME NEW u \in Slot, NEW v \in Slot, u # v PROVE Apart(task'[u], task'[v])
  <2>1. CASE u = t \/ v = t
    BY <1>4, <1>5, <2>1
  <2>2. CASE u # t /\ v # t
    <3>1. Alike(task[u], task'[u]) /\ Alike(task[v], task'[v]) /\ Apart(task[u], task[v])
      BY <1>5, <2>2, OthersAlike DEF LimitInv
    <3>2. /\ (Plans(task'[u]) <=> Plans(task[u])) /\ (Crediting(task'[u]) <=> Crediting(task[u]))
          /\ (Buys(task'[u]) <=> Buys(task[u])) /\ Bought(task'[u]) = Bought(task[u])
      BY <3>1, AlikeKinds
    <3>3. /\ (Plans(task'[v]) <=> Plans(task[v])) /\ (Crediting(task'[v]) <=> Crediting(task[v]))
          /\ Bought(task'[v]) = Bought(task[v]) /\ \A p : Lists(task'[v], p) <=> Lists(task[v], p)
      BY <3>1, AlikeKinds
    <3> QED
      BY <3>1, <3>2, <3>3 DEF Apart
  <2> QED
    BY <2>1, <2>2
<1> QED
  BY <1>1, <1>3, <1>5 DEF LimitInv

----------------------------------------------------------------------------
(* The bounds of the limit, after a step.                                  *)

LEMMA CountedFinite ==
  ASSUME Typed(db, asaas)
  PROVE  /\ IsFiniteSet(PaidOff(db)) /\ IsFiniteSet(Counted)
         /\ Counted \subseteq PaidOff(db) /\ Cardinality(Counted) \in Nat
<1>1. Counted \subseteq PaidOff(db) /\ PaidOff(db) \subseteq DOMAIN db.purchases
  BY DEF Counted, PaidOff
<1>2. IsFiniteSet(PaidOff(db)) /\ IsFiniteSet(Counted)
  BY <1>1, PurchasesFinite
<1> QED
  BY <1>1, <1>2, FS_CardinalityType

LEMMA PaidFinite ==
  ASSUME NEW d, NEW g, Typed(d, g), NEW S, S \subseteq PaidOff(d)
  PROVE  IsFiniteSet(S) /\ Cardinality(S) \in Nat
<1>1. DOMAIN d.purchases = 1 .. Len(d.purchases) /\ Len(d.purchases) \in Nat
  BY TypedLens
<1>2. IsFiniteSet(DOMAIN d.purchases)
  BY <1>1, FS_Interval
<1>3. S \subseteq DOMAIN d.purchases
  BY DEF PaidOff
<1>4. IsFiniteSet(S)
  BY <1>2, <1>3, FS_Subset
<1> QED
  BY <1>4, FS_CardinalityType

LEMMA LimitsInt ==
  ASSUME NEW d, NEW g, Typed(d, g)
  PROVE  d.tenant.plan \in Plan /\ d.tenant.plan \in Int /\ \A c \in DOMAIN d.companies : d.companies[c] \in Int
<1>1. d.tenant \in TenantRow /\ d.companies \in Seq(Int)
  BY TypedLens
<1>2. d.tenant.plan \in Plan
  BY <1>1 DEF TenantRow
<1>3. \A c \in DOMAIN d.companies : d.companies[c] \in Int
  BY <1>1, ElementOfSeq
<1> QED
  BY <1>2, <1>3, PlanInt

LEMMA TimesMore ==
  ASSUME NEW a \in Nat, NEW m \in Nat, NEW n \in Nat, m <= n
  PROVE  a * m \in Int /\ a * n \in Int /\ a * m <= a * n
<1>1. PICK k \in Nat : n = m + k
  <2>1. n - m \in Nat /\ n = m + (n - m)
    OBVIOUS
  <2> QED
    BY <2>1
<1>2. a * m \in Nat /\ a * k \in Nat
  OBVIOUS
<1>3. a * n = a * m + a * k
  BY <1>1
<1> QED
  BY <1>2, <1>3

LEMMA MoreCounted ==
  ASSUME NEW S, NEW T, IsFiniteSet(T), S \subseteq T, NEW x, x = 0
  PROVE  x + AddOn * Cardinality(S) <= AddOn * Cardinality(T)
<1>1. IsFiniteSet(S) /\ Cardinality(S) <= Cardinality(T)
  BY FS_Subset
<1>2. Cardinality(S) \in Nat /\ Cardinality(T) \in Nat
  BY <1>1, FS_CardinalityType
<1>3. AddOn \in Nat
  BY PlanAssumption
<1>4. PICK m \in Nat : m = Cardinality(S)
  BY <1>2
<1>5. PICK n \in Nat : n = Cardinality(T)
  BY <1>2
<1>6. AddOn * m \in Int /\ AddOn * n \in Int /\ AddOn * m <= AddOn * n
  BY <1>1, <1>3, <1>4, <1>5, TimesMore
<1>7. 0 + AddOn * m <= AddOn * n
  BY <1>6
<1> QED
  BY <1>4, <1>5, <1>7

LEMMA OneCounted ==
  ASSUME NEW S, IsFiniteSet(S), NEW p, p \notin S, NEW T, IsFiniteSet(T), S \cup {p} \subseteq T
  PROVE  AddOn + AddOn * Cardinality(S) <= AddOn * Cardinality(T)
<1>1. IsFiniteSet(S \cup {p}) /\ Cardinality(S \cup {p}) = Cardinality(S) + 1
  BY FS_AddElement
<1>2. Cardinality(S) + 1 <= Cardinality(T) /\ Cardinality(S) \in Nat /\ Cardinality(T) \in Nat
  BY <1>1, FS_Subset, FS_CardinalityType
<1>3. AddOn \in Nat
  BY PlanAssumption
<1>4. PICK m \in Nat : m = Cardinality(S)
  BY <1>2
<1>5. PICK n \in Nat : n = Cardinality(T)
  BY <1>2
<1>6. m + 1 \in Nat /\ m + 1 <= n
  BY <1>2, <1>4, <1>5
<1>7. AddOn * (m + 1) <= AddOn * n
  BY <1>3, <1>6, TimesMore
<1>8. AddOn * (m + 1) = AddOn + AddOn * m
  BY <1>3
<1> QED
  BY <1>4, <1>5, <1>7, <1>8

LEMMA OneLess ==
  ASSUME NEW S, NEW p, NEW T, IsFiniteSet(T), S \subseteq T \cup {p}
  PROVE  -AddOn + AddOn * Cardinality(S) <= AddOn * Cardinality(T)
<1>1. IsFiniteSet(T \cup {p}) /\ Cardinality(T \cup {p}) <= Cardinality(T) + 1
  <2>1. CASE p \in T
    <3>1. T \cup {p} = T
      BY <2>1
    <3>2. Cardinality(T) \in Nat
      BY FS_CardinalityType
    <3> QED
      BY <3>1, <3>2
  <2>2. CASE p \notin T
    <3>1. IsFiniteSet(T \cup {p}) /\ Cardinality(T \cup {p}) = Cardinality(T) + 1
      BY <2>2, FS_AddElement
    <3>2. Cardinality(T) \in Nat
      BY FS_CardinalityType
    <3> QED
      BY <3>1, <3>2
  <2> QED
    BY <2>1, <2>2
<1>2. IsFiniteSet(S) /\ Cardinality(S) <= Cardinality(T \cup {p})
  BY <1>1, FS_Subset
<1>3. Cardinality(S) \in Nat /\ Cardinality(T) \in Nat /\ Cardinality(T \cup {p}) \in Nat
  BY <1>1, <1>2, FS_CardinalityType
<1>4. AddOn \in Nat
  BY PlanAssumption
<1>5. PICK m \in Nat : m = Cardinality(S)
  BY <1>3
<1>6. PICK n \in Nat : n = Cardinality(T)
  BY <1>3
<1>7. n + 1 \in Nat /\ m <= n + 1
  BY <1>1, <1>2, <1>3, <1>5, <1>6
<1>8. AddOn * m \in Int /\ AddOn * (n + 1) \in Int /\ AddOn * m <= AddOn * (n + 1)
  BY <1>4, <1>7, TimesMore
<1>9. AddOn * (n + 1) = AddOn + AddOn * n /\ AddOn * n \in Int
  BY <1>4
<1>10. -AddOn + AddOn * m <= AddOn * n
  BY <1>4, <1>8, <1>9
<1> QED
  BY <1>5, <1>6, <1>10

(* The step moves the limit by x at most, and by what it adds to what the  *)
(* counted add-ons give.                                                   *)
LEMMA BoundMoved ==
  ASSUME Typed(db, asaas), Typed(db', asaas'), TasksFit, LimitInv, NEW t \in Slot, \A u \in Slot \ {t} : Kept(u),
         ~Moved(task[t]), db'.tenant.plan = db.tenant.plan, NEW x \in Int,
         \A c \in DOMAIN db'.companies : c \in DOMAIN db.companies /\ db'.companies[c] <= db.companies[c] + x,
         x + AddOn * Cardinality(Counted) <= AddOn * Cardinality(Counted'),
         \/ Sinking(task'[t], db')
         \/ ~Sinking(task[t], db) /\ \A c \in DOMAIN db'.companies : db.companies[c] <= db'.companies[c]
         \/ \A c \in DOMAIN db'.companies : db.tenant.plan <= db'.companies[c]
  PROVE  Bounded'
<1>1. Slot' = Slot
  BY DEF Slot, Cron
<1> DEFINE sinks == \E u \in Slot : Sinking(task[u], db)
           sinks2 == \E u \in Slot : Sinking(task'[u], db')
<1>2. SUFFICES ASSUME \A u \in Slot : ~Moved(task'[u])
               PROVE  Within(db', Cardinality(Counted'), sinks2)
  BY <1>1 DEF Bounded
<1>3. \A u \in Slot : ~Moved(task[u])
  BY <1>2, OthersAlike, AlikeKinds
<1>4. Within(db, Cardinality(Counted), sinks)
  BY <1>3 DEF LimitInv, Bounded
<1>5. ASSUME NEW u \in Slot, u # t PROVE Sinking(task'[u], db') <=> Sinking(task[u], db)
  <2>1. Sinking(task'[u], db') <=> Sinking(task[u], db')
    BY <1>5, OthersAlike, AlikeKinds
  <2> QED
    BY <2>1 DEF Sinking
<1>6. SUFFICES ASSUME NEW c \in DOMAIN db'.companies
               PROVE  /\ db'.companies[c] <= db.tenant.plan + AddOn * Cardinality(Counted')
                      /\ ~sinks2 => db.tenant.plan <= db'.companies[c]
  BY DEF Within
<1>7. PICK l : l = db.companies[c]
  OBVIOUS
<1>8. PICK m : m = db'.companies[c]
  OBVIOUS
<1>9. PICK p : p = db.tenant.plan
  OBVIOUS
<1>10. l \in Int /\ m \in Int /\ p \in Int
  BY <1>6, <1>7, <1>8, <1>9, LimitsInt
<1>11. PICK a : a = AddOn * Cardinality(Counted)
  OBVIOUS
<1>12. PICK b : b = AddOn * Cardinality(Counted')
  OBVIOUS
<1>13. a \in Int /\ b \in Int
  <2>1. Cardinality(Counted) \in Nat
    BY CountedFinite
  <2>2. Counted' \subseteq PaidOff(db')
    BY DEF Counted
  <2>3. Cardinality(Counted') \in Nat
    BY <2>2, PaidFinite
  <2>4. AddOn \in Nat
    BY PlanAssumption
  <2> QED
    BY <1>11, <1>12, <2>1, <2>3, <2>4
<1>14. l <= p + a /\ (~sinks => p <= l) /\ m <= l + x /\ x + a <= b
  BY <1>4, <1>6, <1>7, <1>8, <1>9, <1>11, <1>12 DEF Within
<1> HIDE DEF sinks, sinks2
<1>15. m <= p + b
  BY <1>10, <1>13, <1>14
<1>16. ~sinks2 => p <= m
  <2>1. SUFFICES ASSUME ~sinks2 PROVE p <= m
    OBVIOUS
  <2>2. ~Sinking(task'[t], db')
    BY <2>1 DEF sinks2
  <2>3. CASE ~Sinking(task[t], db) /\ \A k \in DOMAIN db'.companies : db.companies[k] <= db'.companies[k]
    <3>1. ~sinks
      BY <1>5, <2>1, <2>3 DEF sinks, sinks2
    <3>2. l <= m
      BY <1>6, <1>7, <1>8, <2>3
    <3> QED
      BY <1>10, <1>14, <3>1, <3>2
  <2> QED
    BY <1>6, <1>8, <1>9, <2>2, <2>3
<1> QED
  BY <1>8, <1>9, <1>12, <1>15, <1>16

(* The step sets the limit to the plan's.                                  *)
LEMMA BoundSet ==
  ASSUME Typed(db', asaas'), \A c \in DOMAIN db'.companies : db'.companies[c] = db'.tenant.plan
  PROVE  Bounded'
<1>1. SUFFICES ASSUME NEW c \in DOMAIN db'.companies
               PROVE  /\ db'.companies[c] <= db'.tenant.plan + AddOn * Cardinality(Counted')
                      /\ db'.tenant.plan <= db'.companies[c]
  BY DEF Bounded, Within
<1>2. PICK p : p = db'.tenant.plan
  OBVIOUS
<1>3. p \in Int
  BY <1>2, LimitsInt
<1>4. Counted' \subseteq PaidOff(db')
  BY DEF Counted
<1>5. Cardinality(Counted') \in Nat
  BY <1>4, PaidFinite
<1>6. PICK a : a = AddOn * Cardinality(Counted')
  OBVIOUS
<1>7. a \in Nat
  BY <1>5, <1>6, PlanAssumption
<1>8. p <= p + a /\ p <= p
  BY <1>3, <1>7
<1>9. db'.companies[c] = p
  BY <1>1, <1>2
<1> QED
  BY <1>2, <1>6, <1>8, <1>9

LEMMA CountedKept ==
  ASSUME TasksFit, NEW t \in Slot, \A u \in Slot \ {t} : Kept(u), NEW p, p \in PaidOff(db'), ~Waits(task'[t], p),
         \A u \in Slot \ {t} : ~Waits(task[u], p)
  PROVE  p \in Counted'
<1>1. Slot' = Slot
  BY DEF Slot, Cron
<1>2. \A u \in Slot : ~Waits(task'[u], p)
  BY OthersAlike, AlikeKinds
<1> QED
  BY <1>1, <1>2 DEF Counted

(* A step that leaves the plan, the limit and the paid add-ons alone.      *)
LEMMA CalmKept ==
  ASSUME Typed(db, asaas), Typed(db', asaas'), TasksFit, LimitInv, NEW t \in Slot, \A u \in Slot \ {t} : Kept(u),
         db'.tenant.plan = db.tenant.plan, db'.companies = db.companies, PaidOff(db') = PaidOff(db),
         ~Expires(task[t]), ~Moved(task[t]), ~NextIs(task[t], "credit"),
         ~Expires(task'[t]), ~NextIs(task'[t], "credit"), ~NextIs(task'[t], "limit"),
         Plans(task'[t]) => Plans(task[t]) \/ \A u \in Slot \ {t} : ~Plans(task[u]),
         Buys(task'[t]) => (Buys(task[t]) /\ Bought(task'[t]) = Bought(task[t])) \/ Bought(task'[t]) \notin PaidOff(db)
  PROVE  LimitInv'
<1>1. Sets(task'[t], db') /\ Backed(task'[t], db') /\ ~Crediting(task'[t]) /\ \A p : ~Lists(task'[t], p) /\ ~Waits(task'[t], p)
  BY DEF Sets, Backed, Crediting, Lists, Waits, Taken
<1>2. \A u \in Slot \ {t} : Sets(task'[u], db')
  BY SetsKept DEF LimitInv
<1>3. ASSUME NEW u \in Slot \ {t}, Buys(task'[t]), Lists(task[u], Bought(task'[t])) PROVE FALSE
  <2>1. Bought(task'[t]) \in PaidOff(db)
    BY <1>3 DEF LimitInv, Backed
  <2>2. Buys(task[t]) /\ Bought(task'[t]) = Bought(task[t])
    BY <1>3, <2>1
  <2>3. t # u
    BY <1>3
  <2> QED
    BY <1>3, <2>2, <2>3 DEF LimitInv, Apart
<1>4. Clear(t)
  BY <1>1, <1>2, <1>3 DEF Clear
<1>5. Counted \subseteq Counted'
  <2>1. SUFFICES ASSUME NEW p \in Counted PROVE p \in Counted'
    OBVIOUS
  <2>2. p \in PaidOff(db') /\ \A u \in Slot : ~Waits(task[u], p)
    BY <2>1 DEF Counted
  <2> QED
    BY <1>1, <2>2, CountedKept
<1>6. Counted' \subseteq PaidOff(db')
  BY DEF Counted
<1>7. IsFiniteSet(Counted')
  BY <1>6, PaidFinite
<1>8. 0 + AddOn * Cardinality(Counted) <= AddOn * Cardinality(Counted')
  BY <1>5, <1>7, MoreCounted
<1>9. ~Sinking(task[t], db)
  BY DEF Sinking
<1>10. \A c \in DOMAIN db'.companies :
          /\ c \in DOMAIN db.companies /\ db'.companies[c] <= db.companies[c] + 0
          /\ db.companies[c] <= db'.companies[c]
  BY LimitsInt
<1>11. Bounded'
  BY <1>8, <1>9, <1>10, BoundMoved
<1> QED
  BY <1>4, <1>11, LimitKept

----------------------------------------------------------------------------
(* The steps that concern neither the plan, the limit nor an add-on.       *)

(* What q does of the plan and of an add-on, r does.                       *)
Less(r, q) ==
  /\ q.op = r.op \/ q = Idle
  /\ Plans(q) => Plans(r)
  /\ Buys(q) => Buys(r) /\ Bought(q) = Bought(r)
  /\ ~NextIs(q, "credit") /\ ~NextIs(q, "limit")

Aside == {"sub", "newSub", "link", "createExt", "cancelExt", "charge", "activate", "onboard", "newCompany", "suspendAlone"}

LEMMA AsideHead ==
  ASSUME NEW r, IsTask(r), r.todo # <<>>, Is(r.todo[1], "tenant") => ~Moving(r.todo[1]),
         NEW kind, Is(r.todo[1], kind), kind \in Aside \cup {"tenant", "newPurchase"}
  PROVE  ~Expires(r) /\ ~Moved(r) /\ ~NextIs(r, "credit") /\ \A d : ~Sinking(r, d)
<1>1. ~Is(r.todo[1], "credit") /\ ~Is(r.todo[1], "floor") /\ ~Found(r.todo[1]) /\ ~Is(r.todo[1], "limit")
      /\ ~Is(r.todo[1], "purchase")
  BY DEF Is, Found, Aside
<1>2. ~Expires(r)
  BY <1>1, JobHead
<1> QED
  BY <1>1, <1>2 DEF Moved, NextIs, Sinking

LEMMA IdleLess == ASSUME NEW r PROVE Less(r, Idle)
<1>1. PICK q : q = Idle
  OBVIOUS
<1>2. q.todo = <<>> /\ ~Plans(q) /\ ~Buys(q)
  BY <1>1, IdleTask, IdleApart
<1>3. ~NextIs(q, "credit") /\ ~NextIs(q, "limit")
  BY <1>2 DEF NextIs
<1> QED
  BY <1>1, <1>2, <1>3 DEF Less

LEMMA TailLess ==
  ASSUME NEW r, NEW q, IsTask(r), IsTask(q), q.op = r.op, q.on = r.on, r.op = "buyAddOn" => q.row = r.row \/ ~Buys(q),
         q.todo = Tail(r.todo), r.op # "idle", ~Expires(r), ~Moved(r), ~Is(r.todo[1], "purchase")
  PROVE  Less(r, q)
<1>1. /\ Len(q.todo) = Len(r.todo) - 1 /\ q.todo # <<>> /\ 1 \in DOMAIN q.todo
      /\ \A k \in DOMAIN q.todo : q.todo[k] = r.todo[k + 1] /\ k + 1 \in DOMAIN r.todo
  BY TailedIs DEF Tailed
<1>2. r.todo # <<>>
  BY <1>1
<1>3. \A kind : Doing(q.todo, kind) => Doing(r.todo, kind)
  BY <1>1 DEF Doing
<1>4. ~Expires(q)
  BY DEF Expires
<1>5. q.todo[1] = r.todo[2] /\ 2 \in DOMAIN r.todo
  <2>1. q.todo[1] = r.todo[1 + 1] /\ 1 + 1 \in DOMAIN r.todo
    BY <1>1
  <2> QED
    BY <2>1
<1>6. ~NextIs(q, "credit")
  BY <1>5, CreditNext DEF NextIs
<1>7. ~NextIs(q, "limit")
  <2>1. SUFFICES ASSUME NextIs(q, "limit") PROVE FALSE
    OBVIOUS
  <2>2. Is(r.todo[1], "tenant") /\ r.todo[1].set = [plan |-> r.todo[2].to]
    BY <1>5, <2>1, LimitNext DEF NextIs
  <2>3. Moving(r.todo[1])
    BY <2>2, PlanSet DEF Moving
  <2> QED
    BY <1>2, <2>2, <2>3 DEF Moved, NextIs
<1>8. Plans(q) => Plans(r)
  BY <1>3 DEF Plans
<1>9. Buys(q) => Buys(r) /\ Bought(q) = Bought(r)
  BY <1>3 DEF Buys, Bought
<1> QED
  BY <1>6, <1>7, <1>8, <1>9 DEF Less

LEMMA LessKept ==
  ASSUME Typed(db, asaas), Typed(db', asaas'), TasksFit, LimitInv, NEW t \in Slot, \A u \in Slot \ {t} : Kept(u),
         db'.tenant.plan = db.tenant.plan, db'.companies = db.companies, PaidOff(db') = PaidOff(db),
         ~Expires(task[t]), ~Moved(task[t]), ~NextIs(task[t], "credit"), Less(task[t], task'[t])
  PROVE  LimitInv'
<1>1. ~Expires(task'[t])
  BY IdleApart DEF Less, Expires
<1> QED
  BY <1>1, CalmKept DEF Less

Spares(d, e) == e.tenant.plan = d.tenant.plan /\ e.companies = d.companies /\ PaidOff(e) = PaidOff(d)

LEMMA SameSpares ==
  ASSUME NEW d, NEW e, e.tenant.plan = d.tenant.plan, e.companies = d.companies, e.purchases = d.purchases
  PROVE  Spares(d, e)
  BY DEF Spares, PaidOff

LEMMA SubsSpared ==
  ASSUME NEW d, NEW g, Typed(d, g), NEW subs, NEW e, e = [d EXCEPT !.subs = subs]
  PROVE  Spares(d, e)
<1>1. e.tenant = d.tenant /\ e.companies = d.companies /\ e.purchases = d.purchases
  BY Unwritten
<1> QED
  BY <1>1, SameSpares

LEMMA TailFields ==
  ASSUME TasksFit, NEW t \in Slot, NEW q, q = Continue(t, Tail(Todo(t)))
  PROVE  \/ q = Idle
         \/ q.op = task[t].op /\ q.on = task[t].on /\ q.row = task[t].row /\ q.todo = Tail(task[t].todo)
            /\ q.stale = task[t].stale
<1>1. task[t] = [op |-> task[t].op, todo |-> task[t].todo, row |-> task[t].row, ext |-> task[t].ext,
                 on |-> task[t].on, stale |-> task[t].stale]
  BY FitTask DEF IsTask
<1>2. PICK k : k = Tail(task[t].todo)
  OBVIOUS
<1>3. q = Idle \/ q = [task[t] EXCEPT !.todo = k]
  BY <1>2 DEF Continue, Todo
<1> QED
  BY <1>1, <1>2, <1>3

LEMMA AsideStep ==
  ASSUME Typed(db, asaas), Typed(db', asaas'), TasksFit, TasksFit', LimitInv, NEW t \in Slot, \A u \in Slot \ {t} : Kept(u),
         Spares(db, db'), NEW kind, Has(t, kind), kind \in Aside \cup {"tenant"},
         kind = "tenant" => ~Moving(task[t].todo[1]),
         \/ task'[t] = Idle
         \/ task'[t].op = task[t].op /\ task'[t].on = task[t].on /\ task'[t].todo = Tail(task[t].todo)
            /\ (task[t].op = "buyAddOn" => task'[t].row = task[t].row)
  PROVE  LimitInv'
<1>1. IsTask(task[t]) /\ IsTask(task'[t]) /\ task[t].todo # <<>> /\ task[t].op # "idle" /\ Is(task[t].todo[1], kind)
  BY Steps, BusyOp, NextTask DEF Todo
<1>2. Is(task[t].todo[1], "tenant") => ~Moving(task[t].todo[1])
  BY <1>1 DEF Is
<1>3. ~Expires(task[t]) /\ ~Moved(task[t]) /\ ~NextIs(task[t], "credit")
  BY <1>1, <1>2, AsideHead
<1>4. ~Is(task[t].todo[1], "purchase")
  BY <1>1 DEF Is, Aside
<1>5. Less(task[t], task'[t])
  BY <1>1, <1>3, <1>4, IdleLess, TailLess
<1> QED
  BY <1>3, <1>5, LessKept DEF Spares

LEMMA AsideWrite ==
  ASSUME Typed(db, asaas), Typed(db', asaas'), TasksFit, TasksFit', LimitInv, NEW t \in Slot, NEW kind, Has(t, kind),
         kind \in Aside \cup {"tenant"}, kind = "tenant" => ~Moving(task[t].todo[1]),
         NEW tables, Spares(db, tables), Write(t, tables, Tail(Todo(t)))
  PROVE  LimitInv'
<1>1. db' = tables /\ asaas' = asaas /\ task'[t] = Continue(t, Tail(Todo(t))) /\ \A u \in Slot \ {t} : Kept(u)
  BY SaveTasks DEF Write
<1>2. Spares(db, db')
  BY <1>1
<1>3. \/ task'[t] = Idle
      \/ task'[t].op = task[t].op /\ task'[t].on = task[t].on /\ task'[t].todo = Tail(task[t].todo)
         /\ (task[t].op = "buyAddOn" => task'[t].row = task[t].row)
  BY <1>1, TailFields
<1> QED
  BY <1>1, <1>2, <1>3, AsideStep

LEMMA WriteSubLimits ==
  ASSUME Typed(db, asaas), Typed(db', asaas'), TasksFit, TasksFit', LimitInv, NEW t \in Slot, WriteSub(t)
  PROVE  LimitInv'
<1> DEFINE i == Head(Todo(t)).i
<1>1. PICK subs : subs = [db.subs EXCEPT ![i] = Put(@, Head(Todo(t)).set)]
  OBVIOUS
<1>2. PICK tables : tables = [db EXCEPT !.subs = subs]
  OBVIOUS
<1>3. Has(t, "sub") /\ Write(t, tables, Tail(Todo(t)))
  BY <1>1, <1>2 DEF WriteSub
<1>4. Spares(db, tables)
  BY <1>2, SubsSpared
<1> QED
  BY <1>3, <1>4, AsideWrite DEF Aside

LEMMA LinkLimits ==
  ASSUME Typed(db, asaas), Typed(db', asaas'), TasksFit, TasksFit', LimitInv, NEW t \in Slot, Link(t)
  PROVE  LimitInv'
<1>1. PICK i : i = task[t].row
  OBVIOUS
<1>2. PICK subs : subs = [db.subs EXCEPT ![i].ext = task[t].ext]
  OBVIOUS
<1>3. PICK tables : tables = [db EXCEPT !.subs = subs]
  OBVIOUS
<1>4. tables = [db EXCEPT !.subs[i].ext = task[t].ext]
  BY ONLY <1>2, <1>3, Zenon
<1>5. Has(t, "link") /\ Write(t, tables, Tail(Todo(t)))
  BY <1>1, <1>4 DEF Link
<1>6. Spares(db, tables)
  BY <1>3, SubsSpared
<1> QED
  BY <1>5, <1>6, AsideWrite DEF Aside

LEMMA InsertSubLimits ==
  ASSUME Typed(db, asaas), Typed(db', asaas'), TasksFit, TasksFit', LimitInv, NEW t \in Slot, InsertRow(t), Has(t, "newSub")
  PROVE  LimitInv'
<1>1. Head(Todo(t)).kind = "newSub"
  BY DEF Has
<1>2. PICK row : row = [Head(Todo(t)).row EXCEPT !.ext = task[t].ext]
  OBVIOUS
<1>3. PICK subs : subs = Append(db.subs, row)
  OBVIOUS
<1>4. PICK tables : tables = [db EXCEPT !.subs = subs]
  OBVIOUS
<1>5. PICK n : n = Len(db.subs) + 1
  OBVIOUS
<1>6. PICK c : c = Continue(t, Tail(Todo(t)))
  OBVIOUS
<1>7. PICK rest : rest = [c EXCEPT !.row = n]
  OBVIOUS
<1>8. Save(t, tables, rest)
  BY <1>1, <1>2, <1>3, <1>4, <1>5, <1>6, <1>7 DEF InsertRow
<1>9. db' = tables /\ task'[t] = rest /\ \A u \in Slot \ {t} : Kept(u)
  BY <1>8, SaveTasks
<1>10. Spares(db, db')
  BY <1>4, <1>9, SubsSpared
<1>11. /\ Len(task[t].todo) - 1 \in Nat /\ Is(task[t].todo[1], "newSub")
       /\ At(task[t].op, task[t].on, task[t].todo[1], Len(task[t].todo) - 1, task[t].todo[Len(task[t].todo)])
  BY Steps
<1>12. task[t].op # "buyAddOn" /\ Len(task[t].todo) - 1 >= 1
  BY <1>11, AtNewSub DEF Upgrading
<1>13. PICK m \in Nat : m = Len(task[t].todo)
  BY FitTask DEF Todo
<1>14. Left(task[t]) >= 2
  BY <1>12, <1>13 DEF Left
<1>15. c = [op |-> task[t].op, todo |-> Tail(task[t].todo), row |-> task[t].row, ext |-> task[t].ext,
            on |-> task[t].on, stale |-> task[t].stale]
  BY <1>6, <1>14, GoesOn
<1>16. rest.op = task[t].op /\ rest.on = task[t].on /\ rest.todo = Tail(task[t].todo)
  BY ONLY <1>7, <1>15
<1> QED
  BY <1>9, <1>10, <1>12, <1>16, AsideStep DEF Aside

LEMMA CallLimits ==
  ASSUME Typed(db, asaas), Typed(db', asaas'), TasksFit, TasksFit', LimitInv, NEW t \in Slot, NEW kind, Has(t, kind),
         kind \in Aside, db' = db, NEW r, task' = [task EXCEPT ![t] = r],
         \/ r = Idle
         \/ r.op = task[t].op /\ r.on = task[t].on /\ r.todo = Tail(task[t].todo) /\ r.row = task[t].row
  PROVE  LimitInv'
<1>1. task'[t] = r /\ \A u \in Slot \ {t} : Kept(u)
  BY DEF TasksFit, Kept
<1>2. Spares(db, db')
  BY SameSpares
<1>3. kind # "tenant"
  BY DEF Aside
<1> QED
  BY <1>1, <1>2, <1>3, AsideStep

LEMMA GatewayCallLimits ==
  ASSUME Typed(db, asaas), Typed(db', asaas'), TasksFit, TasksFit', LimitInv, NEW t \in Slot,
         OpenExt(t) \/ CloseExt(t) \/ OpenBill(t)
  PROVE  LimitInv'
<1>1. task[t] = [op |-> task[t].op, todo |-> task[t].todo, row |-> task[t].row, ext |-> task[t].ext,
                 on |-> task[t].on, stale |-> task[t].stale] /\ DOMAIN task = Slot
  BY FitTask DEF IsTask, TasksFit
<1>2. PICK o : o = task[t]
  OBVIOUS
<1>3. CASE OpenExt(t)
  <2>1. PICK x : x = Len(asaas.subs) + 1
    OBVIOUS
  <2>2. PICK r : r = [o EXCEPT !.todo = Tail(@), !.ext = x]
    OBVIOUS
  <2>3. Has(t, "createExt") /\ db' = db /\ task' = [task EXCEPT ![t].todo = Tail(@), ![t].ext = x]
    BY <1>3, <2>1 DEF OpenExt, CallGateway
  <2>4. task' = [task EXCEPT ![t] = r]
    BY <1>1, <1>2, <2>2, <2>3
  <2>5. r.op = o.op /\ r.on = o.on /\ r.todo = Tail(o.todo) /\ r.row = o.row
    BY <1>1, <1>2, <2>2
  <2> QED
    BY <1>2, <2>3, <2>4, <2>5, CallLimits DEF Aside
<1>4. CASE CloseExt(t)
  <2>1. PICK r : r = [o EXCEPT !.todo = Tail(@)]
    OBVIOUS
  <2>2. Has(t, "cancelExt") /\ db' = db /\ task' = [task EXCEPT ![t].todo = Tail(@)]
    BY <1>4 DEF CloseExt, CallGateway
  <2>3. task' = [task EXCEPT ![t] = r]
    BY <1>1, <1>2, <2>1, <2>2
  <2>4. r.op = o.op /\ r.on = o.on /\ r.todo = Tail(o.todo) /\ r.row = o.row
    BY <1>1, <1>2, <2>1
  <2> QED
    BY <1>2, <2>2, <2>3, <2>4, CallLimits DEF Aside
<1>5. CASE OpenBill(t)
  <2>1. PICK r : r = Continue(t, Tail(Todo(t)))
    OBVIOUS
  <2>2. Has(t, "charge") /\ db' = db /\ task' = [task EXCEPT ![t] = r]
    BY <1>5, <2>1 DEF OpenBill, CallGateway
  <2>3. r = Idle \/ (r.op = task[t].op /\ r.on = task[t].on /\ r.todo = Tail(task[t].todo) /\ r.row = task[t].row)
    BY <2>1, TailFields
  <2> QED
    BY <2>2, <2>3, CallLimits DEF Aside
<1> QED
  BY <1>3, <1>4, <1>5

LEMMA LookFields ==
  ASSUME TasksFit, NEW t \in Slot, NEW k, Look(t, k)
  PROVE  /\ db' = db /\ asaas' = asaas /\ \A u \in Slot \ {t} : Kept(u)
         /\ \/ task'[t] = Idle
            \/ /\ task'[t].op = task[t].op /\ task'[t].on = task[t].on /\ task'[t].row = task[t].row /\ task'[t].todo = k
               /\ task'[t].stale = FALSE
<1>1. PICK o : o = task[t]
  OBVIOUS
<1>2. o = [op |-> o.op, todo |-> o.todo, row |-> o.row, ext |-> o.ext, on |-> o.on, stale |-> o.stale]
  BY <1>1, FitTask DEF IsTask
<1>3. PICK rest : rest = IF k = <<>> THEN Idle ELSE [[o EXCEPT !.todo = k] EXCEPT !.stale = FALSE]
  OBVIOUS
<1>4. Save(t, db, rest)
  BY <1>1, <1>3, LookTasks
<1>5. rest = Idle \/ (rest.op = o.op /\ rest.on = o.on /\ rest.row = o.row /\ rest.todo = k /\ rest.stale = FALSE)
  BY ONLY <1>2, <1>3
<1> QED
  BY <1>1, <1>4, <1>5, SaveTasks

(* A step that reads, and goes on with what is left.                       *)
LEMMA LookLimits ==
  ASSUME Typed(db, asaas), Typed(db', asaas'), TasksFit, TasksFit', LimitInv, NEW t \in Slot, NEW kind, Has(t, kind), kind \in Aside,
         NEW k, k = Tail(Todo(t)), Look(t, k)
  PROVE  LimitInv'
<1>1. /\ db' = db /\ \A u \in Slot \ {t} : Kept(u)
      /\ \/ task'[t] = Idle
         \/ task'[t].op = task[t].op /\ task'[t].on = task[t].on /\ task'[t].todo = Tail(task[t].todo)
            /\ (task[t].op = "buyAddOn" => task'[t].row = task[t].row)
  BY LookFields DEF Todo
<1>2. Spares(db, db') /\ kind # "tenant"
  BY <1>1, SameSpares DEF Aside
<1> QED
  BY <1>1, <1>2, AsideStep

(* A step that reads, and has another write before what is left.           *)
LEMMA PutLimits ==
  ASSUME Typed(db, asaas), Typed(db', asaas'), TasksFit, TasksFit', LimitInv, NEW t \in Slot, NEW kind, Has(t, kind), kind \in Aside,
         task[t].op \in {"cyclePaid", "extDeleted"}, NEW x, x.kind \in {"newCompany", "tenant"}, Look(t, <<x>> \o Tail(Todo(t)))
  PROVE  LimitInv'
<1>1. Todo(t) # <<>> /\ Is(task[t].todo[1], kind) /\ IsTask(task[t]) /\ IsTask(task'[t])
  BY Steps, BusyOp, NextTask
<1>2. /\ db' = db /\ \A u \in Slot \ {t} : Kept(u)
      /\ task'[t].op = task[t].op
      /\ DOMAIN task'[t].todo = DOMAIN task[t].todo
      /\ task'[t].todo[1] = x /\ \A k \in DOMAIN task[t].todo : k # 1 => task'[t].todo[k] = task[t].todo[k]
  BY <1>1, LookPuts
<1>3. kind # "tenant" /\ task[t].todo # <<>>
  BY <1>1 DEF Aside, Todo
<1>4. ~Is(task[t].todo[1], "tenant")
  BY <1>1, <1>3 DEF Is
<1>5. ~Expires(task[t]) /\ ~Moved(task[t]) /\ ~NextIs(task[t], "credit")
  BY <1>1, <1>3, <1>4, AsideHead
<1>6. ~NextIs(task'[t], "credit") /\ ~NextIs(task'[t], "limit")
  BY <1>2 DEF NextIs, Is
<1>7. ~Buys(task'[t])
  BY <1>1, <1>2, BuysBy
<1>8. Plans(task'[t]) => Plans(task[t])
  <2>1. SUFFICES ASSUME Plans(task'[t]) PROVE Doing(task[t].todo, "limit")
    BY <1>5 DEF Plans
  <2>2. PICK k \in DOMAIN task'[t].todo : task'[t].todo[k].kind = "limit"
    BY <2>1 DEF Plans, Doing
  <2>3. k # 1
    BY <1>2, <2>2
  <2> QED
    BY <1>2, <2>2, <2>3 DEF Doing
<1>9. Less(task[t], task'[t])
  BY <1>2, <1>6, <1>7, <1>8 DEF Less
<1>10. Spares(db, db')
  BY <1>2, SameSpares
<1> QED
  BY <1>2, <1>5, <1>9, <1>10, LessKept DEF Spares

LEMMA ReadOnboardLimits ==
  ASSUME Typed(db, asaas), Typed(db', asaas'), TasksFit, TasksFit', LimitInv, NEW t \in Slot, ReadOnboard(t)
  PROVE  LimitInv'
<1>1. Has(t, "onboard")
  BY DEF ReadOnboard
<1>2. task[t].op = "cyclePaid"
  BY <1>1, Steps, AtOnboard
<1>3. CASE db.companies = <<>>
  <2>1. Look(t, <<AddCompany(db.tenant.plan)>> \o Tail(Todo(t)))
    BY <1>3 DEF ReadOnboard
  <2>2. AddCompany(db.tenant.plan).kind = "newCompany"
    BY DEF AddCompany
  <2> QED
    BY <1>1, <1>2, <2>1, <2>2, PutLimits DEF Aside
<1>4. CASE db.companies # <<>>
  <2>1. Look(t, <<>> \o Tail(Todo(t)))
    BY <1>4 DEF ReadOnboard
  <2>2. Listed(Tail(Todo(t)))
    BY <1>1, HeadIs
  <2>3. <<>> \o Tail(Todo(t)) = Tail(Todo(t))
    BY <2>2, EmptyConcat
  <2> QED
    BY <1>1, <2>1, <2>3, LookLimits DEF Aside
<1> QED
  BY <1>3, <1>4

LEMMA ReadOthersLimits ==
  ASSUME Typed(db, asaas), Typed(db', asaas'), TasksFit, TasksFit', LimitInv, NEW t \in Slot, ReadOthers(t)
  PROVE  LimitInv'
<1>1. Has(t, "suspendAlone")
  BY DEF ReadOthers
<1>2. task[t].op = "extDeleted"
  BY <1>1, Steps, AtSuspend
<1> DEFINE alone == ActiveSubs \subseteq {Head(Todo(t)).i}
<1>3. CASE alone
  <2>1. Look(t, <<SetTenant([status |-> "SUSPENDED"])>> \o Tail(Todo(t)))
    BY <1>3 DEF ReadOthers
  <2>2. SetTenant([status |-> "SUSPENDED"]).kind = "tenant"
    BY DEF SetTenant
  <2> QED
    BY <1>1, <1>2, <2>1, <2>2, PutLimits DEF Aside
<1>4. CASE ~alone
  <2>1. Look(t, <<>> \o Tail(Todo(t)))
    BY <1>4 DEF ReadOthers
  <2>2. Listed(Tail(Todo(t)))
    BY <1>1, HeadIs
  <2>3. <<>> \o Tail(Todo(t)) = Tail(Todo(t))
    BY <2>2, EmptyConcat
  <2> QED
    BY <1>1, <2>1, <2>3, LookLimits DEF Aside
<1> QED
  BY <1>3, <1>4

(* The webhook that finds the tenant active skips what activates it.       *)
LEMMA SkipLess ==
  ASSUME NEW r, NEW q, IsTask(r), IsTask(q), r.todo # <<>>, Is(r.todo[1], "activate"), q.op = r.op,
         q.todo = SubSeq(r.todo, 4, Len(r.todo))
  PROVE  Less(r, q)
<1>1. PICK n : n = Len(r.todo)
  OBVIOUS
<1>2. 1 \in DOMAIN r.todo
  BY HeadAt
<1>3. n \in Nat /\ n - 1 \in Nat /\ DOMAIN r.todo = 1 .. n /\ At(r.op, r.on, r.todo[1], n - 1, r.todo[n])
  BY <1>1, <1>2, AtPlace
<1>4. r.op = "cyclePaid" /\ n - 1 >= 3
  BY <1>3, AtActivate
<1>5. n >= 4 /\ Len(r.todo) >= 3 /\ Listed(r.todo)
  BY <1>1, <1>3, <1>4, TaskLists
<1>6. /\ DOMAIN q.todo = 1 .. n - 3
      /\ \A k \in DOMAIN q.todo : q.todo[k] = r.todo[k + 3] /\ k + 3 \in DOMAIN r.todo
  BY <1>1, <1>5, ListedDrop
<1>7. ~Buys(q)
  BY <1>4, BuysBy
<1>8. \A kind : Doing(q.todo, kind) => Doing(r.todo, kind)
  BY <1>6 DEF Doing
<1>9. Plans(q) => Plans(r)
  BY <1>8 DEF Plans, Expires
<1>10. q.todo[1] = r.todo[4] /\ 4 \in DOMAIN r.todo
  <2>1. 1 \in DOMAIN q.todo
    BY <1>3, <1>5, <1>6
  <2>2. q.todo[1] = r.todo[1 + 3] /\ 1 + 3 \in DOMAIN r.todo
    BY <1>6, <2>1
  <2> QED
    BY <2>2
<1>11. n - 4 \in Nat /\ At(r.op, r.on, r.todo[4], n - 4, r.todo[n])
  BY <1>1, <1>10, AtPlace
<1>12. ~NextIs(q, "credit")
  BY <1>4, <1>10, <1>11, CreditBy DEF NextIs, Floorer
<1>13. ~NextIs(q, "limit")
  <2>1. SUFFICES ASSUME Is(r.todo[4], "limit") PROVE FALSE
    BY <1>10 DEF NextIs
  <2>2. n - 4 = 1
    BY <1>4, <1>11, <2>1, LimitBy DEF Floorer, Applier, Upgrading
  <2>3. n - 1 = 4
    BY <1>3, <2>2
  <2>4. AtCyclePaid(r.on, r.todo[1], 4, r.todo[n])
    BY <1>3, <1>4, <2>3, AtAll
  <2>5. 4 # 0 /\ 4 # 1 /\ 4 # 2 /\ 4 - 2 = 2 /\ 2 # 1 /\ 2 # 3 /\ 4 # 3
    OBVIOUS
  <2> QED
    BY <2>4, <2>5 DEF AtCyclePaid, Is, Tenant
<1> QED
  BY <1>7, <1>9, <1>12, <1>13 DEF Less

LEMMA ActivateLimits ==
  ASSUME Typed(db, asaas), Typed(db', asaas'), TasksFit, TasksFit', LimitInv, NEW t \in Slot, Activate(t)
  PROVE  LimitInv'
<1>1. Has(t, "activate")
  BY DEF Activate
<1>2. CASE Write(t, [db EXCEPT !.tenant.status = "ACTIVE"], Tail(Todo(t)))
  <2>1. PICK tenant : tenant = [db.tenant EXCEPT !.status = "ACTIVE"]
    OBVIOUS
  <2>2. PICK tables : tables = [db EXCEPT !.tenant = tenant]
    OBVIOUS
  <2>3. tables = [db EXCEPT !.tenant.status = "ACTIVE"]
    BY ONLY <2>1, <2>2, Zenon
  <2>4. tables.tenant = tenant /\ tables.companies = db.companies /\ tables.purchases = db.purchases
    BY <2>2, Unwritten
  <2>5. db.tenant \in TenantRow
    BY TypedLens
  <2>6. tenant.plan = db.tenant.plan
    BY <2>1, <2>5 DEF TenantRow
  <2>7. Spares(db, tables)
    BY <2>4, <2>6, SameSpares
  <2> QED
    BY <1>1, <1>2, <2>3, <2>7, AsideWrite DEF Aside
<1>3. CASE Write(t, db, SubSeq(Todo(t), 4, Len(Todo(t))))
  <2>1. PICK k : k = SubSeq(Todo(t), 4, Len(Todo(t)))
    OBVIOUS
  <2>2. db' = db /\ task'[t] = Continue(t, k) /\ \A u \in Slot \ {t} : Kept(u)
    BY <1>3, <2>1, SaveTasks DEF Write
  <2>3. PICK o : o = task[t]
    OBVIOUS
  <2>4. o = [op |-> o.op, todo |-> o.todo, row |-> o.row, ext |-> o.ext, on |-> o.on, stale |-> o.stale]
    BY <2>3, FitTask DEF IsTask
  <2>5. task'[t] = Idle \/ task'[t] = [o EXCEPT !.todo = k]
    BY <2>2, <2>3 DEF Continue
  <2>6. task'[t] = Idle \/ (task'[t].op = o.op /\ task'[t].todo = k)
    BY <2>4, <2>5
  <2>7. IsTask(task[t]) /\ IsTask(task'[t]) /\ task[t].todo # <<>> /\ Is(task[t].todo[1], "activate")
    BY <1>1, Steps, BusyOp, NextTask DEF Todo
  <2>8. ~Is(task[t].todo[1], "tenant")
    BY <2>7 DEF Is
  <2>9. ~Expires(task[t]) /\ ~Moved(task[t]) /\ ~NextIs(task[t], "credit")
    BY <2>7, <2>8, AsideHead DEF Aside
  <2>10. Less(task[t], task'[t])
    BY <2>1, <2>3, <2>6, <2>7, IdleLess, SkipLess DEF Todo
  <2>11. Spares(db, db')
    BY <2>2, SameSpares
  <2> QED
    BY <2>2, <2>9, <2>10, <2>11, LessKept DEF Spares
<1> QED
  BY <1>2, <1>3 DEF Activate

(* An add-on is bought: it is not paid yet.                                *)
LEMMA InsertPurchaseLimits ==
  ASSUME Typed(db, asaas), Typed(db', asaas'), TasksFit, TasksFit', LimitInv, NEW t \in Slot, InsertRow(t), Has(t, "newPurchase")
  PROVE  LimitInv'
<1>1. Head(Todo(t)).kind = "newPurchase"
  BY DEF Has
<1>2. PICK row : row = Head(Todo(t)).row
  OBVIOUS
<1>3. PICK purchases : purchases = Append(db.purchases, row)
  OBVIOUS
<1>4. PICK tables : tables = [db EXCEPT !.purchases = purchases]
  OBVIOUS
<1>5. PICK n : n = Len(db.purchases) + 1
  OBVIOUS
<1>6. PICK c : c = Continue(t, Tail(Todo(t)))
  OBVIOUS
<1>7. PICK rest : rest = [c EXCEPT !.row = n]
  OBVIOUS
<1>8. Save(t, tables, rest)
  BY <1>1, <1>2, <1>3, <1>4, <1>5, <1>6, <1>7 DEF InsertRow
<1>9. db' = tables /\ task'[t] = rest /\ \A u \in Slot \ {t} : Kept(u)
  BY <1>8, SaveTasks
<1>10. /\ Len(task[t].todo) - 1 \in Nat /\ Is(task[t].todo[1], "newPurchase") /\ Head(Todo(t)) = task[t].todo[1]
       /\ At(task[t].op, task[t].on, task[t].todo[1], Len(task[t].todo) - 1, task[t].todo[Len(task[t].todo)])
       /\ Named(task[t].todo[1], db, asaas)
  BY Steps
<1>11. task[t].op = "buyAddOn" /\ row = Purchase(task[t].on) /\ Len(task[t].todo) - 1 >= 1 /\ task[t].on \in DOMAIN db.subs
  <2>1. task[t].op = "buyAddOn" /\ row = Purchase(task[t].on) /\ Len(task[t].todo) - 1 >= 1
    BY <1>2, <1>10, AtNewPurchase
  <2>2. row.sub \in DOMAIN db.subs
    BY <1>2, <1>10 DEF Named
  <2> QED
    BY <2>1, <2>2 DEF Purchase
<1>12. PICK m \in Nat : m = Len(task[t].todo)
  BY FitTask DEF Todo
<1>13. Left(task[t]) >= 2
  BY <1>11, <1>12 DEF Left
<1>14. c = [op |-> task[t].op, todo |-> Tail(task[t].todo), row |-> task[t].row, ext |-> task[t].ext,
            on |-> task[t].on, stale |-> task[t].stale]
  BY <1>6, <1>13, GoesOn
<1>15. rest.op = "buyAddOn" /\ rest.todo = Tail(task[t].todo) /\ rest.row = n
  BY ONLY <1>7, <1>11, <1>14
<1>16. row \in PurchaseRow /\ row.status = "PENDING"
  <2>1. task[t].on \in Nat
    BY <1>11, TypedLens
  <2> QED
    BY <1>11, <2>1 DEF Purchase, PurchaseRow
<1>17. db.purchases \in Seq(PurchaseRow)
  BY TypedLens
<1>18. /\ DOMAIN purchases = DOMAIN db.purchases \cup {n} /\ n \notin DOMAIN db.purchases
       /\ purchases[n] = row /\ \A j \in DOMAIN db.purchases : purchases[j] = db.purchases[j]
  BY <1>3, <1>5, <1>16, <1>17, SeqAdd
<1>19. db'.purchases = purchases /\ db'.tenant = db.tenant /\ db'.companies = db.companies
  BY <1>4, <1>9, Unwritten
<1>20. PaidOff(db') = PaidOff(db)
  BY <1>16, <1>18, <1>19 DEF PaidOff
<1>21. IsTask(task[t]) /\ IsTask(task'[t]) /\ task[t].todo # <<>> /\ task[t].op # "idle"
  BY <1>10, Steps, BusyOp, NextTask DEF Todo
<1>22. ~Is(task[t].todo[1], "tenant") /\ ~Is(task[t].todo[1], "purchase")
  BY <1>10 DEF Is
<1>23. ~Expires(task[t]) /\ ~Moved(task[t]) /\ ~NextIs(task[t], "credit")
  BY <1>10, <1>21, <1>22, AsideHead
<1>24. /\ task'[t].todo # <<>> /\ 1 \in DOMAIN task'[t].todo
       /\ \A k \in DOMAIN task'[t].todo : task'[t].todo[k] = task[t].todo[k + 1] /\ k + 1 \in DOMAIN task[t].todo
  <2>1. task'[t].op = task[t].op /\ task'[t].todo = Tail(task[t].todo)
    BY <1>9, <1>11, <1>15
  <2> QED
    BY <1>21, <2>1, TailedIs DEF Tailed
<1>25. task'[t].todo[1] = task[t].todo[2] /\ 2 \in DOMAIN task[t].todo
  <2>1. task'[t].todo[1] = task[t].todo[1 + 1] /\ 1 + 1 \in DOMAIN task[t].todo
    BY <1>24
  <2> QED
    BY <2>1
<1>26. ~NextIs(task'[t], "credit") /\ ~NextIs(task'[t], "limit")
  BY <1>21, <1>22, <1>23, <1>25, CreditNext, LimitNext DEF NextIs
<1>27. ~Expires(task'[t]) /\ Bought(task'[t]) = n
  BY <1>9, <1>15 DEF Expires, Floorer, Bought
<1>28. Plans(task'[t]) => Plans(task[t])
  BY <1>23, <1>24 DEF Plans, Doing
<1>29. n \notin PaidOff(db)
  BY <1>18 DEF PaidOff
<1> QED
  BY <1>9, <1>19, <1>20, <1>23, <1>26, <1>27, <1>28, <1>29, CalmKept

(* The plan changes, and with it what a limit is to be set to.             *)
LEMMA MovePlanLimits ==
  ASSUME Typed(db, asaas), Typed(db', asaas'), TasksFit, TasksFit', LimitInv, NEW t \in Slot, Has(t, "tenant"),
         Moving(task[t].todo[1]), NEW tables, Write(t, tables, Tail(Todo(t))),
         tables.tenant.plan = task[t].todo[1].set.plan, tables.purchases = db.purchases
  PROVE  LimitInv'
<1> DEFINE r == task[t]
           q == task'[t]
           w == r.todo[1]
<1>1. /\ db' = tables /\ q = Continue(t, Tail(Todo(t))) /\ (\A u \in Slot \ {t} : Kept(u))
      /\ Save(t, tables, Continue(t, Tail(Todo(t))))
  BY SaveTasks DEF Write
<1>2. /\ IsTask(r) /\ IsTask(q) /\ r.todo # <<>> /\ r.op # "idle" /\ Is(w, "tenant") /\ Len(r.todo) - 1 \in Nat
      /\ At(r.op, r.on, w, Len(r.todo) - 1, r.todo[Len(r.todo)])
  BY Steps, BusyOp, NextTask DEF Todo
<1>3. 1 \in DOMAIN r.todo
  BY <1>2, HeadAt
<1>4. /\ ~Expires(r) /\ 1 + 1 \in DOMAIN r.todo
      /\ \/ Is(r.todo[1 + 1], "limit") /\ r.todo[1 + 1].to = w.set.plan
         \/ Is(r.todo[1 + 1], "tenant") /\ r.todo[1 + 1].set = w.set
  BY <1>2, <1>3, PlanNext
<1>5. r.op \notin {"buyAddOn", "addOnPaid"}
  BY <1>2, PlanBy DEF Upgrading, Applier
<1>6. Plans(r)
  <2>1. Moved(r)
    BY <1>2, <1>4 DEF Moved, NextIs
  <2> QED
    BY <1>2, <2>1, MovedPlans
<1>7. PICK n \in Nat : n = Len(r.todo)
  BY <1>2, TaskLists
<1>8. q.op = r.op /\ q.todo = Tail(r.todo)
  <2>1. n >= 2
    BY <1>2, <1>3, <1>4, <1>7, AtPlace
  <2>2. Left(r) >= 2
    BY <1>7, <2>1 DEF Left
  <2> QED
    BY <1>1, <2>2, GoesOn
<1>9. /\ q.todo # <<>> /\ 1 \in DOMAIN q.todo
      /\ \A k \in DOMAIN q.todo : q.todo[k] = r.todo[k + 1] /\ k + 1 \in DOMAIN r.todo
  BY <1>2, <1>8, TailedIs DEF Tailed
<1>10. q.todo[1] = r.todo[1 + 1]
  BY <1>9
<1>11. ~Expires(q) /\ ~Crediting(q) /\ ~Buys(q) /\ \A p : ~Lists(q, p)
  <2>1. ~NextIs(q, "credit")
    BY <1>4, <1>10 DEF NextIs, Is
  <2>2. ~Buys(q)
    BY <1>2, <1>5, <1>8, BuysBy
  <2> QED
    BY <1>4, <1>8, <2>1, <2>2 DEF Expires, Crediting, Lists
<1>12. Moved(q)
  <2>1. CASE Is(r.todo[1 + 1], "limit")
    BY <1>9, <1>10, <1>11, <2>1 DEF Moved, NextIs
  <2>2. CASE Is(r.todo[1 + 1], "tenant") /\ r.todo[1 + 1].set = w.set
    BY <1>9, <1>10, <1>11, <2>2 DEF Moved, NextIs, Moving
  <2> QED
    BY <1>4, <2>1, <2>2
<1>13. Bounded'
  <2>1. Slot' = Slot
    BY DEF Slot, Cron
  <2> QED
    BY <1>12, <2>1 DEF Bounded
<1>14. Sets(q, db')
  <2>1. SUFFICES ASSUME NextIs(q, "limit") PROVE q.todo[1].to = db'.tenant.plan
    BY DEF Sets
  <2>2. ~Is(q.todo[1], "tenant")
    BY <2>1 DEF NextIs, Is
  <2> QED
    BY <1>1, <1>4, <1>10, <2>2
<1>15. ASSUME NEW u \in Slot, u # t PROVE Sets(task'[u], db')
  <2>1. Alike(task[u], task'[u]) /\ IsTask(task[u])
    BY <1>1, <1>15, OthersAlike
  <2>2. ~Plans(task[u])
    BY <1>6, <1>15 DEF LimitInv, Apart
  <2>3. ~Expires(task[u]) => ~NextIs(task[u], "limit")
    BY <2>1, <2>2, MovedPlans DEF Moved
  <2> QED
    BY <2>1, <2>3, AlikeKinds DEF Sets
<1>16. PaidOff(db') = PaidOff(db)
  BY <1>1 DEF PaidOff
<1>17. Backed(q, db')
  BY <1>11 DEF Backed
<1>18. \A u \in Slot \ {t} : Sets(task'[u], db')
  BY <1>15
<1>19. Clear(t)
  BY <1>6, <1>11, <1>14, <1>16, <1>17, <1>18 DEF Clear
<1> QED
  BY <1>1, <1>13, <1>19, LimitKept

LEMMA WriteTenantLimits ==
  ASSUME Typed(db, asaas), Typed(db', asaas'), TasksFit, TasksFit', LimitInv, NEW t \in Slot, WriteTenant(t)
  PROVE  LimitInv'
<1>1. PICK tenant : tenant = Put(db.tenant, Head(Todo(t)).set)
  OBVIOUS
<1>2. PICK tables : tables = [db EXCEPT !.tenant = tenant]
  OBVIOUS
<1>3. Has(t, "tenant") /\ Write(t, tables, Tail(Todo(t)))
  BY <1>1, <1>2 DEF WriteTenant
<1>4. Head(Todo(t)) = task[t].todo[1]
  BY <1>3, Steps
<1>5. PICK set : set = task[t].todo[1].set
  OBVIOUS
<1>6. db.tenant \in TenantRow
  BY TypedLens
<1>7. "plan" \in DOMAIN db.tenant
  BY <1>6 DEF TenantRow
<1>8. tenant["plan"] = IF "plan" \in DOMAIN set THEN set["plan"] ELSE db.tenant["plan"]
  BY <1>1, <1>4, <1>5, <1>7, PutColumn
<1>9. tables.tenant = tenant /\ tables.companies = db.companies /\ tables.purchases = db.purchases
  BY <1>2, Unwritten
<1>10. CASE Moving(task[t].todo[1])
  <2>1. tables.tenant.plan = task[t].todo[1].set.plan
    BY <1>5, <1>8, <1>9, <1>10 DEF Moving
  <2> QED
    BY <1>3, <1>9, <1>10, <2>1, MovePlanLimits
<1>11. CASE ~Moving(task[t].todo[1])
  <2>1. tables.tenant.plan = db.tenant.plan
    BY <1>5, <1>8, <1>9, <1>11 DEF Moving
  <2>2. Spares(db, tables)
    BY <1>9, <2>1, SameSpares
  <2> QED
    BY <1>3, <1>11, <2>2, AsideWrite
<1> QED
  BY <1>10, <1>11

----------------------------------------------------------------------------
(* The steps that change the limit, or what it is bounded by.              *)

(* What q does of the plan and of the add-ons, r does, d writes later.     *)
Follow(r, q, d) ==
  /\ q.op = r.op /\ IsTask(q)
  /\ Expires(r) \/ \A kind : Doing(q.todo, kind) => Doing(r.todo, kind)
  /\ Bought(q) = Bought(r)
  /\ \A k, p : EndsAt(q, k, p) => EndsAt(r, k + d, p)

LEMMA TailFollows ==
  ASSUME NEW r, NEW q, IsTask(r), IsTask(q), q.op = r.op, q.on = r.on, q.row = r.row, q.todo = Tail(r.todo), r.op # "idle"
  PROVE  /\ Follow(r, q, 1)
         /\ q.todo # <<>> /\ 1 \in DOMAIN q.todo
         /\ \A k \in DOMAIN q.todo : q.todo[k] = r.todo[k + 1] /\ k + 1 \in DOMAIN r.todo
<1>1. /\ q.todo # <<>> /\ 1 \in DOMAIN q.todo
      /\ \A k \in DOMAIN q.todo : q.todo[k] = r.todo[k + 1] /\ k + 1 \in DOMAIN r.todo
  BY TailedIs DEF Tailed
<1>2. \A kind : Doing(q.todo, kind) => Doing(r.todo, kind)
  BY <1>1 DEF Doing
<1>3. \A k, p : EndsAt(q, k, p) => EndsAt(r, k + 1, p)
  BY <1>1 DEF EndsAt
<1>4. Bought(q) = Bought(r)
  BY DEF Bought
<1> QED
  BY <1>1, <1>2, <1>3, <1>4 DEF Follow

LEMMA FollowClear ==
  ASSUME TasksFit, LimitInv, NEW t \in Slot, \A u \in Slot \ {t} : Kept(u), NEW d \in {0, 1},
         task'[t] = Idle \/ Follow(task[t], task'[t], d),
         db'.tenant.plan = db.tenant.plan, Sets(task'[t], db'), ~Crediting(task'[t]),
         \A p \in PaidOff(db) : p \in PaidOff(db') \/ Lists(task[t], p),
         \A p : Lists(task'[t], p) => p \in PaidOff(db')
  PROVE  Clear(t)
<1>1. \A u \in Slot \ {t} : Sets(task'[u], db')
  BY SetsKept DEF LimitInv
<1>2. CASE task'[t] = Idle
  BY <1>1, <1>2, IdleApart DEF Clear, Apart
<1>3. CASE Follow(task[t], task'[t], d)
  <2>1. \A p : Lists(task'[t], p) => Lists(task[t], p)
    BY <1>3 DEF Follow, Lists, Expires
  <2>2. (Plans(task'[t]) => Plans(task[t])) /\ (Buys(task'[t]) => Buys(task[t])) /\ Bought(task'[t]) = Bought(task[t])
    BY <1>3 DEF Follow, Plans, Buys, Expires
  <2>3. ASSUME Expires(task'[t]), NEW k, NEW l, NEW p, EndsAt(task'[t], k, p), EndsAt(task'[t], l, p) PROVE k = l
    <3>1. k \in DOMAIN task'[t].todo /\ l \in DOMAIN task'[t].todo /\ IsTask(task'[t])
      BY <1>3, <2>3 DEF EndsAt, Follow
    <3>2. k \in Nat /\ l \in Nat
      BY <3>1, AtPlace
    <3>3. Expires(task[t]) /\ EndsAt(task[t], k + d, p) /\ EndsAt(task[t], l + d, p)
      BY <1>3, <2>3 DEF Follow, Expires
    <3>4. k + d = l + d
      BY <3>3 DEF LimitInv, Backed
    <3> QED
      BY <3>2, <3>4
  <2>4. Backed(task'[t], db')
    BY <2>3 DEF Backed
  <2>5. ASSUME NEW u \in Slot \ {t}
        PROVE  /\ ~(Buys(task'[t]) /\ Lists(task[u], Bought(task'[t])))
               /\ ~(Buys(task[u]) /\ Lists(task'[t], Bought(task[u])))
    <3>1. u # t /\ t # u
      BY <2>5
    <3>2. Apart(task[t], task[u]) /\ Apart(task[u], task[t])
      BY <3>1 DEF LimitInv
    <3> QED
      BY <2>1, <2>2, <3>2 DEF Apart
  <2> QED
    BY <1>1, <2>2, <2>4, <2>5 DEF Clear
<1> QED
  BY <1>2, <1>3

LEMMA LimitSet ==
  ASSUME Typed(db, asaas), PayInv, NEW n, NEW e, e = WithLimit(n)
  PROVE  /\ e.tenant = db.tenant /\ e.purchases = db.purchases
         /\ \A c \in DOMAIN e.companies : c = 1 /\ c \in DOMAIN db.companies /\ e.companies[c] = n
<1>1. PICK companies : companies = IF db.companies = <<>> THEN db.companies ELSE [db.companies EXCEPT ![1] = n]
  OBVIOUS
<1>2. e = [db EXCEPT !.companies = companies]
  BY <1>1 DEF WithLimit
<1>3. e.tenant = db.tenant /\ e.purchases = db.purchases /\ e.companies = companies
  BY <1>2, Unwritten
<1>4. db.companies \in Seq(Int) /\ Len(db.companies) <= 1
  BY TypedLens DEF PayInv
<1>5. DOMAIN db.companies \subseteq {1}
  <2>1. Len(db.companies) \in Nat /\ DOMAIN db.companies = 1 .. Len(db.companies)
    BY <1>4, LenProperties
  <2> QED
    BY <1>4, <2>1
<1>6. CASE db.companies = <<>>
  <2>1. companies = <<>>
    BY <1>1, <1>6
  <2>2. DOMAIN companies = {}
    BY <2>1
  <2> QED
    BY <1>3, <2>2
<1>7. CASE db.companies # <<>>
  <2>1. companies = [db.companies EXCEPT ![1] = n]
    BY <1>1, <1>7
  <2>2. DOMAIN companies = DOMAIN db.companies
    BY <2>1
  <2>3. \A c \in DOMAIN companies : c = 1 /\ companies[c] = n
    BY <1>5, <2>1, <2>2
  <2> QED
    BY <1>3, <2>2, <2>3
<1> QED
  BY <1>6, <1>7

(* The limit is set to the plan's, by a handler that has moved the plan,   *)
(* or by the job for the plan that the tenant still has.                   *)
LEMMA SetLimitLimits ==
  ASSUME Typed(db, asaas), Typed(db', asaas'), TasksFit, TasksFit', PayInv, LimitInv, ~PlanRace,
         NEW t \in Slot, Has(t, "limit"), WriteLimit(t)
  PROVE  LimitInv'
<1> DEFINE r == task[t]
           q == task'[t]
<1>1. /\ IsTask(r) /\ IsTask(q) /\ r.todo # <<>> /\ r.op # "idle" /\ Is(r.todo[1], "limit") /\ Head(Todo(t)) = r.todo[1]
  BY Steps, BusyOp, NextTask DEF Todo
<1>2. ~Has(t, "credit")
  BY DEF Has
<1>3. PICK tables : tables = WithLimit(r.todo[1].to)
  OBVIOUS
<1>4. Write(t, tables, Tail(Todo(t)))
  BY <1>1, <1>2, <1>3 DEF WriteLimit
<1>5. db' = tables /\ q = Continue(t, Tail(Todo(t))) /\ \A u \in Slot \ {t} : Kept(u)
  BY <1>4, SaveTasks DEF Write
<1>6. q = Idle \/ (q.op = r.op /\ q.on = r.on /\ q.row = r.row /\ q.todo = Tail(r.todo))
  BY <1>5, TailFields
<1>7. Expires(r) => r.todo[1].to = db.tenant.plan
  BY <1>1 DEF PlanRace, Expires, Floorer
<1>8. r.todo[1].to = db.tenant.plan
  BY <1>1, <1>7 DEF LimitInv, Sets, NextIs
<1>9. db'.tenant = db.tenant /\ db'.purchases = db.purchases /\ \A c \in DOMAIN db'.companies : db'.companies[c] = db'.tenant.plan
  BY <1>3, <1>5, <1>8, LimitSet
<1>10. Bounded'
  BY <1>9, BoundSet
<1>11. PaidOff(db') = PaidOff(db)
  BY <1>9 DEF PaidOff
<1>12. q = Idle \/ Follow(r, q, 1)
  BY <1>1, <1>6, TailFollows
<1>13. ~Crediting(q) /\ ~NextIs(q, "limit")
  <2>1. CASE q = Idle
    BY <2>1, IdleApart, IdleTask DEF Crediting, NextIs
  <2>2. CASE q # Idle
    <3>1. q.op = r.op /\ q.todo[1] = r.todo[1 + 1] /\ 1 + 1 \in DOMAIN r.todo
      BY <1>1, <1>6, <2>2, TailFollows
    <3>2. ~Is(r.todo[1], "tenant") /\ ~Is(r.todo[1], "purchase")
      BY <1>1 DEF Is
    <3>3. ~Is(r.todo[2], "limit") /\ (~Expires(r) => ~Is(r.todo[2], "credit"))
      <4>1. 1 + 1 = 2
        OBVIOUS
      <4>2. 2 \in DOMAIN r.todo
        BY <3>1, <4>1
      <4> HIDE DEF r, q
      <4> QED
        BY <1>1, <3>2, <4>2, LimitNext, CreditNext
    <3>4. q.todo[1] = r.todo[2]
      <4>1. 1 + 1 = 2
        OBVIOUS
      <4> QED
        BY <3>1, <4>1
    <3> QED
      BY <3>1, <3>3, <3>4 DEF Crediting, NextIs, Expires
  <2> QED
    BY <2>1, <2>2
<1>14. Sets(q, db')
  BY <1>13 DEF Sets
<1>15. ASSUME NEW p, Lists(q, p) PROVE p \in PaidOff(db')
  <2>1. Lists(r, p)
    BY <1>12, <1>15, IdleApart DEF Follow, Lists, Expires
  <2> QED
    BY <1>11, <2>1 DEF LimitInv, Backed
<1>16. Clear(t)
  BY <1>5, <1>9, <1>11, <1>12, <1>13, <1>14, <1>15, FollowClear
<1> QED
  BY <1>5, <1>10, <1>16, LimitKept

LEMMA TakenListed == ASSUME NEW r, NEW p, Taken(r, p) PROVE Lists(r, p)
  BY DEF Taken, Lists

LEMMA CountedIn ==
  ASSUME NEW p \in Counted
  PROVE  p \in PaidOff(db) /\ \A u \in Slot : ~Waits(task[u], p)
  BY DEF Counted

(* An add-on is credited: it was paid, and waited for that.                *)
LEMMA CreditLimits ==
  ASSUME Typed(db, asaas), Typed(db', asaas'), TasksFit, TasksFit', PayInv, LimitInv, NEW t \in Slot, ~Expires(task[t]),
         Has(t, "credit"), WriteLimit(t)
  PROVE  LimitInv'
<1> DEFINE r == task[t]
           q == task'[t]
<1>1. /\ IsTask(r) /\ r.todo # <<>> /\ Is(r.todo[1], "credit") /\ Head(Todo(t)) = r.todo[1] /\ Listed(r.todo)
  BY Steps, BusyOp, FitTask DEF Todo
<1>2. Crediting(r)
  BY <1>1 DEF Crediting, NextIs
<1>3. Buys(r) /\ Len(r.todo) = 1 /\ r.todo[1].by = AddOn
  BY <1>1, <1>2, CreditHead
<1>4. PICK n : n = db.companies[1] + AddOn
  OBVIOUS
<1>5. PICK tables : tables = WithLimit(n)
  OBVIOUS
<1>6. ~Has(t, "limit")
  BY DEF Has
<1>7. Write(t, tables, Tail(Todo(t)))
  BY <1>1, <1>3, <1>4, <1>5, <1>6 DEF WriteLimit
<1>8. db' = tables /\ q = Continue(t, Tail(Todo(t))) /\ \A u \in Slot \ {t} : Kept(u)
  BY <1>7, SaveTasks DEF Write
<1>9. q = Idle
  <2>1. PICK k : k = Tail(Todo(t))
    OBVIOUS
  <2>2. Len(k) = 1 - 1 /\ Listed(k)
    BY <1>1, <1>3, <2>1, ListedTail DEF Todo
  <2>3. k = <<>>
    <3>1. Len(k) = 0
      BY <2>2
    <3> QED
      BY <2>2, <3>1, EmptySeq DEF Listed
  <2> QED
    BY <1>8, <2>1, <2>3 DEF Continue
<1>10. db'.tenant = db.tenant /\ db'.purchases = db.purchases
       /\ \A c \in DOMAIN db'.companies : c = 1 /\ c \in DOMAIN db.companies /\ db'.companies[c] = n
  BY <1>5, <1>8, LimitSet
<1>11. PaidOff(db') = PaidOff(db)
  BY <1>10 DEF PaidOff
<1>12. PICK p : p = Bought(r)
  OBVIOUS
<1>13. p \in PaidOff(db)
  BY <1>2, <1>12 DEF LimitInv, Backed
<1>14. ASSUME NEW u \in Slot \ {t} PROVE ~Waits(task[u], p)
  <2>1. t # u
    BY <1>14
  <2>2. Apart(r, task[u])
    BY <2>1 DEF LimitInv
  <2>3. ~Taken(task[u], p)
    BY <1>3, <1>12, <2>2, TakenListed DEF Apart
  <2> QED
    BY <1>2, <1>12, <2>2, <2>3 DEF Apart, Waits
<1>15. \A s : ~Waits(q, s)
  BY <1>9, IdleApart
<1>16. Counted \cup {p} \subseteq Counted'
  <2>1. p \in Counted'
    BY <1>8, <1>11, <1>13, <1>14, <1>15, CountedKept
  <2>2. ASSUME NEW s \in Counted PROVE s \in Counted'
    <3>1. s \in PaidOff(db') /\ \A u \in Slot : ~Waits(task[u], s)
      BY <1>11, CountedIn
    <3> QED
      BY <1>8, <1>15, <3>1, CountedKept
  <2> QED
    BY <2>1, <2>2
<1>17. p \notin Counted
  BY <1>2, <1>12, CountedIn DEF Waits
<1>18. IsFiniteSet(Counted')
  <2>1. Counted' \subseteq PaidOff(db')
    BY DEF Counted
  <2> QED
    BY <2>1, PaidFinite
<1>19. AddOn + AddOn * Cardinality(Counted) <= AddOn * Cardinality(Counted')
  BY <1>16, <1>17, <1>18, CountedFinite, OneCounted
<1>20. AddOn \in Int /\ AddOn \in Nat
  BY PlanAssumption
<1>21. ASSUME NEW c \in DOMAIN db'.companies
       PROVE  /\ c \in DOMAIN db.companies /\ db'.companies[c] <= db.companies[c] + AddOn
              /\ db.companies[c] <= db'.companies[c]
  <2>1. c \in DOMAIN db.companies /\ db'.companies[c] = db.companies[c] + AddOn
    BY <1>4, <1>10
  <2>2. db.companies[c] \in Int
    BY <2>1, LimitsInt
  <2> QED
    BY <1>20, <2>1, <2>2
<1>22. ~Moved(r) /\ ~Sinking(r, db)
  BY <1>1 DEF Moved, Sinking, NextIs, Is
<1>23. Bounded'
  BY <1>8, <1>10, <1>19, <1>20, <1>21, <1>22, BoundMoved
<1>24. Sets(q, db') /\ ~Crediting(q) /\ \A s : ~Lists(q, s)
  BY <1>9, IdleApart, IdleTask DEF Crediting, NextIs
<1>25. Clear(t)
  BY <1>8, <1>9, <1>10, <1>11, <1>24, FollowClear
<1> QED
  BY <1>8, <1>23, <1>25, LimitKept

(* An add-on is taken off the limit, before the floor is restored.         *)
LEMMA TakeLimits ==
  ASSUME Typed(db, asaas), Typed(db', asaas'), TasksFit, TasksFit', PayInv, LimitInv, NEW t \in Slot, Expires(task[t]),
         Has(t, "credit"), WriteLimit(t)
  PROVE  LimitInv'
<1> DEFINE r == task[t]
           q == task'[t]
<1>1. /\ IsTask(r) /\ IsTask(q) /\ r.todo # <<>> /\ r.op # "idle" /\ Is(r.todo[1], "credit") /\ Head(Todo(t)) = r.todo[1]
  BY Steps, BusyOp, NextTask DEF Todo
<1>2. ~Is(r.todo[1], "floor") /\ ~Found(r.todo[1]) /\ ~Is(r.todo[1], "purchase") /\ ~Is(r.todo[1], "tenant")
  BY <1>1 DEF Is, Found
<1>3. r.todo[1].by = -AddOn /\ 2 \in DOMAIN r.todo /\ Is(r.todo[2], "floor") /\ 3 \in DOMAIN r.todo /\ Is(r.todo[3], "purchase")
  BY <1>1, <1>2, JobHead
<1>4. PICK n : n = db.companies[1] + (-AddOn)
  OBVIOUS
<1>5. PICK tables : tables = WithLimit(n)
  OBVIOUS
<1>6. ~Has(t, "limit")
  BY DEF Has
<1>7. Write(t, tables, Tail(Todo(t)))
  BY <1>1, <1>3, <1>4, <1>5, <1>6 DEF WriteLimit
<1>8. db' = tables /\ q = Continue(t, Tail(Todo(t))) /\ \A u \in Slot \ {t} : Kept(u)
  BY <1>7, SaveTasks DEF Write
<1>9. q.op = r.op /\ q.on = r.on /\ q.row = r.row /\ q.todo = Tail(r.todo)
  <2>1. PICK m : m = Len(r.todo)
    OBVIOUS
  <2>2. m \in Nat /\ m >= 2
    BY <1>1, <1>3, <2>1, AtPlace
  <2>3. Left(r) >= 2
    BY <2>1, <2>2 DEF Left
  <2>4. Has(t, "credit")
    OBVIOUS
  <2> QED
    BY <1>8, <2>3, <2>4, GoesOn
<1>10. /\ Follow(r, q, 1) /\ q.todo # <<>>
       /\ \A k \in DOMAIN q.todo : q.todo[k] = r.todo[k + 1]
  <2>1. IsTask(r) /\ IsTask(q) /\ r.op # "idle"
    BY <1>1
  <2> HIDE DEF r, q
  <2> QED
    BY <1>9, <2>1, TailFollows
<1>11. q.todo[1] = r.todo[2] /\ (2 \in DOMAIN q.todo => q.todo[2] = r.todo[3])
  <2>1. 1 + 1 = 2 /\ 2 + 1 = 3 /\ 1 \in DOMAIN q.todo
    BY <1>1, <1>10, HeadAt
  <2> QED
    BY <1>10, <2>1
<1>12. Expires(q) /\ Sinking(q, db')
  BY <1>3, <1>9, <1>10, <1>11 DEF Expires, Sinking, NextIs
<1>13. db'.tenant = db.tenant /\ db'.purchases = db.purchases
       /\ \A c \in DOMAIN db'.companies : c = 1 /\ c \in DOMAIN db.companies /\ db'.companies[c] = n
  BY <1>5, <1>8, LimitSet
<1>14. PaidOff(db') = PaidOff(db)
  BY <1>13 DEF PaidOff
<1>15. PICK p : p = r.todo[3].i
  OBVIOUS
<1>16. \A s : Waits(q, s) => s = p
  <2>1. ~Is(q.todo[1], "purchase")
    BY <1>3, <1>11 DEF Is
  <2> QED
    BY <1>11, <1>12, <1>15, <2>1 DEF Waits, Crediting, Taken, EndsAt
<1>17. Counted \subseteq Counted' \cup {p}
  <2>1. SUFFICES ASSUME NEW s \in Counted, s # p PROVE s \in Counted'
    OBVIOUS
  <2>2. s \in PaidOff(db') /\ \A u \in Slot : ~Waits(task[u], s)
    BY <1>14, CountedIn
  <2>3. ~Waits(q, s)
    BY <1>16, <2>1
  <2> QED
    BY <1>8, <2>2, <2>3, CountedKept
<1>18. IsFiniteSet(Counted')
  <2>1. Counted' \subseteq PaidOff(db')
    BY DEF Counted
  <2> QED
    BY <2>1, PaidFinite
<1>19. -AddOn + AddOn * Cardinality(Counted) <= AddOn * Cardinality(Counted')
  BY <1>17, <1>18, OneLess
<1>20. AddOn \in Int /\ -AddOn \in Int
  BY PlanAssumption
<1>21. ASSUME NEW c \in DOMAIN db'.companies
       PROVE  c \in DOMAIN db.companies /\ db'.companies[c] <= db.companies[c] + (-AddOn)
  <2>1. c \in DOMAIN db.companies /\ db'.companies[c] = db.companies[c] + (-AddOn)
    BY <1>4, <1>13
  <2>2. db.companies[c] \in Int
    BY <2>1, LimitsInt
  <2> QED
    BY <1>20, <2>1, <2>2
<1>22. ~Moved(r)
  BY DEF Moved
<1>23. Bounded'
  BY <1>8, <1>12, <1>13, <1>19, <1>20, <1>21, <1>22, BoundMoved
<1>24. Sets(q, db') /\ ~Crediting(q)
  BY <1>3, <1>11, <1>12 DEF Sets, Crediting, NextIs, Is
<1>25. \A s : Lists(q, s) => s \in PaidOff(db')
  <2>1. \A s : Lists(q, s) => Lists(r, s)
    BY <1>10, <1>12 DEF Follow, Lists, Expires
  <2> QED
    BY <1>14, <2>1 DEF LimitInv, Backed
<1>26. Clear(t)
  BY <1>8, <1>10, <1>13, <1>14, <1>24, <1>25, FollowClear
<1> QED
  BY <1>8, <1>23, <1>26, LimitKept

(* A step that leaves the limit alone, and counts no add-on less.          *)
LEMMA BoundKept ==
  ASSUME Typed(db, asaas), Typed(db', asaas'), TasksFit, LimitInv, NEW t \in Slot, \A u \in Slot \ {t} : Kept(u),
         ~Moved(task[t]), db'.tenant.plan = db.tenant.plan, db'.companies = db.companies,
         \A p \in Counted : p \in PaidOff(db') /\ ~Waits(task'[t], p),
         Sinking(task'[t], db') \/ ~Sinking(task[t], db) \/ \A c \in DOMAIN db.companies : db.tenant.plan <= db.companies[c]
  PROVE  Bounded'
<1>1. Counted \subseteq Counted'
  <2>1. SUFFICES ASSUME NEW p \in Counted PROVE p \in Counted'
    OBVIOUS
  <2>2. \A u \in Slot : ~Waits(task[u], p)
    BY CountedIn
  <2> QED
    BY <2>2, CountedKept
<1>2. Counted' \subseteq PaidOff(db')
  BY DEF Counted
<1>3. IsFiniteSet(Counted')
  BY <1>2, PaidFinite
<1>4. 0 + AddOn * Cardinality(Counted) <= AddOn * Cardinality(Counted')
  BY <1>1, <1>3, MoreCounted
<1>5. \A c \in DOMAIN db'.companies :
         /\ c \in DOMAIN db.companies /\ db'.companies[c] <= db.companies[c] + 0
         /\ db.companies[c] <= db'.companies[c]
  BY LimitsInt
<1> QED
  BY <1>4, <1>5, BoundMoved

LEMMA FloorAt ==
  ASSUME TasksFit, TasksFit', NEW t \in Slot, NEW kind \in {"floor", "below"}, Has(t, kind), NEW r, r = task[t]
  PROVE  /\ IsTask(r) /\ IsTask(task'[t]) /\ r.todo # <<>> /\ r.op # "idle" /\ Is(r.todo[1], kind) /\ Expires(r)
         /\ 2 \in DOMAIN r.todo /\ Is(r.todo[2], "purchase") /\ (3 \in DOMAIN r.todo => Is(r.todo[3], "credit"))
         /\ Listed(r.todo)
<1>1. IsTask(r) /\ r.todo # <<>> /\ r.op # "idle" /\ Is(r.todo[1], kind)
  BY Steps, BusyOp DEF Todo
<1>2. r.op = Floorer
  <2>1. CASE kind = "floor"
    BY <2>1, Steps, AtFloor
  <2>2. CASE kind = "below"
    BY <2>2, Steps, AtBelow
  <2> QED
    BY <2>1, <2>2
<1>3. ~Is(r.todo[1], "credit") /\ ~Is(r.todo[1], "purchase") /\ Expires(r)
  BY <1>1, <1>2 DEF Is, Expires
<1>4. 2 \in DOMAIN r.todo /\ Is(r.todo[2], "purchase") /\ (3 \in DOMAIN r.todo => Is(r.todo[3], "credit"))
  BY <1>1, <1>3, JobHead
<1> QED
  BY <1>1, <1>3, <1>4, NextTask, TaskLists

(* The job puts what it has found in the place of what it was to find.     *)
LEMMA WritePuts ==
  ASSUME TasksFit, NEW t \in Slot, Todo(t) # <<>>, NEW x, Write(t, db, <<x>> \o Tail(Todo(t)))
  PROVE  /\ db' = db /\ \A u \in Slot \ {t} : Kept(u)
         /\ task'[t].op = task[t].op /\ task'[t].on = task[t].on /\ task'[t].row = task[t].row
         /\ DOMAIN task'[t].todo = DOMAIN task[t].todo
         /\ task'[t].todo[1] = x /\ \A k \in DOMAIN task[t].todo : k # 1 => task'[t].todo[k] = task[t].todo[k]
<1> DEFINE k == <<x>> \o Tail(Todo(t))
           rest == [task[t] EXCEPT !.todo = k]
<1>1. /\ DOMAIN k = DOMAIN Todo(t) /\ k[1] = x
      /\ \A j \in DOMAIN Todo(t) : j # 1 => k[j] = Todo(t)[j]
  BY FitTask, ListedReplace
<1>2. 1 \in DOMAIN Todo(t)
  BY FitTask, ListedTail
<1>3. k # <<>>
  <2> HIDE DEF k, rest
  <2>1. DOMAIN k # DOMAIN <<>>
    BY <1>1, <1>2
  <2> QED
    BY <2>1
<1>4. task[t] = [op |-> task[t].op, todo |-> task[t].todo, row |-> task[t].row, ext |-> task[t].ext,
                 on |-> task[t].on, stale |-> task[t].stale]
  BY FitTask DEF IsTask
<1>5. Save(t, db, rest)
  BY <1>3 DEF Write, Continue
<1> HIDE DEF k
<1>6. rest.op = task[t].op /\ rest.on = task[t].on /\ rest.todo = k /\ rest.row = task[t].row
  BY <1>4
<1> HIDE DEF rest
<1>7. db' = db /\ task'[t] = rest /\ \A u \in Slot \ {t} : Kept(u)
  BY <1>5, SaveTasks
<1> QED
  BY <1>1, <1>6, <1>7 DEF Todo

(* The plan has been read, or the limit is below the one that was read: in *)
(* both cases the limit may be below the tenant's.                         *)
LEMMA LowLimits ==
  ASSUME Typed(db, asaas), Typed(db', asaas'), TasksFit, TasksFit', LimitInv, NEW t \in Slot,
         NEW kind \in {"floor", "below"}, Has(t, kind),
         NEW x, Is(x, "limit") \/ (Is(x, "below") /\ x.to = db.tenant.plan),
         db' = db, \A u \in Slot \ {t} : Kept(u), NEW r, r = task[t], NEW q, q = task'[t],
         q.op = r.op, q.on = r.on, q.row = r.row, DOMAIN q.todo = DOMAIN r.todo, q.todo[1] = x,
         \A k \in DOMAIN r.todo : k # 1 => q.todo[k] = r.todo[k]
  PROVE  LimitInv'
<1>1. IsTask(r) /\ IsTask(q) /\ r.todo # <<>> /\ Expires(r) /\ 2 \in DOMAIN r.todo
  BY FloorAt
<1>2. q.todo # <<>>
  <2>1. DOMAIN q.todo # {} /\ DOMAIN <<>> = {}
    BY <1>1
  <2> QED
    BY <2>1
<1>3. Expires(q) /\ Sinking(q, db') /\ ~NextIs(q, "credit")
  BY <1>1, <1>2 DEF Expires, Sinking, NextIs, Is
<1>4. \A k, p : EndsAt(q, k, p) => EndsAt(r, k, p)
  BY DEF EndsAt, Is
<1>5. Follow(r, q, 0)
  <2>1. ASSUME NEW k, NEW p, EndsAt(q, k, p) PROVE EndsAt(r, k + 0, p)
    <3>1. k \in DOMAIN q.todo
      BY <2>1 DEF EndsAt
    <3>2. k \in Nat
      BY <1>1, <3>1, AtPlace
    <3>3. k + 0 = k
      BY <3>2
    <3> QED
      BY <1>4, <2>1, <3>3
  <2>2. Bought(q) = Bought(r)
    BY DEF Bought
  <2> QED
    BY <1>1, <2>1, <2>2 DEF Follow
<1>6. ASSUME NEW p, Waits(q, p) PROVE Waits(r, p)
  <2>1. Taken(q, p)
    BY <1>3, <1>6 DEF Waits, Crediting
  <2> QED
    BY <1>1, <1>4, <2>1 DEF Taken, Waits
<1>7. \A p \in Counted : p \in PaidOff(db') /\ ~Waits(q, p)
  BY <1>6, CountedIn
<1>8. ~Moved(r) /\ ~Crediting(q)
  BY <1>1, <1>3 DEF Moved, Crediting
<1>9. Bounded'
  BY <1>3, <1>7, <1>8, BoundKept
<1>10. Sets(q, db')
  BY <1>3 DEF Sets
<1>11. \A p : Lists(q, p) => p \in PaidOff(db')
  BY <1>1, <1>4 DEF LimitInv, Backed, Lists
<1>12. Clear(t)
  BY <1>5, <1>8, <1>10, <1>11, FollowClear
<1> QED
  BY <1>9, <1>12, LimitKept

(* The one company of the tenant has the limit of its plan at least.       *)
LEMMA NotLow ==
  ASSUME Typed(db, asaas), PayInv, db.companies = <<>> \/ ~(db.companies[1] < db.tenant.plan)
  PROVE  \A c \in DOMAIN db.companies : db.tenant.plan <= db.companies[c]
<1>1. SUFFICES ASSUME NEW c \in DOMAIN db.companies PROVE db.tenant.plan <= db.companies[c]
  OBVIOUS
<1>2. db.companies \in Seq(Int) /\ Len(db.companies) <= 1
  BY TypedLens DEF PayInv
<1>3. PICK n \in Nat : n = Len(db.companies)
  BY <1>2, LenProperties
<1>4. DOMAIN db.companies = 1 .. n /\ n <= 1
  BY <1>2, <1>3, LenProperties
<1>5. c \in 1 .. n
  BY <1>1, <1>4
<1>6. c = 1
  BY <1>4, <1>5
<1>7. db.companies # <<>>
  <2>1. DOMAIN <<>> = {}
    OBVIOUS
  <2> QED
    BY <1>1, <2>1
<1>8. db.companies[1] \in Int /\ db.tenant.plan \in Int
  BY <1>1, <1>6, LimitsInt
<1> QED
  BY <1>6, <1>7, <1>8

(* The limit is not below that of the plan that was read: nor below the    *)
(* tenant's, which is this plan, or was below no limit before.             *)
LEMMA HighLimits ==
  ASSUME Typed(db, asaas), Typed(db', asaas'), TasksFit, TasksFit', PayInv, LimitInv, NEW t \in Slot, Has(t, "below"),
         db.companies = <<>> \/ ~(db.companies[1] < task[t].todo[1].to), Write(t, db, Tail(Todo(t)))
  PROVE  LimitInv'
<1>1. PICK r : r = task[t]
  OBVIOUS
<1>2. PICK q : q = task'[t]
  OBVIOUS
<1>3. /\ IsTask(r) /\ IsTask(q) /\ r.op # "idle" /\ Expires(r) /\ Is(r.todo[1], "below")
      /\ 2 \in DOMAIN r.todo /\ Is(r.todo[2], "purchase") /\ (3 \in DOMAIN r.todo => Is(r.todo[3], "credit"))
  <2>1. Has(t, "below") /\ "below" \in {"floor", "below"}
    OBVIOUS
  <2> QED
    BY <1>1, <1>2, <2>1, FloorAt
<1>4. db' = db /\ q = Continue(t, Tail(Todo(t))) /\ \A u \in Slot \ {t} : Kept(u)
  BY <1>2, SaveTasks DEF Write
<1>5. q = Idle \/ (q.op = r.op /\ q.on = r.on /\ q.row = r.row /\ q.todo = Tail(r.todo))
  BY <1>1, <1>4, TailFields
<1>6. ~Sinking(r, db) \/ \A c \in DOMAIN db.companies : db.tenant.plan <= db.companies[c]
  <2>1. CASE r.todo[1].to = db.tenant.plan
    BY <1>1, <2>1, NotLow
  <2>2. CASE r.todo[1].to # db.tenant.plan
    BY <1>3, <2>2 DEF Sinking, NextIs, Is
  <2> QED
    BY <2>1, <2>2
<1>7. ~Moved(r)
  BY <1>3 DEF Moved
<1>8. CASE q = Idle
  <2>1. /\ ~Crediting(q) /\ Sets(q, db') /\ \A p : ~Lists(q, p) /\ ~Waits(q, p)
    BY <1>8, IdleApart, IdleTask DEF Crediting, NextIs
  <2>2. \A p \in Counted : p \in PaidOff(db') /\ ~Waits(q, p)
    BY <1>4, <2>1, CountedIn
  <2>3. Clear(t)
    BY <1>2, <1>4, <1>8, <2>1, FollowClear
  <2>4. Bounded'
    BY <1>1, <1>2, <1>4, <1>6, <1>7, <2>2, BoundKept
  <2> QED
    BY <1>4, <2>3, <2>4, LimitKept
<1>9. CASE q # Idle
  <2>1. /\ q.op = r.op /\ Follow(r, q, 1) /\ q.todo # <<>> /\ 1 \in DOMAIN q.todo
        /\ \A l \in DOMAIN q.todo : q.todo[l] = r.todo[l + 1] /\ l + 1 \in DOMAIN r.todo
    BY <1>3, <1>5, <1>9, TailFollows
  <2>2. q.todo[1] = r.todo[2] /\ (2 \in DOMAIN q.todo => q.todo[2] = r.todo[3] /\ 3 \in DOMAIN r.todo)
    <3>1. 1 + 1 = 2 /\ 2 + 1 = 3
      OBVIOUS
    <3> QED
      BY <2>1, <3>1
  <2>3. ~NextIs(q, "credit") /\ (2 \in DOMAIN q.todo => ~Is(q.todo[2], "purchase"))
    BY <1>3, <2>2 DEF NextIs, Is
  <2>4. ~Crediting(q) /\ Sets(q, db') /\ Expires(q)
    BY <1>3, <2>1, <2>3 DEF Crediting, Sets, Expires
  <2>5. ASSUME NEW p, Waits(q, p) PROVE Waits(r, p)
    <3>1. EndsAt(q, 1, p)
      BY <2>3, <2>4, <2>5 DEF Waits, Taken, EndsAt
    <3>2. EndsAt(r, 2, p)
      BY <1>3, <2>2, <3>1 DEF EndsAt
    <3> QED
      BY <1>3, <3>2 DEF Waits, Taken
  <2>6. \A p \in Counted : p \in PaidOff(db') /\ ~Waits(q, p)
    BY <1>1, <1>4, <2>5, CountedIn
  <2>7. \A p : Lists(q, p) => p \in PaidOff(db')
    BY <1>1, <1>3, <1>4, <2>1 DEF LimitInv, Backed, Lists, Follow
  <2>8. Clear(t)
    BY <1>1, <1>2, <1>4, <2>1, <2>4, <2>7, FollowClear
  <2>9. Bounded'
    BY <1>1, <1>2, <1>4, <1>6, <1>7, <2>6, BoundKept
  <2> QED
    BY <1>4, <2>8, <2>9, LimitKept
<1> QED
  BY <1>8, <1>9

LEMMA ReadFloorLimits ==
  ASSUME Typed(db, asaas), Typed(db', asaas'), TasksFit, TasksFit', PayInv, LimitInv, NEW t \in Slot, ReadFloor(t)
  PROVE  LimitInv'
<1>1. PICK x : x = Below(db.tenant.plan)
  OBVIOUS
<1>2. Is(x, "below") /\ x.to = db.tenant.plan
  BY <1>1 DEF Below, Is
<1>3. Has(t, "floor") /\ Todo(t) # <<>> /\ Look(t, <<x>> \o Tail(Todo(t)))
  BY <1>1 DEF ReadFloor, Has
<1> DEFINE r == task[t]
           q == task'[t]
<1>4. /\ db' = db /\ \A u \in Slot \ {t} : Kept(u)
      /\ q.op = r.op /\ q.on = r.on /\ q.row = r.row /\ DOMAIN q.todo = DOMAIN r.todo
      /\ q.todo[1] = x /\ \A k \in DOMAIN r.todo : k # 1 => q.todo[k] = r.todo[k]
  BY <1>3, LookPuts
<1> QED
  BY <1>2, <1>3, <1>4, LowLimits

LEMMA CheckFloorLimits ==
  ASSUME Typed(db, asaas), Typed(db', asaas'), TasksFit, TasksFit', PayInv, LimitInv, NEW t \in Slot, CheckFloor(t)
  PROVE  LimitInv'
<1>1. PICK plan : plan = Head(Todo(t)).to
  OBVIOUS
<1>2. Has(t, "below") /\ Todo(t) # <<>> /\ plan = task[t].todo[1].to /\ Listed(Tail(Todo(t)))
  BY <1>1, Steps, HeadIs DEF CheckFloor, Has
<1> DEFINE low == db.companies # <<>> /\ db.companies[1] < plan
<1>3. CASE low
  <2>1. PICK x : x = SetLimit(plan)
    OBVIOUS
  <2>2. Write(t, db, <<x>> \o Tail(Todo(t)))
    BY <1>1, <1>3, <2>1 DEF CheckFloor
  <2>3. Is(x, "limit")
    BY <2>1 DEF SetLimit, Is
  <2> QED
    BY <1>2, <2>2, <2>3, WritePuts, LowLimits
<1>4. CASE ~low
  <2>1. Write(t, db, <<>> \o Tail(Todo(t)))
    BY <1>1, <1>4 DEF CheckFloor
  <2>2. <<>> \o Tail(Todo(t)) = Tail(Todo(t))
    BY <1>2, EmptyConcat
  <2> QED
    BY <1>2, <1>4, <2>1, <2>2, HighLimits
<1> QED
  BY <1>3, <1>4

(* What the write of a purchase does.                                      *)
LEMMA PurchasePut ==
  ASSUME Typed(db, asaas), TasksFit, NEW t \in Slot, WritePurchase(t)
  PROVE  \E p \in DOMAIN db.purchases, status \in {"PAID", "EXPIRED"} :
           /\ p = IF task[t].todo[1].i = None THEN task[t].row ELSE task[t].todo[1].i
           /\ task[t].todo[1].set = [status |-> status]
           /\ Has(t, "purchase") /\ task'[t] = Continue(t, Tail(Todo(t))) /\ (\A u \in Slot \ {t} : Kept(u))
           /\ db'.tenant = db.tenant /\ db'.companies = db.companies
           /\ DOMAIN db'.purchases = DOMAIN db.purchases /\ db'.purchases[p].status = status
           /\ \A x \in DOMAIN db.purchases : x # p => db'.purchases[x] = db.purchases[x]
           /\ db.purchases[p].status = status => db' = db
<1>1. PICK w : w = Head(Todo(t))
  OBVIOUS
<1>2. PICK p : p = IF w.i = None THEN task[t].row ELSE w.i
  OBVIOUS
<1>3. Has(t, "purchase") /\ Write(t, [db EXCEPT !.purchases[p] = Put(@, w.set)], Tail(Todo(t)))
  BY <1>1, <1>2 DEF WritePurchase
<1>4. /\ w = task[t].todo[1] /\ Is(w, "purchase") /\ Named(w, db, asaas)
      /\ At(task[t].op, task[t].on, w, Len(Todo(t)) - 1, Todo(t)[Len(Todo(t))]) /\ Len(Todo(t)) - 1 \in Nat
  BY <1>1, <1>3, HeadIs DEF Todo
<1>5. w.set \in {[status |-> "PAID"], [status |-> "EXPIRED"]} /\ (w.i = None => task[t].op = "buyAddOn")
  BY <1>4, AtPurchase
<1>6. p \in DOMAIN db.purchases
  <2>1. CASE w.i # None
    BY <1>2, <1>4, <2>1 DEF Named
  <2>2. CASE w.i = None
    BY <1>2, <1>4, <1>5, <2>2 DEF TasksFit, Fits, Is
  <2> QED
    BY <2>1, <2>2
<1>7. PICK status \in {"PAID", "EXPIRED"} : w.set = [status |-> status]
  BY <1>5
<1>8. PICK old : old = db.purchases[p]
  OBVIOUS
<1>9. PICK row : row = Put(old, w.set)
  OBVIOUS
<1>10. old \in PurchaseRow
  BY <1>6, <1>8, TypedLens, ElementOfSeq
<1>11. row \in PurchaseRow /\ row.status = status
  <2>1. status \in {"PENDING", "PAID", "EXPIRED"}
    OBVIOUS
  <2> QED
    BY <1>7, <1>9, <1>10, <2>1, PutPurchase
<1>12. PICK purchases : purchases = [db.purchases EXCEPT ![p] = row]
  OBVIOUS
<1>13. PICK tables : tables = [db EXCEPT !.purchases = purchases]
  OBVIOUS
<1>14. tables = [db EXCEPT !.purchases[p] = Put(@, w.set)]
  BY ONLY <1>8, <1>9, <1>12, <1>13, Zenon
<1>15. db' = tables /\ task'[t] = Continue(t, Tail(Todo(t))) /\ \A u \in Slot \ {t} : Kept(u)
  BY <1>3, <1>14, SaveTasks DEF Write
<1>16. db'.tenant = db.tenant /\ db'.companies = db.companies /\ db'.purchases = purchases
  BY <1>13, <1>15, Unwritten
<1>17. /\ DOMAIN purchases = DOMAIN db.purchases /\ purchases[p] = row
       /\ \A x \in DOMAIN db.purchases : x # p => purchases[x] = db.purchases[x]
  BY <1>6, <1>12
<1>18. ASSUME old.status = status PROVE db' = db
  <2>1. old = [status |-> old.status, sub |-> old.sub, due |-> old.due]
    BY <1>10 DEF PurchaseRow
  <2>2. row = old
    <3>1. PICK a, b : old = [status |-> status, sub |-> a, due |-> b]
      BY <1>18, <2>1
    <3>2. PICK set : set = [status |-> status]
      OBVIOUS
    <3>3. DOMAIN old = {"status", "sub", "due"} /\ DOMAIN set = {"status"} /\ set["status"] = old["status"]
      BY <3>1, <3>2
    <3>4. \A column \in DOMAIN old : (IF column \in DOMAIN set THEN set[column] ELSE old[column]) = old[column]
      BY <3>3
    <3>5. row = [column \in DOMAIN old |-> IF column \in DOMAIN set THEN set[column] ELSE old[column]]
      BY <1>7, <1>9, <3>2 DEF Put
    <3>6. old = [column \in DOMAIN old |-> old[column]]
      BY <3>1
    <3> QED
      BY <3>4, <3>5, <3>6
  <2>3. purchases = db.purchases
    <3>1. db.purchases \in Seq(PurchaseRow)
      BY TypedLens
    <3>2. db.purchases = [x \in DOMAIN db.purchases |-> db.purchases[x]]
      BY <3>1, LenProperties
    <3> QED
      BY <1>8, <1>12, <2>2, <3>2
  <2>4. db = [subs |-> db.subs, tenant |-> db.tenant, companies |-> db.companies, purchases |-> db.purchases]
    BY TypedLens
  <2>5. tables = db
    BY ONLY <1>13, <2>3, <2>4
  <2> QED
    BY <1>15, <2>5
<1> QED
  BY <1>2, <1>3, <1>4, <1>6, <1>7, <1>8, <1>11, <1>15, <1>16, <1>17, <1>18

(* An add-on is paid, by the one handler that finds it unpaid.             *)
LEMMA PayLimits ==
  ASSUME Typed(db, asaas), Typed(db', asaas'), TasksFit, TasksFit', LimitInv, ~CreditRace, NEW t \in Slot,
         ~Expires(task[t]), WritePurchase(t)
  PROVE  LimitInv'
<1>1. PICK p \in DOMAIN db.purchases, status \in {"PAID", "EXPIRED"} :
           /\ p = IF task[t].todo[1].i = None THEN task[t].row ELSE task[t].todo[1].i
           /\ task[t].todo[1].set = [status |-> status]
           /\ Has(t, "purchase") /\ task'[t] = Continue(t, Tail(Todo(t))) /\ (\A u \in Slot \ {t} : Kept(u))
           /\ db'.tenant = db.tenant /\ db'.companies = db.companies
           /\ DOMAIN db'.purchases = DOMAIN db.purchases /\ db'.purchases[p].status = status
           /\ \A x \in DOMAIN db.purchases : x # p => db'.purchases[x] = db.purchases[x]
           /\ db.purchases[p].status = status => db' = db
  BY PurchasePut
<1>2. PICK r : r = task[t]
  OBVIOUS
<1>3. PICK q : q = task'[t]
  OBVIOUS
<1>4. IsTask(r) /\ IsTask(q) /\ r.todo # <<>> /\ r.op # "idle" /\ Is(r.todo[1], "purchase") /\ NextIs(r, "purchase")
  <2>1. Has(t, "purchase")
    BY <1>1
  <2> QED
    BY <1>2, <1>3, <2>1, Steps, BusyOp, NextTask DEF Todo, NextIs
<1>5. Buys(r) /\ Len(r.todo) = 2 /\ Is(r.todo[2], "credit") /\ r.todo[1].set = [status |-> "PAID"] /\ Bought(r) = p
  BY <1>1, <1>2, <1>4, PaidHead
<1>6. status = "PAID"
  <2>1. PICK set : set = [status |-> status] /\ set = [status |-> "PAID"]
    BY <1>1, <1>2, <1>5
  <2>2. set.status = status /\ set.status = "PAID"
    BY <2>1
  <2> QED
    BY <2>2
<1>7. t \in Request
  <2>1. r.op \in {"buyAddOn", "addOnPaid"}
    BY <1>4, <1>5, BuysBy
  <2>2. r # Idle
    BY <1>4, IdleTask
  <2>3. IF t \in Cron THEN r.op = t ELSE r.op \notin Cron
    BY <1>2, <2>2 DEF TasksFit, Fits
  <2> QED
    BY <2>1, <2>3 DEF Cron, Slot
<1>8. p \notin PaidOff(db)
  <2>1. db' # db
    BY <1>7 DEF CreditRace
  <2> QED
    BY <1>1, <1>6, <2>1 DEF PaidOff
<1>9. PaidOff(db') = PaidOff(db) \cup {p}
  BY <1>1, <1>6 DEF PaidOff
<1>10. q.op = r.op /\ q.on = r.on /\ q.row = r.row /\ q.todo = Tail(r.todo)
  <2>1. Has(t, "purchase") /\ q = Continue(t, Tail(Todo(t))) /\ Left(task[t]) >= 2
    BY <1>1, <1>2, <1>3, <1>5 DEF Left
  <2> QED
    BY <1>2, <2>1, GoesOn
<1>11. /\ Follow(r, q, 1) /\ q.todo # <<>> /\ q.todo[1] = r.todo[2]
  <2>1. /\ Follow(r, q, 1) /\ q.todo # <<>> /\ 1 \in DOMAIN q.todo
        /\ \A k \in DOMAIN q.todo : q.todo[k] = r.todo[k + 1] /\ k + 1 \in DOMAIN r.todo
    BY <1>4, <1>10, TailFollows
  <2>2. 1 + 1 = 2
    OBVIOUS
  <2> QED
    BY <2>1, <2>2
<1>12. ~Expires(r) /\ ~Expires(q) /\ Crediting(q) /\ Bought(q) = p
  BY <1>2, <1>5, <1>10, <1>11 DEF Expires, Crediting, NextIs, Bought
<1>13. Plans(q) => Plans(r)
  BY <1>11, <1>12 DEF Plans, Follow
<1>14. (\A x : ~Lists(q, x)) /\ \A x : Waits(q, x) => x = p
  BY <1>12 DEF Lists, Waits, Taken
<1>15. Sets(q, db') /\ Backed(q, db')
  <2>1. ~NextIs(q, "limit")
    BY <1>5, <1>11 DEF NextIs, Is
  <2> QED
    BY <1>9, <1>12, <1>14, <2>1 DEF Sets, Backed
<1>16. \A u \in Slot \ {t} : Sets(task'[u], db')
  BY <1>1, SetsKept DEF LimitInv
<1>17. ASSUME NEW u \in Slot \ {t} PROVE ~(Crediting(task[u]) /\ Bought(task[u]) = p) /\ ~Lists(task[u], p)
  BY <1>8 DEF LimitInv, Backed
<1>18. Clear(t)
  BY <1>2, <1>3, <1>9, <1>12, <1>13, <1>14, <1>15, <1>16, <1>17 DEF Clear
<1>19. \A x \in Counted : x \in PaidOff(db') /\ ~Waits(q, x)
  BY <1>8, <1>9, <1>14, CountedIn
<1>20. ~Moved(r) /\ ~Sinking(r, db)
  BY <1>4, <1>12 DEF Moved, Sinking, NextIs, Is
<1>21. Bounded'
  BY <1>1, <1>2, <1>3, <1>19, <1>20, BoundKept
<1> QED
  BY <1>1, <1>18, <1>21, LimitKept

(* An add-on ends, that is off the limit already.                          *)
LEMMA EndLimits ==
  ASSUME Typed(db, asaas), Typed(db', asaas'), TasksFit, TasksFit', LimitInv, NEW t \in Slot,
         Expires(task[t]), WritePurchase(t)
  PROVE  LimitInv'
<1>1. PICK p \in DOMAIN db.purchases, status \in {"PAID", "EXPIRED"} :
           /\ p = IF task[t].todo[1].i = None THEN task[t].row ELSE task[t].todo[1].i
           /\ task[t].todo[1].set = [status |-> status]
           /\ Has(t, "purchase") /\ task'[t] = Continue(t, Tail(Todo(t))) /\ (\A u \in Slot \ {t} : Kept(u))
           /\ db'.tenant = db.tenant /\ db'.companies = db.companies
           /\ DOMAIN db'.purchases = DOMAIN db.purchases /\ db'.purchases[p].status = status
           /\ \A x \in DOMAIN db.purchases : x # p => db'.purchases[x] = db.purchases[x]
           /\ db.purchases[p].status = status => db' = db
  BY PurchasePut
<1>2. PICK r : r = task[t]
  OBVIOUS
<1>3. PICK q : q = task'[t]
  OBVIOUS
<1>4. /\ IsTask(r) /\ IsTask(q) /\ r.todo # <<>> /\ r.op # "idle" /\ Is(r.todo[1], "purchase") /\ Expires(r)
      /\ 1 \in DOMAIN r.todo
  <2>1. Has(t, "purchase")
    BY <1>1
  <2> QED
    BY <1>2, <1>3, <2>1, Steps, BusyOp, NextTask, HeadAt DEF Todo
<1>5. /\ r.todo[1].i # None /\ r.todo[1].set = [status |-> "EXPIRED"]
      /\ 2 \in DOMAIN r.todo => Is(r.todo[2], "credit")
      /\ 3 \in DOMAIN r.todo => Is(r.todo[3], "floor")
  <2>1. ~Is(r.todo[1], "credit") /\ ~Is(r.todo[1], "floor") /\ ~Found(r.todo[1])
    BY <1>4 DEF Is, Found
  <2> QED
    BY <1>4, <2>1, JobHead
<1>6. status = "EXPIRED"
  <2>1. PICK set : set = [status |-> status] /\ set = [status |-> "EXPIRED"]
    BY <1>1, <1>2, <1>5
  <2>2. set.status = status /\ set.status = "EXPIRED"
    BY <2>1
  <2> QED
    BY <2>2
<1>7. EndsAt(r, 1, p) /\ Lists(r, p) /\ Waits(r, p)
  <2>1. EndsAt(r, 1, p)
    BY <1>1, <1>2, <1>4, <1>5 DEF EndsAt
  <2> QED
    BY <1>4, <2>1 DEF Lists, Waits, Taken
<1>8. PaidOff(db') = PaidOff(db) \ {p}
  BY <1>1, <1>6 DEF PaidOff
<1>9. q = Idle \/ (q.op = r.op /\ q.on = r.on /\ q.row = r.row /\ q.todo = Tail(r.todo))
  BY <1>1, <1>2, <1>3, TailFields
<1>10. /\ q = Idle \/ Follow(r, q, 1)
       /\ ~NextIs(q, "limit") /\ ~Crediting(q)
       /\ \A x : ~Waits(q, x)
       /\ \A x : Lists(q, x) => x \in PaidOff(db) /\ x # p
  <2>1. CASE q = Idle
    BY <2>1, IdleApart, IdleTask DEF NextIs, Crediting
  <2>2. CASE q # Idle
    <3>1. /\ q.op = r.op /\ Follow(r, q, 1) /\ q.todo # <<>> /\ 1 \in DOMAIN q.todo
          /\ \A k \in DOMAIN q.todo : q.todo[k] = r.todo[k + 1] /\ k + 1 \in DOMAIN r.todo
      BY <1>4, <1>9, <2>2, TailFollows
    <3>2. Is(q.todo[1], "credit") /\ (2 \in DOMAIN q.todo => Is(q.todo[2], "floor"))
      <4>1. 1 + 1 = 2 /\ 2 + 1 = 3
        OBVIOUS
      <4> QED
        BY <1>5, <3>1, <4>1
    <3>3. Expires(q) /\ ~NextIs(q, "limit") /\ ~Crediting(q)
      BY <1>4, <3>1, <3>2 DEF Expires, NextIs, Crediting, Is
    <3>4. \A x : ~Waits(q, x)
      BY <3>2, <3>3 DEF Waits, Taken, EndsAt, Is
    <3>5. ASSUME NEW x, Lists(q, x) PROVE x \in PaidOff(db) /\ x # p
      <4>1. PICK k : EndsAt(q, k, x)
        BY <3>5 DEF Lists
      <4>2. EndsAt(r, k + 1, x)
        BY <3>1, <4>1 DEF Follow
      <4>3. k \in DOMAIN q.todo
        BY <4>1 DEF EndsAt
      <4>4. k \in Nat /\ 1 <= k
        BY <1>4, <4>3, AtPlace
      <4>5. k + 1 # 1
        BY <4>4
      <4>6. x # p
        BY <1>2, <1>4, <1>7, <4>2, <4>5 DEF LimitInv, Backed
      <4>7. Lists(r, x)
        BY <1>4, <4>2 DEF Lists
      <4> QED
        BY <1>2, <4>6, <4>7 DEF LimitInv, Backed
    <3> QED
      BY <3>1, <3>3, <3>4, <3>5
  <2> QED
    BY <2>1, <2>2
<1>11. Sets(q, db') /\ \A x : Lists(q, x) => x \in PaidOff(db')
  BY <1>8, <1>10 DEF Sets
<1>12. \A x \in PaidOff(db) : x \in PaidOff(db') \/ Lists(r, x)
  BY <1>7, <1>8
<1>13. Clear(t)
  BY <1>1, <1>2, <1>3, <1>10, <1>11, <1>12, FollowClear
<1>14. \A x \in Counted : x \in PaidOff(db') /\ ~Waits(q, x)
  BY <1>2, <1>7, <1>8, <1>10, CountedIn
<1>15. ~Moved(r) /\ ~Sinking(r, db)
  BY <1>4 DEF Moved, Sinking, NextIs, Is
<1>16. Bounded'
  BY <1>1, <1>2, <1>3, <1>14, <1>15, BoundKept
<1> QED
  BY <1>1, <1>13, <1>16, LimitKept

(* The company is made with the limit of the plan, read just before.       *)
LEMMA InsertCompanyLimits ==
  ASSUME Typed(db, asaas), Typed(db', asaas'), TasksFit, TasksFit', PayInv, LimitInv, ~PlanRace,
         NEW t \in Slot, InsertCompany(t)
  PROVE  LimitInv'
<1>1. PICK r : r = task[t]
  OBVIOUS
<1>2. PICK q : q = task'[t]
  OBVIOUS
<1>3. PICK n : n = Head(Todo(t)).limit
  OBVIOUS
<1>4. PICK companies : companies = Append(db.companies, n)
  OBVIOUS
<1>5. PICK tables : tables = [db EXCEPT !.companies = companies]
  OBVIOUS
<1>6. Has(t, "newCompany") /\ Write(t, tables, Tail(Todo(t)))
  BY <1>3, <1>4, <1>5 DEF InsertCompany
<1>7. /\ db' = tables /\ q = Continue(t, Tail(Todo(t))) /\ (\A u \in Slot \ {t} : Kept(u))
  BY <1>2, <1>6, SaveTasks DEF Write
<1>8. db'.tenant = db.tenant /\ db'.purchases = db.purchases /\ db'.companies = companies
  BY <1>5, <1>7, Unwritten
<1>9. /\ IsTask(r) /\ IsTask(q) /\ r.todo # <<>> /\ r.op # "idle" /\ Is(r.todo[1], "newCompany") /\ 1 \in DOMAIN r.todo
      /\ r.op = "cyclePaid" /\ r # Idle
  <2>1. /\ IsTask(r) /\ IsTask(q) /\ r.todo # <<>> /\ r.op # "idle" /\ Is(r.todo[1], "newCompany") /\ r # Idle
    BY <1>1, <1>2, <1>6, Steps, BusyOp, NextTask DEF Todo
  <2>2. Len(r.todo) - 1 \in Nat /\ At(r.op, r.on, r.todo[1], Len(r.todo) - 1, r.todo[Len(r.todo)])
    BY <1>1, <1>6, Steps
  <2> QED
    BY <2>1, <2>2, AtNewCompany, HeadAt
<1>10. db.companies = <<>>
  <2>1. Founds(r, db)
    BY <1>1 DEF PayInv, Allowed
  <2> QED
    BY <1>9, <2>1 DEF Founds, Renewing
<1>11. n = db.tenant.plan
  <2>1. IF t \in Cron THEN r.op = t ELSE r.op \notin Cron
    BY <1>1, <1>9 DEF TasksFit, Fits
  <2>2. t \in Request
    BY <1>9, <2>1 DEF Cron, Slot
  <2> QED
    BY <1>3, <2>2 DEF PlanRace
<1>12. \A c \in DOMAIN db'.companies : db'.companies[c] = db'.tenant.plan
  <2>1. companies = <<n>>
    BY <1>4, <1>10
  <2>2. \A c \in DOMAIN companies : companies[c] = n
    BY <2>1
  <2> QED
    BY <1>8, <1>11, <2>2
<1>13. Bounded'
  BY <1>12, BoundSet
<1>14. PaidOff(db') = PaidOff(db)
  BY <1>8 DEF PaidOff
<1>15. q = Idle \/ (q.op = r.op /\ q.on = r.on /\ q.row = r.row /\ q.todo = Tail(r.todo))
  BY <1>1, <1>7, TailFields
<1>16. ~Expires(r)
  BY <1>9 DEF Expires, Floorer
<1>17. /\ q = Idle \/ Follow(r, q, 1)
       /\ ~NextIs(q, "limit") /\ ~Crediting(q) /\ \A x : ~Lists(q, x)
  <2>1. CASE q = Idle
    BY <2>1, IdleApart, IdleTask DEF NextIs, Crediting
  <2>2. CASE q # Idle
    <3>1. /\ q.op = r.op /\ Follow(r, q, 1) /\ q.todo # <<>> /\ 1 \in DOMAIN q.todo
          /\ \A k \in DOMAIN q.todo : q.todo[k] = r.todo[k + 1] /\ k + 1 \in DOMAIN r.todo
      BY <1>9, <1>15, <2>2, TailFollows
    <3>2. q.todo[1] = r.todo[2] /\ 2 \in DOMAIN r.todo
      <4>1. 1 + 1 = 2
        OBVIOUS
      <4> QED
        BY <3>1, <4>1
    <3>3. ~Is(r.todo[1], "tenant") /\ ~Is(r.todo[1], "purchase")
      BY <1>9 DEF Is
    <3>4. ~Is(r.todo[2], "limit") /\ ~Is(r.todo[2], "credit")
      BY <1>9, <1>16, <3>2, <3>3, LimitNext, CreditNext
    <3>5. ~Expires(q)
      BY <1>16, <3>1 DEF Expires
    <3> QED
      BY <3>1, <3>2, <3>4, <3>5 DEF NextIs, Crediting, Lists
  <2> QED
    BY <2>1, <2>2
<1>18. Sets(q, db')
  BY <1>17 DEF Sets
<1>19. Clear(t)
  BY <1>1, <1>2, <1>7, <1>8, <1>14, <1>17, <1>18, FollowClear
<1> QED
  BY <1>7, <1>13, <1>19, LimitKept

LEMMA StepLimits ==
  ASSUME Typed(db, asaas), Typed(db', asaas'), TasksFit, TasksFit', PayInv, LimitInv, ~PlanRace, ~CreditRace,
         NEW t \in Slot, Step(t)
  PROVE  LimitInv'
<1>1. CASE WritePurchase(t)
  BY <1>1, PayLimits, EndLimits
<1>2. CASE InsertRow(t)
  BY <1>2, InsertSubLimits, InsertPurchaseLimits DEF InsertRow
<1>3. CASE WriteLimit(t)
  <2>1. Has(t, "limit") \/ Has(t, "credit")
    BY <1>3 DEF WriteLimit
  <2>2. CASE Has(t, "limit")
    BY <1>3, <2>2, SetLimitLimits
  <2>3. CASE Has(t, "credit")
    BY <1>3, <2>3, CreditLimits, TakeLimits
  <2> QED
    BY <2>1, <2>2, <2>3
<1> QED
  BY <1>1, <1>2, <1>3, WriteSubLimits, WriteTenantLimits, LinkLimits, ReadFloorLimits, CheckFloorLimits, ActivateLimits, ReadOnboardLimits,
     InsertCompanyLimits, ReadOthersLimits, GatewayCallLimits DEF Step

----------------------------------------------------------------------------
(* The lists of the daily jobs: a block for each row, in some order.       *)

(* All that the blocks write.                                              *)
LEMMA BlocksListed ==
  ASSUME NEW I, NEW todo, \A i \in I : Listed(todo[i])
  PROVE  \E W : \A i \in I : todo[i] \in Seq(W)
<1> DEFINE W == UNION {{todo[i][k] : k \in DOMAIN todo[i]} : i \in I}
<1>1. ASSUME NEW i \in I PROVE todo[i] \in Seq(W)
  <2>1. PICK s : s = todo[i]
    OBVIOUS
  <2> DEFINE S == {s[k] : k \in DOMAIN s}
  <2>2. s \in Seq(S)
    BY <2>1 DEF Listed
  <2>3. S \subseteq W
    BY <2>1
  <2> HIDE DEF S, W
  <2>4. s \in Seq(W)
    BY <2>2, <2>3
  <2> QED
    BY <2>1, <2>4
<1> HIDE DEF W
<1> QED
  BY <1>1

LEMMA EachStarts ==
  ASSUME NEW kind, NEW I, IsFiniteSet(I), NEW todo,
         \A i \in I : Listed(todo[i]) /\ 1 \in DOMAIN todo[i] /\ Is(todo[i][1], kind),
         NEW order \in SetToSeqs(I), Each(order, todo) # <<>>
  PROVE  Is(Each(order, todo)[1], kind)
<1>1. PICK W : \A i \in I : todo[i] \in Seq(W)
  BY BlocksListed
<1> DEFINE G == {s \in Seq(W) : 1 \in DOMAIN s /\ Is(s[1], kind)}
<1>2. \A i \in I : todo[i] \in G
  BY <1>1
<1>3. ASSUME NEW a \in G, NEW b \in G PROVE a \o b \in G
  <2>1. a \o b \in Seq(W)
    BY ConcatProperties
  <2>2. Listed(a) /\ Listed(b)
    BY ListedIn
  <2>3. PICK m \in Nat : m = Len(a)
    BY <2>2, ListedLen
  <2>4. PICK n \in Nat : n = Len(b)
    BY <2>2, ListedLen
  <2>5. DOMAIN a = 1 .. m /\ DOMAIN (a \o b) = 1 .. m + n /\ \A k \in 1 .. m : (a \o b)[k] = a[k]
    BY <2>2, <2>3, <2>4, Joined
  <2>6. 1 \in 1 .. m /\ 1 \in 1 .. m + n
    BY <2>5
  <2> QED
    BY <2>1, <2>5, <2>6
<1> HIDE DEF G
<1>4. Each(order, todo) \in G
  BY <1>2, <1>3, EachIn
<1> QED
  BY <1>4 DEF G

LEMMA EachSteps ==
  ASSUME NEW I, IsFiniteSet(I), NEW todo, \A i \in I : Listed(todo[i]),
         NEW order \in SetToSeqs(I), Each(order, todo) # <<>>
  PROVE  \E n \in Nat \ {0} : \E g :
           /\ order \in [1 .. n -> I] /\ \A i, j \in 1 .. n : order[i] = order[j] => i = j
           /\ Each(order, todo) = g[n]
           /\ \A i \in 1 .. n : g[i] = IF i = 1 THEN todo[order[i]] ELSE g[i - 1] \o todo[order[i]]
<1>1. PICK W : \A i \in I : todo[i] \in Seq(W)
  BY BlocksListed
<1>2. PICK n \in Nat : n = Cardinality(I)
  BY FS_CardinalityType
<1>3. order \in [1 .. n -> I] /\ \A i, j \in 1 .. n : order[i] = order[j] => i = j
  BY <1>2 DEF SetToSeqs
<1> DEFINE blocks == [k \in DOMAIN order |-> todo[order[k]]]
<1>4. \A k \in 1 .. n : blocks[k] = todo[order[k]] /\ blocks[k] \in Seq(W)
  BY <1>1, <1>3
<1>5. DOMAIN blocks = 1 .. n /\ blocks \in Seq(Seq(W))
  <2>1. blocks \in [1 .. n -> Seq(W)]
    BY <1>3, <1>4
  <2> QED
    BY <2>1, SeqDef
<1>6. Each(order, todo) = FlattenSeq(blocks)
  BY DEF Each
<1> HIDE DEF blocks
<1>7. Len(blocks) = n
  BY <1>5, LenProperties
<1>8. n # 0
  <2>1. SUFFICES ASSUME n = 0 PROVE FALSE
    OBVIOUS
  <2>2. blocks = <<>>
    BY <1>5, <1>7, <2>1, EmptySeq
  <2>3. FlattenSeq(blocks) = blocks
    BY <1>7, <2>1 DEF FlattenSeq
  <2> QED
    BY <1>6, <2>2, <2>3
<1>9. \A a, b \in Seq(W) : a \o b \in Seq(W)
  BY ConcatProperties
<1>10. PICK g : /\ FlattenSeq(blocks) = g[n]
                /\ \A i \in 1 .. n : g[i] = IF i = 1 THEN blocks[i] ELSE g[i - 1] \o blocks[i]
  <2>1. PICK G : G = Seq(W)
    OBVIOUS
  <2>2. Len(blocks) \in Nat \ {0} /\ (\A j \in 1 .. Len(blocks) : blocks[j] \in G) /\ \A a, b \in G : a \o b \in G
    BY <1>4, <1>7, <1>8, <1>9, <2>1
  <2>3. \E g : /\ FlattenSeq(blocks) = g[Len(blocks)]
               /\ \A i \in 1 .. Len(blocks) : g[i] = IF i = 1 THEN blocks[i] ELSE g[i - 1] \o blocks[i]
    BY <2>2, FlattenSteps
  <2> QED
    BY <1>7, <2>3
<1>11. \A i \in 1 .. n : g[i] = IF i = 1 THEN todo[order[i]] ELSE g[i - 1] \o todo[order[i]]
  BY <1>4, <1>10
<1> QED
  BY <1>3, <1>6, <1>8, <1>10, <1>11

(* The add-ons that a list of writes ends, each of them once.              *)
Names(s) == {s[k].i : k \in {k \in DOMAIN s : Is(s[k], "purchase")}}
Once(s) == \A k, l \in DOMAIN s : Is(s[k], "purchase") /\ Is(s[l], "purchase") /\ s[k].i = s[l].i => k = l

LEMMA OnceJoined ==
  ASSUME NEW a, NEW b, Listed(a), Listed(b), Once(a), Once(b), NEW P, NEW Q, Names(a) \subseteq P, Names(b) \subseteq Q,
         P \cap Q = {}
  PROVE  Listed(a \o b) /\ Once(a \o b) /\ Names(a \o b) \subseteq P \cup Q
<1>1. PICK s : s = a \o b
  OBVIOUS
<1>2. PICK m \in Nat : m = Len(a)
  BY ListedLen
<1>3. PICK n \in Nat : n = Len(b)
  BY ListedLen
<1>4. /\ Listed(s) /\ DOMAIN a = 1 .. m /\ DOMAIN b = 1 .. n /\ DOMAIN s = 1 .. m + n
      /\ \A k \in 1 .. m : s[k] = a[k]
      /\ \A k \in 1 .. n : s[m + k] = b[k]
  BY <1>1, <1>2, <1>3, Joined
<1>5. ASSUME NEW k \in DOMAIN s PROVE (k \in DOMAIN a /\ s[k] = a[k]) \/ \E h \in DOMAIN b : (k = m + h /\ s[k] = b[h])
  <2>1. CASE k <= m
    BY <1>4, <2>1
  <2>2. CASE ~(k <= m)
    <3>1. k - m \in 1 .. n /\ k = m + (k - m)
      BY <1>4, <2>2
    <3> QED
      BY <1>4, <3>1
  <2> QED
    BY <2>1, <2>2
<1>6. ASSUME NEW k \in DOMAIN s, Is(s[k], "purchase")
      PROVE  \/ k \in DOMAIN a /\ s[k] = a[k] /\ s[k].i \in P
             \/ \E h \in DOMAIN b : k = m + h /\ s[k] = b[h] /\ s[k].i \in Q
  BY <1>5, <1>6 DEF Names
<1>7. Names(s) \subseteq P \cup Q
  BY <1>6 DEF Names
<1>8. ASSUME NEW k \in DOMAIN s, NEW l \in DOMAIN s, Is(s[k], "purchase"), Is(s[l], "purchase"), s[k].i = s[l].i
      PROVE  k = l
  <2>1. CASE s[k].i \in P
    <3>1. s[k].i \notin Q
      BY <2>1
    <3>2. k \in DOMAIN a /\ l \in DOMAIN a /\ s[k] = a[k] /\ s[l] = a[l]
      BY <1>6, <1>8, <3>1
    <3> QED
      BY <1>8, <3>2 DEF Once
  <2>2. CASE s[k].i \notin P
    <3>1. PICK h \in DOMAIN b : k = m + h /\ s[k] = b[h]
      BY <1>6, <1>8, <2>2
    <3>2. PICK i \in DOMAIN b : l = m + i /\ s[l] = b[i]
      BY <1>6, <1>8, <2>2
    <3>3. h = i
      BY <1>8, <3>1, <3>2 DEF Once
    <3> QED
      BY <3>1, <3>2, <3>3
  <2> QED
    BY <2>1, <2>2
<1>9. Once(s)
  BY <1>8 DEF Once
<1> QED
  BY <1>1, <1>4, <1>7, <1>9

(* The job ends each add-on it has found once.                             *)
LEMMA ExpiresOnce ==
  ASSUME NEW I, IsFiniteSet(I), NEW todo, \A p \in I : Listed(todo[p]) /\ Once(todo[p]) /\ Names(todo[p]) \subseteq {p},
         NEW order \in SetToSeqs(I), NEW s, s = Each(order, todo), s # <<>>
  PROVE  Once(s) /\ Names(s) \subseteq I
<1>h. Each(order, todo) # <<>> /\ \A p \in I : Listed(todo[p])
  OBVIOUS
<1>1. PICK n \in Nat \ {0} : \E g :
        /\ order \in [1 .. n -> I] /\ \A i, j \in 1 .. n : order[i] = order[j] => i = j
        /\ Each(order, todo) = g[n]
        /\ \A i \in 1 .. n : g[i] = IF i = 1 THEN todo[order[i]] ELSE g[i - 1] \o todo[order[i]]
  BY <1>h, EachSteps
<1>g. PICK g :
        /\ Each(order, todo) = g[n]
        /\ \A i \in 1 .. n : g[i] = IF i = 1 THEN todo[order[i]] ELSE g[i - 1] \o todo[order[i]]
  BY <1>1
<1>o. order \in [1 .. n -> I] /\ \A i, j \in 1 .. n : order[i] = order[j] => i = j
  BY <1>1
<1> DEFINE Before(i) == {order[j] : j \in 1 .. i}
           Good(i) == Listed(g[i]) /\ Once(g[i]) /\ Names(g[i]) \subseteq Before(i)
           Failing == {i \in 1 .. n : ~Good(i)}
<1>2. Failing = {}
  <2> SUFFICES ASSUME Failing # {} PROVE FALSE
    OBVIOUS
  <2>0. 1 .. n \subseteq Nat
    OBVIOUS
  <2>1. PICK F \in SUBSET Nat : F = Failing
    BY <2>0
  <2>2. PICK i \in F : \A m \in F : i <= m
    BY <2>1, SmallestFailure
  <2>3. i \in 1 .. n /\ ~Good(i)
    BY <2>1
  <2>4. order[i] \in I
    BY <1>o, <2>3
  <2>5. Listed(todo[order[i]]) /\ Once(todo[order[i]]) /\ Names(todo[order[i]]) \subseteq {order[i]}
    BY <2>4
  <2>6. order[i] \in Before(i)
    BY <2>3
  <2>7. CASE i = 1
    <3>1. g[i] = todo[order[i]]
      BY <1>g, <2>3, <2>7
    <3>2. Good(i)
      BY <2>5, <2>6, <3>1
    <3> QED
      BY <2>3, <3>2
  <2>8. CASE i # 1
    <3>1. i - 1 \in 1 .. n /\ ~(i <= i - 1)
      BY <2>3, <2>8
    <3>2. Good(i - 1)
      BY <2>1, <2>2, <3>1
    <3>3. g[i] = g[i - 1] \o todo[order[i]]
      BY <1>g, <2>3, <2>8
    <3>4. Before(i - 1) \cap {order[i]} = {}
      <4>1. \A j \in 1 .. i - 1 : j \in 1 .. n /\ j # i
        BY <2>3
      <4> QED
        BY <1>o, <2>3, <4>1
    <3>5. Before(i - 1) \cup {order[i]} \subseteq Before(i)
      <4>1. 1 .. i - 1 \subseteq 1 .. i
        BY <2>3
      <4> QED
        BY <2>6, <4>1
    <3> HIDE DEF Before
    <3>6. Listed(g[i]) /\ Once(g[i]) /\ Names(g[i]) \subseteq Before(i - 1) \cup {order[i]}
      <4>1. Listed(g[i - 1]) /\ Once(g[i - 1]) /\ Names(g[i - 1]) \subseteq Before(i - 1)
        BY <3>2
      <4>2. PICK a : a = g[i - 1]
        OBVIOUS
      <4>3. PICK b : b = todo[order[i]]
        OBVIOUS
      <4>4. PICK P : P = Before(i - 1)
        OBVIOUS
      <4>5. PICK Q : Q = {order[i]}
        OBVIOUS
      <4>6. /\ Listed(a) /\ Listed(b) /\ Once(a) /\ Once(b) /\ Names(a) \subseteq P /\ Names(b) \subseteq Q
            /\ P \cap Q = {}
        BY <2>5, <3>4, <4>1, <4>2, <4>3, <4>4, <4>5
      <4>7. Listed(a \o b) /\ Once(a \o b) /\ Names(a \o b) \subseteq P \cup Q
        BY ONLY <4>6, OnceJoined
      <4> QED
        BY <3>3, <4>2, <4>3, <4>4, <4>5, <4>7
    <3>7. Good(i)
      BY <3>5, <3>6
    <3> QED
      BY <2>3, <3>7
  <2> QED
    BY <2>7, <2>8
<1>3. n \in 1 .. n
  OBVIOUS
<1>4. Good(n)
  BY <1>2, <1>3
<1>5. Before(n) \subseteq I
  BY <1>o
<1> QED
  BY <1>g, <1>4, <1>5

----------------------------------------------------------------------------
(* Handlers that start.                                                    *)

LEMMA RunningRow ==
  ASSUME NEW op, NEW s, NEW on, NEW r, r = Running(op, s, on)
  PROVE  r.row = 0
<1>0. PICK i : i = Idle
  OBVIOUS
<1>1. PICK p : p = [i EXCEPT !.op = op]
  OBVIOUS
<1>2. PICK q : q = [p EXCEPT !.todo = s]
  OBVIOUS
<1>3. r = [q EXCEPT !.on = on]
  BY <1>0, <1>1, <1>2, Zenon DEF Running
<1>4. i = [op |-> "idle", todo |-> <<>>, row |-> 0, ext |-> 0, on |-> 0, stale |-> FALSE]
  BY <1>0 DEF Idle, None
<1>5. p = [op |-> op, todo |-> <<>>, row |-> 0, ext |-> 0, on |-> 0, stale |-> FALSE]
  BY ONLY <1>4, <1>1
<1>6. q = [op |-> op, todo |-> s, row |-> 0, ext |-> 0, on |-> 0, stale |-> FALSE]
  BY ONLY <1>5, <1>2
<1>7. r = [op |-> op, todo |-> s, row |-> 0, ext |-> 0, on |-> on, stale |-> FALSE]
  BY ONLY <1>6, <1>3
<1> QED
  BY ONLY <1>7

(* It neither sets nor moves the limit first, and an add-on that it buys   *)
(* is not paid yet.                                                        *)
Unpaid(q) == ~NextIs(q, "credit") /\ ~NextIs(q, "limit") /\ (Buys(q) => Bought(q) \notin PaidOff(db))

LEMMA LaunchTask ==
  ASSUME TasksFit, NEW t \in Slot, NEW op, NEW todo, NEW on, Launch(t, op, todo, on)
  PROVE  /\ db' = db /\ task[t] = Idle /\ \A u \in Slot \ {t} : Kept(u)
         /\ todo = <<>> => task'[t] = Idle
         /\ todo # <<>> => Starts(task'[t], op, todo, on) /\ task'[t].row = 0
<1>1. /\ db' = db /\ task'[t] = (IF todo = <<>> THEN Idle ELSE Running(op, todo, on)) /\ \A u \in Slot \ {t} : Kept(u)
      /\ task[t] = Idle
  BY DEF Launch, TasksFit, Kept, Busy
<1>2. ASSUME todo # <<>> PROVE Starts(task'[t], op, todo, on) /\ task'[t].row = 0
  <2>1. PICK q : q = task'[t]
    OBVIOUS
  <2>2. q = Running(op, todo, on)
    BY <1>1, <1>2, <2>1
  <2>3. Starts(q, op, todo, on)
    BY <2>2, RunningFresh, Zenon
  <2>4. q.row = 0
    BY <2>2, RunningRow, Zenon
  <2> QED
    BY <2>1, <2>3, <2>4
<1> QED
  BY <1>1, <1>2

LEMMA IdleNext == ASSUME NEW kind PROVE ~NextIs(Idle, kind)
  BY IdleTask DEF NextIs

LEMMA LaunchLimits ==
  ASSUME Typed(db, asaas), Typed(db', asaas'), TasksFit, TasksFit', LimitInv, ~PlanRace, NEW t \in Slot,
         NEW op, op # Floorer, NEW todo, NEW on, Launch(t, op, todo, on),
         ASSUME NEW q, q = task'[t], IsTask(q), Starts(q, op, todo, on), q.row = 0, todo # <<>>
         PROVE  Unpaid(q)
  PROVE  LimitInv'
<1>1. /\ db' = db /\ task[t] = Idle /\ \A u \in Slot \ {t} : Kept(u)
      /\ todo = <<>> => task'[t] = Idle
      /\ todo # <<>> => Starts(task'[t], op, todo, on) /\ task'[t].row = 0
  BY LaunchTask
<1>2. db'.tenant.plan = db.tenant.plan /\ db'.companies = db.companies /\ PaidOff(db') = PaidOff(db)
  BY <1>1
<1>3. ~Expires(task[t]) /\ ~Moved(task[t]) /\ ~NextIs(task[t], "credit")
  BY <1>1, IdleApart, IdleNext
<1>4. CASE todo = <<>>
  <2>1. ~Expires(task'[t]) /\ ~Plans(task'[t]) /\ ~Buys(task'[t]) /\ ~NextIs(task'[t], "credit") /\ ~NextIs(task'[t], "limit")
    BY <1>1, <1>4, IdleApart, IdleNext
  <2> QED
    BY <1>1, <1>2, <1>3, <2>1, CalmKept
<1>5. CASE todo # <<>>
  <2>1. PICK q : q = task'[t]
    OBVIOUS
  <2>2. Starts(q, op, todo, on) /\ q.row = 0
    BY <1>1, <1>5, <2>1
  <2>3. Unpaid(q)
    BY <1>5, <2>1, <2>2, NextTask
  <2>4. ~Expires(q)
    BY <2>2 DEF Expires, Starts
  <2>5. ASSUME Plans(q), NEW u \in Slot \ {t} PROVE ~Plans(task[u])
    <3>1. ~Busy(t) /\ Doing(task'[t].todo, "limit")
      BY <1>1, <2>1, <2>5 DEF Plans, Busy
    <3>2. ~Doing(Todo(u), "limit")
      BY <3>1 DEF PlanRace
    <3> QED
      BY <3>2 DEF Plans, Todo
  <2>6. /\ ~Expires(task'[t]) /\ ~NextIs(task'[t], "credit") /\ ~NextIs(task'[t], "limit")
        /\ Plans(task'[t]) => \A u \in Slot \ {t} : ~Plans(task[u])
        /\ Buys(task'[t]) => Bought(task'[t]) \notin PaidOff(db)
    BY <2>1, <2>3, <2>4, <2>5 DEF Unpaid
  <2> QED
    BY <1>1, <1>2, <1>3, <2>6, CalmKept
<1> QED
  BY <1>4, <1>5

(* The handlers that set no limit, and those that credit nothing.          *)
Limiting == Upgrading \cup {"cyclePaid", Applier, Floorer}
Buying == {"buyAddOn", "addOnPaid"}

LEMMA NoLimitNext == ASSUME NEW q, IsTask(q), q.op \notin Limiting PROVE ~NextIs(q, "limit")
<1> SUFFICES ASSUME NextIs(q, "limit") PROVE FALSE
  OBVIOUS
<1>1. PICK n : n = Len(q.todo)
  OBVIOUS
<1>2. 1 \in DOMAIN q.todo /\ Is(q.todo[1], "limit")
  BY HeadAt DEF NextIs
<1>3. n - 1 \in Nat /\ At(q.op, q.on, q.todo[1], n - 1, q.todo[n])
  BY <1>1, <1>2, AtPlace
<1> QED
  BY <1>2, <1>3, LimitBy DEF Limiting

LEMMA NoCreditNext == ASSUME NEW q, IsTask(q), q.op \notin Buying \cup {Floorer} PROVE ~NextIs(q, "credit") /\ ~Buys(q)
<1>1. ~Buys(q)
  BY BuysBy DEF Buying
<1>2. SUFFICES ASSUME NextIs(q, "credit") PROVE FALSE
  BY <1>1
<1>3. Crediting(q)
  BY <1>2 DEF Crediting, Expires
<1> QED
  BY <1>1, <1>3, CreditHead

LEMMA PlainStart == ASSUME NEW q, IsTask(q), q.op \notin Limiting \cup Buying PROVE Unpaid(q)
  BY NoLimitNext, NoCreditNext DEF Unpaid, Limiting

(* An upgrade, whose last write is the limit, starts with another one.     *)
LEMMA UpgradeStart ==
  ASSUME NEW q, IsTask(q), q.op \in Upgrading, Len(q.todo) # 1
  PROVE  Unpaid(q)
<1>1. q.op \notin Buying \cup {Floorer, Applier} /\ q.op # "cyclePaid"
  BY DEF Upgrading, Buying, Floorer, Applier
<1>2. ~NextIs(q, "limit")
  <2> SUFFICES ASSUME NextIs(q, "limit") PROVE FALSE
    OBVIOUS
  <2>1. PICK n : n = Len(q.todo)
    OBVIOUS
  <2>2. 1 \in DOMAIN q.todo /\ Is(q.todo[1], "limit")
    BY HeadAt DEF NextIs
  <2>3. n \in Nat /\ n - 1 \in Nat /\ At(q.op, q.on, q.todo[1], n - 1, q.todo[n])
    BY <2>1, <2>2, AtPlace
  <2>4. n - 1 = 0
    BY <1>1, <2>2, <2>3, LimitBy
  <2>5. n = 1
    BY <2>3, <2>4
  <2> QED
    BY <2>1, <2>5
<1> QED
  BY <1>1, <1>2, NoCreditNext DEF Unpaid

LEMMA HeadFirst ==
  ASSUME NEW a, NEW s, Listed(s), NEW r, r = <<a>> \o s
  PROVE  r[1] = a
<1>1. PICK q : q = <<a>>
  OBVIOUS
<1>2. q \in Seq({a}) /\ Len(q) = 1 /\ q[1] = a
  BY <1>1
<1>3. Listed(q)
  BY <1>2, ListedIn
<1>4. r = q \o s
  BY <1>1
<1>5. \A k \in 1 .. Len(q) : r[k] = q[k]
  BY <1>3, <1>4, Joined
<1> QED
  BY <1>2, <1>5

LEMMA UpgradeLimits ==
  ASSUME Typed(db, asaas), Typed(db', asaas'), TasksFit, TasksFit', LimitInv, ~PlanRace, NEW t \in Slot,
         NEW plan \in Plan, NEW covered \in Covered, Upgrade(t, plan, covered)
  PROVE  LimitInv'
<1>0. PICK i : i = Latest(Current)
  OBVIOUS
<1>1. i \in DOMAIN db.subs
  BY <1>0, LatestIn, CurrentSubs DEF Upgrade
<1>2. PICK op : op = "upgrade"
  OBVIOUS
<1>3. op \in Upgrading /\ op # Floorer
  BY <1>2 DEF Upgrading, Floorer
<1>4. PICK a : a = SetSub(i, [pending |-> plan, due |-> TRUE])
  OBVIOUS
<1>5. PICK c : c = Charge("upgrade", i, plan)
  OBVIOUS
<1>6. PICK s : s = IF covered THEN ApplyUpgrade(i, plan) ELSE <<c>>
  OBVIOUS
<1>7. PICK r : r = <<a>> \o s
  OBVIOUS
<1>8. Launch(t, op, r, i)
  <2>1. Ask(t, op, r, i)
    BY <1>0, <1>2, <1>4, <1>5, <1>6, <1>7, Zenon DEF Upgrade
  <2> QED
    BY <2>1 DEF Ask
<1>9. Listed(s)
  <2>1. CASE covered
    BY <2>1, <1>1, <1>3, <1>6, ApplyUpgradeFits DEF Ending, Fitting
  <2>2. CASE ~covered
    <3>1. s \in Seq({c})
      BY <2>2, <1>6
    <3> QED
      BY <3>1, ListedIn
  <2> QED
    BY <2>1, <2>2
<1>10. Is(r[1], "sub")
  <2>1. r[1] = a
    BY <1>7, <1>9, HeadFirst
  <2>2. a.kind = "sub"
    BY <1>4 DEF SetSub
  <2> QED
    BY <2>1, <2>2 DEF Is
<1>11. ASSUME NEW q, IsTask(q), Starts(q, op, r, i) PROVE Unpaid(q)
  <2>1. q.op \in Upgrading /\ q.todo = r
    BY <1>3, <1>11 DEF Starts
  <2>2. ~NextIs(q, "limit")
    BY <1>10, <2>1 DEF NextIs, Is
  <2>3. q.op \notin Buying \cup {Floorer}
    BY <2>1 DEF Upgrading, Buying, Floorer
  <2> QED
    BY <1>11, <2>2, <2>3, NoCreditNext DEF Unpaid
<1> QED
  BY <1>3, <1>8, <1>11, LaunchLimits

LEMMA UpgradePaidLimits ==
  ASSUME Typed(db, asaas), Typed(db', asaas'), TasksFit, TasksFit', LimitInv, ~PlanRace, NEW t \in Slot,
         NEW m \in asaas.post, UpgradePaid(t, m)
  PROVE  LimitInv'
<1>0. PICK i : i = BillOf(m).of
  OBVIOUS
<1>1. PICK plan : plan = BillOf(m).plan
  OBVIOUS
<1>2. i \in DOMAIN db.subs /\ plan \in Plan
  <2>1. m.event \in OfPayment /\ BillOf(m).for = "upgrade"
    BY DEF UpgradePaid, Paid, OfPayment
  <2>2. m.of \in DOMAIN asaas.bills
    BY <2>1 DEF Typed, MessageTyped
  <2> QED
    BY <2>1, <2>2, <1>0, <1>1 DEF Typed, BillTyped, BillOf
<1>3. PICK op : op = "upgradePaid"
  OBVIOUS
<1>4. op \in Upgrading /\ op # Floorer
  BY <1>3 DEF Upgrading, Floorer
<1>5. PICK r : r = ApplyUpgrade(i, plan)
  OBVIOUS
<1>6. Receive(t, m, op, r, i)
  BY <1>0, <1>1, <1>3, <1>5, Zenon DEF UpgradePaid
<1>7. PICK n \in {6, 7} : Ending(op, i, r, n, SetLimit(plan), db, asaas)
  BY <1>2, <1>4, <1>5, ApplyUpgradeFits
<1>8. Len(r) # 1
  BY <1>7 DEF Ending
<1>9. ASSUME NEW q, IsTask(q), Starts(q, op, r, i) PROVE Unpaid(q)
  BY <1>4, <1>8, <1>9, UpgradeStart DEF Starts
<1> QED
  BY <1>4, <1>6, <1>9, LaunchLimits DEF Receive

(* An add-on that is bought is paid later.                                 *)
LEMMA BuyAddOnLimits ==
  ASSUME Typed(db, asaas), Typed(db', asaas'), TasksFit, TasksFit', LimitInv, ~PlanRace, NEW t \in Slot,
         NEW i, NEW free, BuyAddOn(t, i, free)
  PROVE  LimitInv'
<1>1. PICK todo : Launch(t, "buyAddOn", todo, i)
  BY DEF BuyAddOn, Ask
<1>2. PICK op : op = "buyAddOn"
  OBVIOUS
<1>3. Launch(t, op, todo, i) /\ op # Floorer /\ op \notin Limiting
  BY <1>1, <1>2 DEF Floorer, Limiting, Upgrading, Applier
<1>4. db' = db
  BY <1>1 DEF Launch
<1>5. ASSUME NEW q, q = task'[t], IsTask(q), Starts(q, op, todo, i), q.row = 0 PROVE Unpaid(q)
  <2>1. q.op = "buyAddOn" /\ q.op \notin Limiting
    BY <1>2, <1>3, <1>5 DEF Starts
  <2>2. 0 \notin DOMAIN db.purchases
    BY TypedLens
  <2>3. Is(q.todo[1], "newPurchase")
    <3>1. Fits(t, q, db', asaas')
      <4>1. Slot' = Slot
        BY DEF Slot, Cron
      <4> QED
        BY <1>5, <4>1 DEF TasksFit
    <3>2. PICK d : d = db'
      OBVIOUS
    <3>3. Fits(t, q, d, asaas')
      BY <3>1, <3>2
    <3>4. Is(q.todo[1], "newPurchase") \/ q.row \in DOMAIN d.purchases
      BY <2>1, <3>3 DEF Fits
    <3> QED
      BY <1>4, <1>5, <2>2, <3>2, <3>4
  <2>4. ~NextIs(q, "credit")
    BY <2>3 DEF NextIs, Is
  <2>5. Bought(q) \notin PaidOff(db)
    BY <1>5, <2>1, <2>2 DEF Bought, PaidOff
  <2> QED
    BY <1>5, <2>1, <2>4, <2>5, NoLimitNext DEF Unpaid
<1> QED
  BY <1>3, <1>5, LaunchLimits

(* The add-on that a payment confirms is pending.                          *)
LEMMA AddOnPaidLimits ==
  ASSUME Typed(db, asaas), Typed(db', asaas'), TasksFit, TasksFit', LimitInv, ~PlanRace, NEW t \in Slot,
         NEW m \in asaas.post, AddOnPaid(t, m)
  PROVE  LimitInv'
<1>0. PICK op : op = "addOnPaid"
  OBVIOUS
<1>1. op # Floorer /\ op \notin Limiting
  BY <1>0 DEF Floorer, Limiting, Upgrading, Applier
<1>2. ASSUME NEW p, Pending(p), Receive(t, m, op, Confirm(p), p)
      PROVE  LimitInv'
  <2>1. PICK todo : todo = Confirm(p)
    OBVIOUS
  <2>2. Launch(t, op, todo, p)
    BY <1>2, <2>1 DEF Receive
  <2>3. Is(todo[1], "purchase")
    <3>1. PICK a : a = SetPurchase(p, [status |-> "PAID"])
      OBVIOUS
    <3>2. PICK b : b = Credit(AddOn, 1)
      OBVIOUS
    <3>3. todo = <<a, b>>
      BY <2>1, <3>1, <3>2 DEF Confirm
    <3>4. todo[1] = a /\ a.kind = "purchase"
      BY <3>1, <3>3, Pair DEF SetPurchase
    <3> QED
      BY <3>4 DEF Is
  <2>4. p \notin PaidOff(db)
    BY <1>2 DEF Pending, PaidOff
  <2>5. ASSUME NEW q, IsTask(q), Starts(q, op, todo, p) PROVE Unpaid(q)
    <3>1. q.op = op /\ q.todo = todo /\ q.on = p
      BY <2>5 DEF Starts
    <3>2. ~NextIs(q, "credit") /\ ~NextIs(q, "limit")
      BY <2>3, <3>1 DEF NextIs, Is
    <3>3. Bought(q) = p
      BY <1>0, <3>1 DEF Bought
    <3> QED
      BY <2>4, <3>2, <3>3 DEF Unpaid
  <2> QED
    BY <1>1, <2>2, <2>5, LaunchLimits
<1>3. ASSUME Receive(t, m, op, <<>>, None)
      PROVE  LimitInv'
  <2>1. PICK todo : todo = <<>>
    OBVIOUS
  <2>2. Launch(t, op, todo, None)
    BY <1>3, <2>1 DEF Receive
  <2>3. \A q : todo # <<>> => Unpaid(q)
    BY <2>1
  <2> QED
    BY <1>1, <2>2, <2>3, LaunchLimits
<1>4. PICK named : named = BillOf(m).of
  OBVIOUS
<1>5. \/ Pending(named) /\ Receive(t, m, op, Confirm(named), named)
      \/ Receive(t, m, op, <<>>, None)
      \/ \E i \in ActiveSubs : PendingOf(i) # {} /\ Receive(t, m, op, Confirm(Oldest(PendingOf(i))), Oldest(PendingOf(i)))
  BY <1>0, <1>4, Zenon DEF AddOnPaid
<1>6. ASSUME NEW i \in ActiveSubs, PendingOf(i) # {}, Receive(t, m, op, Confirm(Oldest(PendingOf(i))), Oldest(PendingOf(i)))
      PROVE  LimitInv'
  <2>1. PendingOf(i) \subseteq DOMAIN db.purchases
    BY DEF PendingOf
  <2>2. Oldest(PendingOf(i)) \in PendingOf(i)
    BY <2>1, <1>6, OldestIn
  <2>3. Pending(Oldest(PendingOf(i)))
    BY <2>2 DEF PendingOf
  <2> QED
    BY <2>3, <1>2, <1>6
<1> QED
  BY <1>2, <1>3, <1>5, <1>6

LEMMA CyclePaidLimits ==
  ASSUME Typed(db, asaas), Typed(db', asaas'), TasksFit, TasksFit', LimitInv, ~PlanRace, NEW t \in Slot, NEW m, CyclePaid(t, m)
  PROVE  LimitInv'
<1>1. PICK todo, on : Launch(t, "cyclePaid", todo, on) /\ (todo = <<>> \/ CycleBy(todo))
  BY CycleTodo
<1>2. PICK op : op = "cyclePaid"
  OBVIOUS
<1>3. Launch(t, op, todo, on) /\ op # Floorer /\ op \notin Buying \cup {Floorer}
  BY <1>1, <1>2 DEF Floorer, Buying
<1>4. ASSUME NEW q, IsTask(q), Starts(q, op, todo, on), todo # <<>> PROVE Unpaid(q)
  <2>1. ~Is(todo[1], "limit")
    BY <1>1, <1>4, CycleByIs
  <2>2. ~NextIs(q, "limit")
    BY <1>4, <2>1 DEF Starts, NextIs
  <2>3. ~NextIs(q, "credit") /\ ~Buys(q)
    BY <1>3, <1>4, NoCreditNext DEF Starts
  <2> QED
    BY <2>2, <2>3 DEF Unpaid
<1> QED
  BY <1>3, <1>4, LaunchLimits

LEMMA OtherLimits ==
  ASSUME Typed(db, asaas), Typed(db', asaas'), TasksFit, TasksFit', LimitInv, ~PlanRace, NEW t \in Slot,
         NEW op, NEW todo, NEW on, Launch(t, op, todo, on), op \notin Limiting \cup Buying
  PROVE  LimitInv'
<1>1. op # Floorer
  BY DEF Limiting
<1>2. ASSUME NEW q, IsTask(q), Starts(q, op, todo, on) PROVE Unpaid(q)
  BY <1>2, PlainStart DEF Starts
<1> QED
  BY <1>1, <1>2, LaunchLimits

LEMMA HandleLimits ==
  ASSUME Typed(db, asaas), Typed(db', asaas'), TasksFit, TasksFit', LimitInv, ~PlanRace, NEW t \in Slot, Handle(t)
  PROVE  LimitInv'
<1>0. {"subscribe", "downgrade", "cancelDowngrade", "cycleOverdue", "extCreated", "extDeleted"} \cap (Limiting \cup Buying) = {}
  BY DEF Limiting, Buying, Upgrading, Applier, Floorer
<1>1. CASE Subscribe(t)
  <2>1. \E todo : Launch(t, "subscribe", todo, None)
    BY <1>1 DEF Subscribe, Ask
  <2> QED
    BY <1>0, <2>1, OtherLimits
<1>2. CASE \E plan \in Plan, covered \in Covered : Upgrade(t, plan, covered)
  BY <1>2, UpgradeLimits
<1>3. CASE \E m \in asaas.post : UpgradePaid(t, m)
  BY <1>3, UpgradePaidLimits
<1>6. ASSUME NEW todo, NEW on, NEW op \in {"downgrade", "cancelDowngrade"}, Ask(t, op, todo, on)
      PROVE  LimitInv'
  BY <1>0, <1>6, OtherLimits DEF Ask
<1>7. ASSUME NEW m, NEW todo, NEW on, NEW op \in {"cycleOverdue", "extCreated", "extDeleted"}, Receive(t, m, op, todo, on)
      PROVE  LimitInv'
  BY <1>0, <1>7, OtherLimits DEF Receive
<1>8. CASE \E plan \in Plan : Downgrade(t, plan)
  BY <1>6, <1>8 DEF Downgrade
<1>9. CASE \E i \in DOMAIN db.subs : CancelDowngrade(t, i)
  BY <1>6, <1>9 DEF CancelDowngrade
<1>10. CASE \E i \in DOMAIN db.subs, free \in BOOLEAN : BuyAddOn(t, i, free)
  BY <1>10, BuyAddOnLimits
<1>11. CASE \E m \in asaas.post : AddOnPaid(t, m)
  BY <1>11, AddOnPaidLimits
<1>12. CASE \E m \in asaas.post : CyclePaid(t, m)
  BY <1>12, CyclePaidLimits
<1>13. CASE \E m \in asaas.post : CycleOverdue(t, m) \/ ExtCreated(t, m) \/ ExtDeleted(t, m)
  BY <1>7, <1>13 DEF CycleOverdue, ExtCreated, ExtDeleted
<1> QED
  BY <1>1, <1>2, <1>3, <1>8, <1>9, <1>10, <1>11, <1>12, <1>13 DEF Handle

(* The job that applies plans writes the subscription first.               *)
LEMMA ApplyPendingLimits ==
  ASSUME Typed(db, asaas), Typed(db', asaas'), TasksFit, TasksFit', LimitInv, ~PlanRace, ApplyPending
  PROVE  LimitInv'
<1>0. PICK op : op = Applier
  OBVIOUS
<1>1. op \in Slot /\ op # Floorer /\ op \notin Buying \cup {Floorer}
  BY <1>0 DEF Slot, Cron, Applier, Floorer, Buying
<1> DEFINE block(i) == <<SetSub(i, [plan |-> db.subs[i].pending, pending |-> None, due |-> FALSE]),
                         SetTenant([plan |-> db.subs[i].pending])>> \o MovePlan(db.subs[i].pending)
           blocks == [i \in PlansDue |-> block(i)]
<1>2. PICK order \in SetToSeqs(PlansDue) : Job(op, Each(order, blocks))
  BY <1>0 DEF ApplyPending, Applier
<1>3. PlansDue \subseteq DOMAIN db.subs
  BY CurrentSubs DEF PlansDue
<1>4. ASSUME NEW i \in PlansDue PROVE Listed(blocks[i]) /\ 1 \in DOMAIN blocks[i] /\ Is(blocks[i][1], "sub")
  <2>1. PICK plan : plan = db.subs[i].pending
    OBVIOUS
  <2>2. PICK a : a = SetSub(i, [plan |-> plan, pending |-> None, due |-> FALSE])
    OBVIOUS
  <2>3. PICK b : b = SetTenant([plan |-> plan])
    OBVIOUS
  <2>4. PICK e : e = SetLimit(plan)
    OBVIOUS
  <2>5. PICK x : x = <<a, b>>
    OBVIOUS
  <2>6. PICK y : y = <<b, e>>
    OBVIOUS
  <2>7. PICK s : s = x \o y
    OBVIOUS
  <2>8. blocks[i] = s
    BY <2>1, <2>2, <2>3, <2>4, <2>5, <2>6, <2>7 DEF MovePlan
  <2>9. Listed(x) /\ Len(x) = 2 /\ x[1] = a
    BY <2>5, Pair
  <2>10. Listed(y) /\ Len(y) = 2
    BY <2>6, Pair
  <2>11. Listed(s) /\ DOMAIN s = 1 .. Len(x) + Len(y) /\ \A k \in 1 .. Len(x) : s[k] = x[k]
    BY <2>7, <2>9, <2>10, Joined
  <2>12. 1 \in DOMAIN s /\ s[1] = a
    BY <2>9, <2>10, <2>11
  <2>13. a.kind = "sub"
    BY <2>2 DEF SetSub
  <2> QED
    BY <2>8, <2>11, <2>12, <2>13 DEF Is
<1> HIDE DEF blocks
<1>5. IsFiniteSet(PlansDue)
  BY <1>3, SubsFinite
<1>6. PICK todo : todo = Each(order, blocks)
  OBVIOUS
<1>7. todo # <<>> /\ Launch(op, op, todo, None)
  BY <1>2, <1>6 DEF Job
<1>8. Is(todo[1], "sub")
  <2>1. PICK kind : kind = "sub"
    OBVIOUS
  <2>2. \A i \in PlansDue : Listed(blocks[i]) /\ 1 \in DOMAIN blocks[i] /\ Is(blocks[i][1], kind)
    BY <1>4, <2>1
  <2>3. Is(todo[1], kind)
    BY <1>5, <1>6, <1>7, <2>2, EachStarts
  <2> QED
    BY <2>1, <2>3
<1>9. ASSUME NEW q, IsTask(q), Starts(q, op, todo, None) PROVE Unpaid(q)
  <2>1. q.op = op /\ q.todo = todo
    BY <1>9 DEF Starts
  <2>2. ~NextIs(q, "limit")
    BY <1>8, <2>1 DEF NextIs, Is
  <2> QED
    BY <1>1, <1>9, <2>1, <2>2, NoCreditNext DEF Unpaid
<1> QED
  BY <1>1, <1>7, <1>9, LaunchLimits

(* The job that expires add-ons has listed paid ones, none of which a      *)
(* handler is buying.                                                      *)
LEMMA ExpireAddOnsLimits ==
  ASSUME Typed(db, asaas), Typed(db', asaas'), TasksFit, TasksFit', LimitInv, ~CreditRace, ExpireAddOns
  PROVE  LimitInv'
<1>0. PICK op : op = Floorer
  OBVIOUS
<1>1. op \in Slot
  BY <1>0 DEF Slot, Cron, Floorer
<1>t. PICK t \in Slot : t = op
  BY <1>1
<1> DEFINE blocks == [p \in AddOnsDue |-> <<Credit(-AddOn, 2), Floor, SetPurchase(p, [status |-> "EXPIRED"])>>]
<1>2. PICK order \in SetToSeqs(AddOnsDue) : Job(op, Each(order, blocks))
  BY <1>0 DEF ExpireAddOns, Floorer
<1>3. AddOnsDue \subseteq DOMAIN db.purchases /\ AddOnsDue \subseteq PaidOff(db)
  BY DEF AddOnsDue, PaidAddOns, PaidOff
<1>4. ASSUME NEW p \in AddOnsDue
      PROVE  /\ Listed(blocks[p]) /\ 1 \in DOMAIN blocks[p] /\ Is(blocks[p][1], "credit")
             /\ Once(blocks[p]) /\ Names(blocks[p]) \subseteq {p}
  <2>1. PICK a : a = Credit(-AddOn, 2)
    OBVIOUS
  <2>2. PICK b : b = Floor
    OBVIOUS
  <2>3. PICK c : c = SetPurchase(p, [status |-> "EXPIRED"])
    OBVIOUS
  <2>4. a.kind = "credit" /\ b.kind = "floor" /\ c.kind = "purchase" /\ c.i = p
    BY <2>1, <2>2, <2>3 DEF Credit, Floor, SetPurchase
  <2>5. PICK s : s = <<a, b, c>>
    OBVIOUS
  <2>6. blocks[p] = s
    BY <2>1, <2>2, <2>3, <2>5
  <2>7. Listed(s) /\ s[1] = a /\ s[2] = b /\ s[3] = c /\ DOMAIN s = 1 .. 3
    BY <2>5, Triple
  <2>8. \A k \in DOMAIN s : Is(s[k], "purchase") => k = 3 /\ s[k].i = p
    <3>1. \A k \in DOMAIN s : k \in {1, 2, 3}
      BY <2>7
    <3> QED
      BY <2>4, <2>7, <3>1 DEF Is
  <2>9. 1 \in DOMAIN s /\ Is(s[1], "credit")
    BY <2>4, <2>7 DEF Is
  <2> QED
    BY <2>6, <2>7, <2>8, <2>9 DEF Once, Names
<1> HIDE DEF blocks
<1>5. IsFiniteSet(AddOnsDue)
  BY <1>3, PurchasesFinite
<1>6. PICK todo : todo = Each(order, blocks)
  OBVIOUS
<1>7. todo # <<>> /\ Launch(t, op, todo, None)
  BY <1>2, <1>6, <1>t DEF Job
<1>8. Is(todo[1], "credit")
  <2>1. PICK kind : kind = "credit"
    OBVIOUS
  <2>2. \A p \in AddOnsDue : Listed(blocks[p]) /\ 1 \in DOMAIN blocks[p] /\ Is(blocks[p][1], kind)
    BY <1>4, <2>1
  <2>3. Is(todo[1], kind)
    BY <1>5, <1>6, <1>7, <2>2, EachStarts
  <2> QED
    BY <2>1, <2>3
<1>9. Once(todo) /\ Names(todo) \subseteq AddOnsDue
  BY <1>4, <1>5, <1>6, <1>7, ExpiresOnce
<1>10. /\ db' = db /\ task[t] = Idle /\ \A u \in Slot \ {t} : Kept(u)
       /\ Starts(task'[t], op, todo, None)
  BY <1>7, LaunchTask
<1>11. PICK q : q = task'[t]
  OBVIOUS
<1>12. Expires(q) /\ q.op = op /\ q.todo = todo /\ IsTask(q)
  BY <1>0, <1>10, <1>11, NextTask DEF Starts, Expires
<1>13. 2 \in DOMAIN q.todo /\ Is(q.todo[2], "floor") /\ Is(q.todo[1], "credit")
  <2>1. q.todo # <<>> /\ ~Is(q.todo[1], "floor") /\ ~Found(q.todo[1]) /\ ~Is(q.todo[1], "purchase")
    BY <1>7, <1>8, <1>12 DEF Is, Found
  <2> QED
    BY <1>8, <1>12, <2>1, JobHead
<1>14. ~NextIs(q, "limit") /\ ~Crediting(q) /\ ~Plans(q) /\ ~Buys(q) /\ ~Moved(q)
  BY <1>12, <1>13 DEF NextIs, Is, Crediting, Plans, Buys, Moved
<1>15. \A p : ~Waits(q, p)
  BY <1>13, <1>14 DEF Waits, Taken, EndsAt, Is
<1>16. Sets(q, db')
  BY <1>14 DEF Sets
<1>17. \A p : Lists(q, p) => p \in PaidOff(db)
  BY <1>3, <1>9, <1>12 DEF Lists, EndsAt, Names
<1>18. Backed(q, db')
  <2>1. \A k, l, p : EndsAt(q, k, p) /\ EndsAt(q, l, p) => k = l
    BY <1>9, <1>12 DEF EndsAt, Once
  <2> QED
    BY <1>10, <1>14, <1>17, <2>1 DEF Backed
<1>19. ASSUME NEW u \in Slot \ {t} PROVE ~Buys(task[u])
  <2> SUFFICES ASSUME Buys(task[u]) PROVE FALSE
    OBVIOUS
  <2>1. IsTask(task[u]) /\ task[u].op \in Buying /\ Doing(Todo(u), "credit")
    BY <1>19, FitTask, BuysBy DEF Buys, Todo, Buying
  <2>2. task[u] # Idle /\ task[u].op \notin Cron
    BY <2>1, IdleTask DEF Buying, Cron
  <2>3. IF u \in Cron THEN task[u].op = u ELSE task[u].op \notin Cron
    BY <2>2, <1>19 DEF TasksFit, Fits
  <2>4. u \in Request
    BY <2>2, <2>3, <1>19 DEF Slot
  <2>5. t \in Begins("expireAddOnPurchases")
    BY <1>0, <1>10, <1>11, <1>12 DEF Begins, Busy, Floorer
  <2> QED
    BY <2>1, <2>4, <2>5 DEF CreditRace
<1>20. \A u \in Slot \ {t} : Sets(task'[u], db')
  <2>1. db'.tenant.plan = db.tenant.plan
    BY <1>10
  <2> QED
    BY <1>10, <2>1, SetsKept DEF LimitInv
<1>21. Clear(t)
  BY <1>10, <1>11, <1>14, <1>16, <1>18, <1>19, <1>20 DEF Clear
<1>22. Counted \subseteq Counted'
  <2>1. SUFFICES ASSUME NEW p \in Counted PROVE p \in Counted'
    OBVIOUS
  <2>2. p \in PaidOff(db') /\ \A u \in Slot : ~Waits(task[u], p)
    BY <1>10, <2>1 DEF Counted
  <2> QED
    BY <1>10, <1>11, <1>15, <2>2, CountedKept
<1>23. IsFiniteSet(Counted')
  <2>1. Counted' \subseteq PaidOff(db')
    BY DEF Counted
  <2> QED
    BY <2>1, PaidFinite
<1>24. 0 + AddOn * Cardinality(Counted) <= AddOn * Cardinality(Counted')
  BY <1>22, <1>23, MoreCounted
<1>25. ~Sinking(task[t], db) /\ ~Moved(task[t])
  BY <1>10, IdleApart
<1>26. /\ db'.tenant.plan = db.tenant.plan
       /\ \A c \in DOMAIN db'.companies :
            /\ c \in DOMAIN db.companies /\ db'.companies[c] <= db.companies[c] + 0
            /\ db.companies[c] <= db'.companies[c]
  BY <1>10, LimitsInt
<1>27. Bounded'
  BY <1>10, <1>24, <1>25, <1>26, BoundMoved
<1> QED
  BY <1>10, <1>21, <1>27, LimitKept

LEMMA JobLimits ==
  ASSUME Typed(db, asaas), Typed(db', asaas'), TasksFit, TasksFit', LimitInv, ~PlanRace, ~CreditRace,
         CheckOverdue \/ ApplyPending \/ ExpireAddOns
  PROVE  LimitInv'
<1>1. CASE CheckOverdue
  <2>1. PICK op \in Slot : op = "checkOverdueSubscriptions"
    BY DEF Slot, Cron
  <2>2. \E todo : Launch(op, op, todo, None)
    BY <1>1, <2>1 DEF CheckOverdue, Job
  <2>3. op \notin Limiting \cup Buying
    BY <2>1 DEF Limiting, Buying, Upgrading, Applier, Floorer
  <2> QED
    BY <2>2, <2>3, OtherLimits
<1> QED
  BY <1>1, ApplyPendingLimits, ExpireAddOnsLimits

----------------------------------------------------------------------------
(* The gateway and the days.                                               *)

LEMMA StillLimits ==
  ASSUME Typed(db, asaas), Typed(db', asaas'), TasksFit, LimitInv, task' = task,
         db'.tenant.plan = db.tenant.plan, db'.companies = db.companies, PaidOff(db') = PaidOff(db)
  PROVE  LimitInv'
<1>1. Slot' = Slot
  BY DEF Slot, Cron
<1>2. ASSUME NEW t \in Slot PROVE Sets(task'[t], db') /\ Backed(task'[t], db')
  <2>1. PICK r : r = task[t]
    OBVIOUS
  <2>2. Sets(r, db) /\ Backed(r, db) /\ task'[t] = r
    BY <2>1 DEF LimitInv
  <2>3. PICK e : e = db'
    OBVIOUS
  <2>4. e.tenant.plan = db.tenant.plan /\ PaidOff(e) = PaidOff(db)
    BY <2>3
  <2>5. Sets(r, e) /\ Backed(r, e)
    BY <2>2, <2>4 DEF Sets, Backed
  <2> QED
    BY <2>2, <2>3, <2>5
<1>3. \A t, u \in Slot : t # u => Apart(task'[t], task'[u])
  BY DEF LimitInv
<1>4. Counted' = Counted
  BY <1>1 DEF Counted
<1>5. Bounded'
  <2>1. SUFFICES ASSUME \A t \in Slot : ~Moved(task[t])
                 PROVE  Within(db', Cardinality(Counted), \E t \in Slot : Sinking(task[t], db'))
    BY <1>1, <1>4 DEF Bounded
  <2>2. Within(db, Cardinality(Counted), \E t \in Slot : Sinking(task[t], db))
    BY <2>1 DEF LimitInv, Bounded
  <2> QED
    BY <2>2 DEF Within, Sinking
<1> QED
  BY <1>1, <1>2, <1>3, <1>5 DEF LimitInv

(* The days pass: the dates of a subscription, or of an add-on.            *)
LEMMA TimeLimits ==
  ASSUME Typed(db, asaas), Typed(db', asaas'), TasksFit, LimitInv, Time
  PROVE  LimitInv'
<1>0. task' = task
  BY DEF Time
<1>1. ASSUME NEW i, NEW row, db' = [db EXCEPT !.subs[i] = row] PROVE LimitInv'
  <2>1. PICK subs : subs = [db.subs EXCEPT ![i] = row]
    OBVIOUS
  <2>2. db' = [db EXCEPT !.subs = subs]
    BY ONLY <1>1, <2>1, Zenon
  <2>3. PICK e : e = db'
    OBVIOUS
  <2>4. Spares(db, e)
    BY <2>2, <2>3, SubsSpared
  <2> QED
    BY <1>0, <2>3, <2>4, StillLimits DEF Spares
<1>2. CASE \E i \in DOMAIN db.subs : GraceEnds(i)
  <2>1. PICK i \in DOMAIN db.subs : db' = [db EXCEPT !.subs[i].overdue = "late"]
    BY <1>2 DEF GraceEnds
  <2>2. PICK row : row = [db.subs[i] EXCEPT !.overdue = "late"]
    OBVIOUS
  <2>3. db' = [db EXCEPT !.subs[i] = row]
    BY ONLY <2>1, <2>2, Zenon
  <2> QED
    BY <1>1, <2>3
<1>3. CASE \E i \in DOMAIN db.subs : db' = [db EXCEPT !.subs[i].due = TRUE]
  <2>1. PICK i \in DOMAIN db.subs : db' = [db EXCEPT !.subs[i].due = TRUE]
    BY <1>3
  <2>2. PICK row : row = [db.subs[i] EXCEPT !.due = TRUE]
    OBVIOUS
  <2>3. db' = [db EXCEPT !.subs[i] = row]
    BY ONLY <2>1, <2>2, Zenon
  <2> QED
    BY <1>1, <2>3
<1>4. CASE \E p \in PaidAddOns : db' = [db EXCEPT !.purchases[p].due = TRUE]
  <2>1. PICK p \in PaidAddOns : db' = [db EXCEPT !.purchases[p].due = TRUE]
    BY <1>4
  <2>2. PICK row : row = [db.purchases[p] EXCEPT !.due = TRUE]
    OBVIOUS
  <2>3. PICK purchases : purchases = [db.purchases EXCEPT ![p] = row]
    OBVIOUS
  <2>4. db' = [db EXCEPT !.purchases = purchases]
    BY ONLY <2>1, <2>2, <2>3, Zenon
  <2>5. db'.purchases = purchases /\ db'.tenant = db.tenant /\ db'.companies = db.companies
    BY <2>4, Unwritten
  <2>6. row.status = db.purchases[p].status
    <3>1. p \in DOMAIN db.purchases
      BY <2>1 DEF PaidAddOns
    <3>2. db.purchases[p] \in PurchaseRow
      BY <3>1, TypedLens, ElementOfSeq
    <3> QED
      BY <2>2, <3>2 DEF PurchaseRow
  <2>7. /\ DOMAIN purchases = DOMAIN db.purchases
        /\ \A o \in DOMAIN db.purchases : purchases[o].status = db.purchases[o].status
    BY <2>3, <2>6
  <2>8. PaidOff(db') = PaidOff(db)
    BY <2>5, <2>7 DEF PaidOff
  <2> QED
    BY <1>0, <2>5, <2>8, StillLimits
<1> QED
  BY <1>2, <1>3, <1>4 DEF Time

----------------------------------------------------------------------------
(* The invariant.                                                          *)

LEMMA NoRaces == ASSUME Slip = {} PROVE ~PlanRace /\ ~CreditRace
  BY DEF Slip

LEMMA InitLimits == Init => LimitInv
<1> SUFFICES ASSUME Init PROVE LimitInv
  OBVIOUS
<1>1. PICK s \in FirstStates : db = s.db /\ asaas = s.asaas
  BY DEF Init
<1>2. Sound(db, asaas)
  BY <1>1, FirstStatesAssumption
<1>3. Typed(db, asaas)
  BY <1>2 DEF Sound
<1>4. \A t \in Slot : task[t] = Idle
  BY DEF Init
<1>5. \A t \in Slot : Sets(task[t], db) /\ Backed(task[t], db) /\ \A p : ~Waits(task[t], p)
  BY <1>4, IdleApart
<1>6. \A t, u \in Slot : Apart(task[t], task[u])
  BY <1>4, IdleApart
<1>7. Counted = PaidOff(db)
  BY <1>5 DEF Counted
<1>8. ASSUME NEW c \in DOMAIN db.companies
      PROVE  db.companies[c] \in db.tenant.plan .. db.tenant.plan + AddOn * Cardinality(PaidOff(db))
  BY <1>2, <1>8 DEF Sound, PaidOff
<1>9. Bounded
  BY <1>7, <1>8 DEF Bounded, Within
<1> QED
  BY <1>5, <1>6, <1>9 DEF LimitInv

PlanInv == WorkInv /\ (slips = {} => LimitInv)

LEMMA NextLimits == PlanInv /\ [Next]_billingVars => PlanInv'
<1> SUFFICES ASSUME PlanInv, [Next]_billingVars PROVE PlanInv'
  OBVIOUS
<1>0. /\ WorkInv /\ WorkInv' /\ Typed(db, asaas) /\ Typed(db', asaas')
      /\ slips = {} => TasksFit /\ PayInv /\ LimitInv
  BY NextPays DEF PlanInv, WorkInv, TypeInv
<1>1. SUFFICES ASSUME slips' = {} PROVE LimitInv'
  BY <1>0 DEF PlanInv
<1>2. TasksFit'
  BY <1>0, <1>1 DEF WorkInv, TypeInv
<1>3. CASE UNCHANGED billingVars
  <2>1. db' = db /\ task' = task /\ slips = {}
    BY <1>1, <1>3 DEF billingVars, vars
  <2> QED
    BY <2>1, <1>0, StillLimits
<1>4. ASSUME NEW t \in Request, Go(Handle(t)) PROVE LimitInv'
  <2>1. slips = {} /\ Handle(t) /\ Slip = {} /\ t \in Slot
    BY <1>1, <1>4 DEF Go, Slot
  <2> QED
    BY <2>1, <1>0, <1>2, NoRaces, HandleLimits
<1>5. CASE Go(CheckOverdue) \/ Go(ApplyPending) \/ Go(ExpireAddOns)
  <2>1. slips = {} /\ Slip = {} /\ (CheckOverdue \/ ApplyPending \/ ExpireAddOns)
    BY <1>1, <1>5 DEF Go
  <2> QED
    BY <2>1, <1>0, <1>2, NoRaces, JobLimits
<1>6. ASSUME NEW t \in Slot, Go(Step(t)) PROVE LimitInv'
  <2>1. slips = {} /\ Step(t) /\ Slip = {}
    BY <1>1, <1>6 DEF Go
  <2> QED
    BY <2>1, <1>0, <1>2, NoRaces, StepLimits
<1>7. \A t \in Slot : ~Halt(t)
  BY <1>1 DEF Halt
<1>8. CASE Go(Gateway)
  <2>1. slips = {} /\ db' = db /\ task' = task
    BY <1>8 DEF Go, Gateway
  <2> QED
    BY <2>1, <1>0, StillLimits
<1>9. CASE Go(Time)
  BY <1>0, <1>9, TimeLimits DEF Go
<1> QED
  BY <1>3, <1>4, <1>5, <1>6, <1>7, <1>8, <1>9 DEF Next

(* When nothing is in flight the limit of a company is its plan's at least *)
(* and at most what its paid add-ons give beyond it, whichever of the      *)
(* purchases of add-ons, the changes of the plan, and the steps of the job *)
(* that takes an expired add-on off the limit and restores the floor came  *)
(* between one another, and however many add-ons the job found.            *)
THEOREM LimitStaysWithinPlan == Spec => []LimitWithinPlan
<1>1. PlanInv => LimitWithinPlan
  <2> SUFFICES ASSUME PlanInv, AtRest, slips = {}, NEW c \in DOMAIN db.companies
               PROVE  db.companies[c] \in db.tenant.plan .. db.tenant.plan + AddOn * Cardinality(PaidAddOns)
    BY DEF LimitWithinPlan, Explained
  <2>1. LimitInv /\ Typed(db, asaas)
    BY DEF PlanInv, WorkInv, TypeInv
  <2>2. \A t \in Slot : task[t] = Idle
    BY DEF AtRest, Busy
  <2>3. \A t \in Slot : ~Moved(task[t]) /\ ~Sinking(task[t], db) /\ \A p : ~Waits(task[t], p)
    BY <2>2, IdleApart
  <2>4. Counted = PaidAddOns
    BY <2>3 DEF Counted, PaidOff, PaidAddOns
  <2>5. Within(db, Cardinality(PaidAddOns), FALSE)
    BY <2>1, <2>3, <2>4 DEF LimitInv, Bounded, Within
  <2>6. PICK a : a = AddOn * Cardinality(PaidAddOns)
    OBVIOUS
  <2>7. a \in Int
    <3>1. Cardinality(PaidAddOns) \in Nat /\ AddOn \in Nat
      BY <2>1, <2>4, CountedFinite, PlanAssumption
    <3> QED
      BY <2>6, <3>1
  <2>8. db.companies[c] <= db.tenant.plan + a /\ db.tenant.plan <= db.companies[c]
    BY <2>5, <2>6 DEF Within
  <2>9. db.companies[c] \in Int /\ db.tenant.plan \in Int
    BY <2>1, LimitsInt
  <2> QED
    BY <2>6, <2>7, <2>8, <2>9
<1>2. Init => PlanInv
  BY InitWorks, InitLimits DEF PlanInv
<1> QED
  BY <1>1, <1>2, NextLimits, PTL DEF Spec

==============================================================================
