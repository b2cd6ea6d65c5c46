---------------------------- MODULE BillingProofs ----------------------------
(***************************************************************************)
(* The first payment of a tenant is handled once, and a tenant that pays   *)
(* is not locked out, for every instance.  Neither is inductive: what a    *)
(* handler in flight may still write has been decided before, so that the  *)
(* invariant says what stays true of the tables until it does (Allowed).   *)
(***************************************************************************)
EXTENDS BillingTypes

(* How far the payment of a month is: at 4 it activates the tenant, at 3   *)
(* and 2 it is the one that activates and onboards it, and at 1 or less it *)
(* renews the subscription.                                                *)
Stage(r) == Len(r.todo) - (IF Moving(r.todo[Len(r.todo)]) THEN 2 ELSE 0)
Renewing(r) == r.op = "cyclePaid"
Boards(r) == Renewing(r) /\ Stage(r) \in {2, 3}
Applies(r) == r.op \in Upgrading /\ Is(r.todo[Len(r.todo)], "limit")
Active(d) == {i \in DOMAIN d.subs : d.subs[i].status = "ACTIVE"}
Works(d) == d.tenant.status = "ACTIVE"

(* What stays true of the tables d while the handler r is in flight.       *)
Activated(r, d) == Renewing(r) /\ Stage(r) <= 3 => Works(d)
Founds(r, d) == Renewing(r) => \A k \in DOMAIN r.todo : Is(r.todo[k], "newCompany") => k = 1 /\ d.companies = <<>>
Replaces(r, d) == Applies(r) /\ Len(r.todo) >= 5 => Works(d)
SignsUp(r, d) == r.op = "subscribe" /\ ~r.stale => Active(d) = {}
Ended(i, d) == i \in DOMAIN d.subs /\ d.subs[i].status = "CANCELLED"
Ends(r, d) ==
  r.op = "extDeleted" =>
    /\ Is(r.todo[1], "suspendAlone") => Ended(r.todo[1].i, d)
    /\ \A k \in DOMAIN r.todo : Is(r.todo[k], "tenant") => k = 1 /\ (~r.stale => Active(d) = {})
Allowed(r, d) == Activated(r, d) /\ Founds(r, d) /\ Replaces(r, d) /\ SignsUp(r, d) /\ Ends(r, d)

PayInv ==
  /\ Len(db.companies) <= 1
  /\ Active(db) # {} => Works(db)
  /\ \A t \in Slot : Allowed(task[t], db)
  /\ \A t, u \in Slot : Boards(task[t]) /\ Boards(task[u]) => t = u

----------------------------------------------------------------------------
(* The stages.                                                             *)

LEMMA StageIs ==
  ASSUME NEW r, IsTask(r), Renewing(r)
  PROVE  /\ Stage(r) \in Int /\ Stage(r) <= 4 /\ 1 \in DOMAIN r.todo /\ Len(r.todo) \in Nat /\ Len(r.todo) >= 1
         /\ DOMAIN r.todo = 1 .. Len(r.todo)
         /\ Is(r.todo[1], "activate") <=> Stage(r) = 4
         /\ Stage(r) = 3 <=> Tenant(r.todo[1], [status |-> "ACTIVE"])
         /\ Is(r.todo[1], "onboard") \/ Is(r.todo[1], "newCompany") <=> Stage(r) = 2
         /\ Is(r.todo[1], "sub") => Stage(r) <= 1 /\ Len(r.todo) = 1
<1> DEFINE w == r.todo[1]
           e == Len(r.todo) - 1
           z == r.todo[Len(r.todo)]
<1>1. r.todo # <<>> /\ Listed(r.todo) /\ Len(r.todo) \in Nat /\ DOMAIN r.todo = 1 .. Len(r.todo)
  BY TaskLists DEF Renewing, IsTask, Idle
<1>2. 1 \in DOMAIN r.todo /\ Len(r.todo) >= 1
  BY <1>1, ListedTail
<1>3. At(r.op, r.on, w, e, z)
  BY <1>2 DEF IsTask
<1>4. AtCyclePaid(r.on, w, e, z)
  BY <1>3 DEF At, Renewing, Upgrading, Floorer, Applier
<1>5. Stage(r) = e + 1 - (IF Moving(z) THEN 2 ELSE 0) /\ e \in Nat
  BY <1>1, <1>2 DEF Stage
<1>6. Moving(z) => [plan |-> z.set.plan] # [status |-> "ACTIVE"]
  <2>1. DOMAIN [plan |-> z.set.plan] # DOMAIN [status |-> "ACTIVE"]
    OBVIOUS
  <2> QED
    BY <2>1
<1>7. e = 0 => w = z
  BY <1>1
<1> HIDE DEF w, e, z
<1>8. /\ Stage(r) \in Int /\ Stage(r) <= 4
      /\ Is(w, "activate") <=> Stage(r) = 4
      /\ Stage(r) = 3 <=> Tenant(w, [status |-> "ACTIVE"])
      /\ Is(w, "onboard") \/ Is(w, "newCompany") <=> Stage(r) = 2
      /\ Is(w, "sub") => Stage(r) <= 1 /\ e = 0
  <2>1. CASE Moving(z)
    <3>1. Stage(r) = e - 1
      BY <1>5, <2>1
    <3> QED
      BY <1>4, <1>5, <1>6, <1>7, <2>1, <3>1 DEF AtCyclePaid, Is, Tenant
  <2>2. CASE ~Moving(z)
    <3>1. Stage(r) = e + 1
      BY <1>5, <2>2
    <3> QED
      BY <1>4, <1>5, <1>7, <2>2, <3>1 DEF AtCyclePaid, Is, Tenant
  <2> QED
    BY <2>1, <2>2
<1> QED
  BY <1>1, <1>2, <1>8 DEF w, e

(* The list of q is what follows the first write of r.                     *)
Tailed(r, q) ==
  /\ Len(q.todo) = Len(r.todo) - 1
  /\ \A k \in DOMAIN q.todo : q.todo[k] = r.todo[k + 1] /\ k + 1 \in DOMAIN r.todo

LEMMA TailedIs ==
  ASSUME NEW r, NEW q, IsTask(r), IsTask(q), q.op = r.op, q.todo = Tail(r.todo), r.op # "idle"
  PROVE  /\ Tailed(r, q) /\ q.todo # <<>> /\ 1 \in DOMAIN q.todo /\ 1 \in DOMAIN r.todo
         /\ Len(q.todo) \in Nat /\ Len(q.todo) >= 1 /\ DOMAIN q.todo = 1 .. Len(q.todo)
         /\ Len(r.todo) \in Nat /\ DOMAIN r.todo = 1 .. Len(r.todo)
         /\ q.todo[Len(q.todo)] = r.todo[Len(r.todo)]
<1>1. r.todo # <<>> /\ Listed(r.todo) /\ Len(r.todo) \in Nat /\ DOMAIN r.todo = 1 .. Len(r.todo)
  BY TaskLists DEF IsTask, Idle
<1>2. q.todo # <<>> /\ Listed(q.todo) /\ Len(q.todo) \in Nat /\ DOMAIN q.todo = 1 .. Len(q.todo)
  BY TaskLists DEF IsTask, Idle
<1>3. 1 \in DOMAIN q.todo /\ Len(q.todo) >= 1 /\ 1 \in DOMAIN r.todo
  BY <1>1, <1>2, ListedTail
<1>4. Tailed(r, q)
  BY <1>1, ListedTail DEF Tailed
<1>5. q.todo[Len(q.todo)] = r.todo[Len(r.todo)]
  <2>1. Len(q.todo) \in DOMAIN q.todo /\ Len(q.todo) + 1 = Len(r.todo)
    BY <1>1, <1>2, <1>3, <1>4 DEF Tailed
  <2> QED
    BY <1>4, <2>1 DEF Tailed
<1> QED
  BY <1>1, <1>2, <1>3, <1>4, <1>5

(* The handler r, its first write done, is q.                              *)
Onto(r, q) ==
  \/ q = Idle
  \/ /\ q.op = r.op /\ q.on = r.on /\ q.todo = Tail(r.todo)
     /\ q.stale = r.stale \/ q.op \in {Floorer, "cyclePaid"}

LEMMA IdleAllowed == ASSUME NEW d PROVE Allowed(Idle, d) /\ ~Boards(Idle)
  BY IdleTask DEF Allowed, Activated, Founds, Replaces, SignsUp, Ends, Boards, Renewing, Applies, Upgrading

LEMMA OntoAllowed ==
  ASSUME NEW r, NEW q, IsTask(r), IsTask(q), r # Idle, r.op # "idle", Onto(r, q), NEW d, NEW e, Allowed(r, d),
         Is(r.todo[1], "activate") => Works(e),
         Renewing(r) \/ Applies(r) => (Works(d) => Works(e)),
         r.op = "subscribe" => Active(e) \subseteq Active(d),
         r.op = "extDeleted" /\ Is(r.todo[1], "sub") => Ended(r.on, e)
  PROVE  Allowed(q, e) /\ (Boards(q) => Boards(r) \/ Is(r.todo[1], "activate"))
<1>1. CASE q = Idle
  BY <1>1, IdleAllowed
<1>2. CASE q # Idle
  <2>1. q.op = r.op /\ q.on = r.on /\ q.todo = Tail(r.todo) /\ (q.stale = r.stale \/ q.op \in {Floorer, "cyclePaid"})
    BY <1>2 DEF Onto
  <2>2. /\ Tailed(r, q) /\ q.todo # <<>> /\ 1 \in DOMAIN q.todo /\ 1 \in DOMAIN r.todo
        /\ Len(q.todo) \in Nat /\ Len(q.todo) >= 1 /\ DOMAIN q.todo = 1 .. Len(q.todo)
        /\ Len(r.todo) \in Nat /\ DOMAIN r.todo = 1 .. Len(r.todo)
        /\ q.todo[Len(q.todo)] = r.todo[Len(r.todo)]
    BY <2>1, TailedIs
  <2>3. \A k \in DOMAIN q.todo : q.todo[k] = r.todo[k + 1] /\ k + 1 \in DOMAIN r.todo /\ k + 1 # 1
    BY <2>2 DEF Tailed
  <2>4. Len(q.todo) = Len(r.todo) - 1
    BY <2>2 DEF Tailed
  <2>5. Renewing(r) => /\ Stage(q) = Stage(r) - 1 /\ Stage(r) \in Int
                       /\ Is(r.todo[1], "activate") \/ Stage(r) <= 3
    <3>1. Renewing(r) => Stage(r) \in Int /\ Stage(r) <= 4 /\ (Is(r.todo[1], "activate") \/ Stage(r) # 4)
      BY StageIs
    <3> QED
      BY <3>1, <2>2, <2>4 DEF Stage
  <2>6. Activated(q, e)
    <3>1. Renewing(r) /\ Stage(r) <= 3 => Works(e)
      BY DEF Activated, Allowed
    <3> QED
      BY <2>1, <2>5, <3>1 DEF Activated, Renewing
  <2>7. Founds(q, e)
    BY <2>1, <2>3 DEF Founds, Renewing, Allowed
  <2>8. Replaces(q, e)
    <3>1. Applies(q) => Applies(r)
      BY <2>1, <2>2 DEF Applies
    <3>2. Len(q.todo) >= 5 => Len(r.todo) >= 5
      BY <2>2, <2>4
    <3> QED
      BY <3>1, <3>2 DEF Replaces, Allowed
  <2>9. SignsUp(q, e)
    BY <2>1 DEF SignsUp, Allowed, Floorer
  <2>10. Ends(q, e)
    <3> SUFFICES ASSUME q.op = "extDeleted" PROVE Ends(q, e)
      BY DEF Ends
    <3>1. \A k \in DOMAIN q.todo : ~Is(q.todo[k], "tenant")
      BY <2>1, <2>3 DEF Allowed, Ends
    <3>2. ASSUME Is(q.todo[1], "suspendAlone") PROVE Ended(q.todo[1].i, e)
      <4>1. At(q.op, q.on, q.todo[1], Len(q.todo) - 1, q.todo[Len(q.todo)]) /\ Len(q.todo) - 1 \in Nat
        BY <2>2 DEF IsTask
      <4>2. q.todo[1].i = q.on
        BY <3>2, <4>1, AtSuspend
      <4>3. At(r.op, r.on, r.todo[1], Len(r.todo) - 1, r.todo[Len(r.todo)])
        BY <2>2 DEF IsTask
      <4>4. AtExtDeleted(r.on, r.todo[1], Len(r.todo) - 1)
        BY <4>3, <2>1 DEF At, Upgrading, Floorer, Applier
      <4>5. Is(r.todo[1], "sub")
        BY <4>4, <2>2, <2>4 DEF AtExtDeleted, SubOf
      <4> QED
        BY <2>1, <4>2, <4>5
    <3> QED
      BY <3>1, <3>2 DEF Ends
  <2> QED
    BY <2>1, <2>5, <2>6, <2>7, <2>8, <2>9, <2>10 DEF Allowed, Boards, Renewing
<1> QED
  BY <1>1, <1>2

----------------------------------------------------------------------------
(* A step of slot t keeps the invariant if it keeps what the others rely   *)
(* on.                                                                     *)

SameTask(r, q) == q.op = r.op /\ q.on = r.on /\ q.todo = r.todo /\ (q.stale = r.stale \/ q.stale = TRUE)

LEMMA KeptSame == ASSUME TasksFit, NEW u \in Slot, Kept(u) PROVE SameTask(task[u], task'[u])
<1>1. task[u] = [op |-> task[u].op, todo |-> task[u].todo, row |-> task[u].row, ext |-> task[u].ext,
                 on |-> task[u].on, stale |-> task[u].stale]
  BY FitTask DEF IsTask
<1>2. CASE task'[u] = task[u]
  BY <1>2 DEF SameTask
<1>3. CASE task'[u] = [task[u] EXCEPT !.stale = TRUE]
  BY <1>1, <1>3 DEF SameTask
<1> QED
  BY <1>2, <1>3 DEF Kept

LEMMA SameAllowed ==
  ASSUME NEW r, NEW q, SameTask(r, q), NEW d, NEW e, Allowed(r, d),
         Renewing(r) \/ Applies(r) => (Works(d) => Works(e)),
         Active(e) \subseteq Active(d) \/ q.stale,
         \A i : Ended(i, d) => Ended(i, e),
         Renewing(r) /\ Is(r.todo[1], "newCompany") => (d.companies = <<>> => e.companies = <<>>)
  PROVE  Allowed(q, e) /\ (Boards(q) <=> Boards(r))
<1>1. q.op = r.op /\ q.on = r.on /\ q.todo = r.todo /\ (q.stale = r.stale \/ q.stale = TRUE)
  BY DEF SameTask
<1>2. Activated(q, e)
  BY <1>1 DEF Allowed, Activated, Renewing, Stage
<1>3. Founds(q, e)
  BY <1>1 DEF Allowed, Founds, Renewing
<1>4. Replaces(q, e)
  BY <1>1 DEF Allowed, Replaces, Applies
<1>5. SignsUp(q, e)
  BY <1>1 DEF Allowed, SignsUp
<1>6. Ends(q, e)
  BY <1>1 DEF Allowed, Ends
<1> QED
  BY <1>1, <1>2, <1>3, <1>4, <1>5, <1>6 DEF Allowed, Boards, Renewing, Stage

LEMMA PayKept ==
  ASSUME TasksFit, PayInv, NEW t \in Slot,
         \A u \in Slot \ {t} : Kept(u),
         Active(db') \subseteq Active(db) \/ \A u \in Slot \ {t} : Busy(u) => task'[u].stale,
         Works(db) /\ ~Works(db') => \A u \in Slot : ~Paying(u),
         \A i : Ended(i, db) => Ended(i, db'),
         db.companies = <<>> /\ db'.companies # <<>> => Boards(task[t]),
         Len(db'.companies) <= 1,
         Active(db') # {} => Works(db'),
         Allowed(task'[t], db'),
         Boards(task'[t]) => Boards(task[t]) \/ ~Works(db)
  PROVE  PayInv'
<1>1. ASSUME NEW u \in Slot \ {t} PROVE Allowed(task'[u], db') /\ (Boards(task'[u]) <=> Boards(task[u]))
  <2>1. SameTask(task[u], task'[u]) /\ Allowed(task[u], db) /\ IsTask(task[u])
    BY <1>1, KeptSame, FitTask DEF PayInv
  <2>2. CASE ~Busy(u)
    <3>1. task'[u] = Idle /\ task[u] = Idle
      BY <2>2 DEF Kept, Busy
    <3> QED
      BY <3>1, IdleAllowed
  <2>3. CASE Busy(u)
    <3>1. Renewing(task[u]) \/ Applies(task[u]) => (Works(db) => Works(db'))
      BY DEF Paying, Renewing, Applies, Upgrading
    <3>2. Active(db') \subseteq Active(db) \/ task'[u].stale
      BY <2>3
    <3>3. Renewing(task[u]) /\ Is(task[u].todo[1], "newCompany") => (db.companies = <<>> => db'.companies = <<>>)
      <4>1. Renewing(task[u]) /\ Is(task[u].todo[1], "newCompany") => Boards(task[u])
        BY <2>1, StageIs DEF Boards
      <4>2. u # t
        OBVIOUS
      <4> QED
        BY <4>1, <4>2 DEF PayInv
    <3> QED
      BY <2>1, <3>1, <3>2, <3>3, SameAllowed
  <2> QED
    BY <2>2, <2>3
<1>2. ASSUME NEW u \in Slot \ {t}, Boards(task[u]) PROVE ~Boards(task'[t])
  <2>1. Works(db)
    <3>1. Stage(task[u]) <= 3 /\ Renewing(task[u])
      BY <1>2 DEF Boards
    <3> QED
      BY <3>1 DEF PayInv, Allowed, Activated
  <2>2. ~Boards(task[t])
    BY <1>2 DEF PayInv
  <2> QED
    BY <2>1, <2>2
<1>3. Slot' = Slot
  BY DEF Slot, Cron
<1>4. \A u \in Slot : Allowed(task'[u], db')
  BY <1>1
<1>5. \A u, v \in Slot : Boards(task'[u]) /\ Boards(task'[v]) => u = v
  BY <1>1, <1>2 DEF PayInv
<1> QED
  BY <1>3, <1>4, <1>5 DEF PayInv

----------------------------------------------------------------------------
(* Steps that change nothing the others rely on.                           *)

Quiet(d, e) ==
  /\ Works(e) <=> Works(d)
  /\ Active(e) = Active(d)
  /\ \A i : Ended(i, d) => Ended(i, e)
  /\ Len(e.companies) = Len(d.companies) /\ (d.companies = <<>> => e.companies = <<>>)

LEMMA BusyOp == ASSUME TasksFit, NEW t \in Slot, Todo(t) # <<>> PROVE task[t] # Idle /\ task[t].op # "idle" /\ IsTask(task[t])
<1>1. IsTask(task[t]) /\ task[t].todo # <<>>
  BY FitTask DEF Todo
<1>2. At(task[t].op, task[t].on, task[t].todo[1], Len(task[t].todo) - 1, task[t].todo[Len(task[t].todo)])
  BY <1>1, ListedTail DEF IsTask
<1> QED
  BY <1>1, <1>2, IdleTask DEF At, Upgrading, Floorer, Applier

LEMMA QuietStep ==
  ASSUME TasksFit, TasksFit', PayInv, NEW t \in Slot, Todo(t) # <<>>, Quiet(db, db'), \A u \in Slot \ {t} : Kept(u),
         Onto(task[t], task'[t]), ~Is(task[t].todo[1], "activate"),
         task[t].op = "extDeleted" => ~Is(task[t].todo[1], "sub")
  PROVE  PayInv'
<1>1. IsTask(task[t]) /\ task[t] # Idle /\ task[t].op # "idle" /\ Allowed(task[t], db)
  BY BusyOp DEF PayInv
<1>2. IsTask(task'[t])
  <2>1. Slot' = Slot
    BY DEF Slot, Cron
  <2> QED
    BY <2>1 DEF TasksFit, Fits
<1>3. Allowed(task'[t], db') /\ (Boards(task'[t]) => Boards(task[t]))
  BY <1>1, <1>2, OntoAllowed DEF Quiet
<1> QED
  BY <1>3, PayKept DEF Quiet, PayInv

LEMMA ContinueOnto ==
  ASSUME TasksFit, NEW t \in Slot
  PROVE  Onto(task[t], Continue(t, Tail(Todo(t))))
<1> DEFINE k == Tail(Todo(t))
<1>1. task[t] = [op |-> task[t].op, todo |-> task[t].todo, row |-> task[t].row, ext |-> task[t].ext,
                 on |-> task[t].on, stale |-> task[t].stale]
  BY FitTask DEF IsTask
<1>2. CASE k = <<>>
  BY <1>2 DEF Continue, Onto
<1>3. CASE k # <<>>
  BY <1>1, <1>3 DEF Continue, Onto, Todo
<1> QED
  BY <1>2, <1>3

LEMMA LookOnto ==
  ASSUME TasksFit, NEW t \in Slot, task[t].op \in {Floorer, "cyclePaid"}, NEW k, k = Tail(Todo(t))
  PROVE  Onto(task[t], IF k = <<>> THEN Idle ELSE [[task[t] EXCEPT !.todo = k] EXCEPT !.stale = FALSE])
<1>1. task[t] = [op |-> task[t].op, todo |-> task[t].todo, row |-> task[t].row, ext |-> task[t].ext,
                 on |-> task[t].on, stale |-> task[t].stale]
  BY FitTask DEF IsTask
<1>2. CASE k = <<>>
  BY <1>2 DEF Onto
<1>3. CASE k # <<>>
  BY <1>1, <1>3 DEF Onto, Todo
<1> QED
  BY <1>2, <1>3

LEMMA WithLimitQuiet ==
  ASSUME Typed(db, asaas), NEW n, db.companies # <<>> => n \in Int, NEW tables, tables = WithLimit(n)
  PROVE  Quiet(db, tables)
<1>1. db = [subs |-> db.subs, tenant |-> db.tenant, companies |-> db.companies, purchases |-> db.purchases]
      /\ db.companies \in Seq(Int)
  BY TypedLens
<1>2. PICK companies : companies = IF db.companies = <<>> THEN db.companies ELSE [db.companies EXCEPT ![1] = n]
  OBVIOUS
<1>3. tables = [db EXCEPT !.companies = companies]
  BY <1>1, <1>2 DEF WithLimit
<1>4. tables = [subs |-> db.subs, tenant |-> db.tenant, companies |-> companies, purchases |-> db.purchases]
  BY ONLY <1>1, <1>3
<1>5. Len(companies) = Len(db.companies) /\ (db.companies = <<>> => companies = <<>>)
  <2>1. CASE db.companies = <<>>
    BY <2>1, <1>2
  <2>2. CASE db.companies # <<>>
    <3>1. companies = [db.companies EXCEPT ![1] = n] /\ 1 \in DOMAIN db.companies /\ n \in Int
      BY <2>2, <1>1, <1>2, EmptySeq, LenProperties
    <3> QED
      BY <3>1, <1>1, <2>2, SeqPut
  <2> QED
    BY <2>1, <2>2
<1> QED
  BY <1>4, <1>5 DEF Quiet, Works, Active, Ended

----------------------------------------------------------------------------
(* The steps, one by one: those that are quiet first.                      *)

(* What a step by Write or Look of slot t, with a head of this kind, gives. *)
LEMMA Steps ==
  ASSUME TasksFit, NEW t \in Slot, NEW kind, Has(t, kind)
  PROVE  Todo(t) # <<>> /\ Is(task[t].todo[1], kind) /\ task[t].todo[1] = Head(Todo(t)) /\ Len(task[t].todo) - 1 \in Nat
         /\ At(task[t].op, task[t].on, task[t].todo[1], Len(task[t].todo) - 1, task[t].todo[Len(task[t].todo)])
         /\ Named(task[t].todo[1], db, asaas)
  BY HeadIs DEF Todo

LEMMA QuietWrite ==
  ASSUME TasksFit, TasksFit', PayInv, NEW t \in Slot, NEW kind, Has(t, kind), kind \notin {"activate", "sub"},
         NEW tables, Write(t, tables, Tail(Todo(t))), Quiet(db, tables)
  PROVE  PayInv'
<1>1. Todo(t) # <<>> /\ Is(task[t].todo[1], kind)
  BY Steps
<1>2. db' = tables /\ task'[t] = Continue(t, Tail(Todo(t))) /\ \A u \in Slot \ {t} : Kept(u)
  BY SaveTasks DEF Write
<1>3. Onto(task[t], task'[t])
  BY <1>2, ContinueOnto
<1> QED
  BY <1>1, <1>2, <1>3, QuietStep DEF Is

LEMMA WritePurchasePays ==
  ASSUME Typed(db, asaas), TasksFit, TasksFit', PayInv, NEW t \in Slot, WritePurchase(t)
  PROVE  PayInv'
<1> DEFINE p == IF Head(Todo(t)).i = None THEN task[t].row ELSE Head(Todo(t)).i
           tables == [db EXCEPT !.purchases[p] = Put(@, Head(Todo(t)).set)]
<1>1. Has(t, "purchase") /\ Write(t, tables, Tail(Todo(t)))
  BY DEF WritePurchase
<1>2. db = [subs |-> db.subs, tenant |-> db.tenant, companies |-> db.companies, purchases |-> db.purchases]
  BY TypedLens
<1>3. tables.subs = db.subs /\ tables.tenant = db.tenant /\ tables.companies = db.companies
  BY <1>2
<1> HIDE DEF tables
<1>4. Quiet(db, tables)
  BY <1>3 DEF Quiet, Works, Active, Ended
<1> QED
  BY <1>1, <1>4, QuietWrite

LEMMA LinkPays ==
  ASSUME Typed(db, asaas), TasksFit, TasksFit', PayInv, NEW t \in Slot, Link(t)
  PROVE  PayInv'
<1> DEFINE i == task[t].row
           tables == [db EXCEPT !.subs[task[t].row].ext = task[t].ext]
<1>1. Has(t, "link") /\ Write(t, tables, Tail(Todo(t)))
  BY DEF Link
<1>2. db = [subs |-> db.subs, tenant |-> db.tenant, companies |-> db.companies, purchases |-> db.purchases]
      /\ db.subs \in Seq(SubRow)
  BY TypedLens
<1>3. tables.tenant = db.tenant /\ tables.companies = db.companies /\ DOMAIN tables.subs = DOMAIN db.subs
      /\ \A j \in DOMAIN db.subs : j # i => tables.subs[j] = db.subs[j]
  BY <1>2
<1>4. ASSUME NEW j \in DOMAIN db.subs PROVE tables.subs[j].status = db.subs[j].status
  <2>1. CASE j # i
    BY <1>3, <2>1
  <2>2. CASE j = i
    <3>1. db.subs[i] \in SubRow
      BY <1>2, <2>2, ElementOfSeq
    <3>2. tables.subs[i] = [db.subs[i] EXCEPT !.ext = task[t].ext]
      BY <1>2, <2>2
    <3>3. tables.subs[i].status = db.subs[i].status
      BY <3>1, <3>2 DEF SubRow
    <3> QED
      BY <2>2, <3>3
  <2> QED
    BY <2>1, <2>2
<1> HIDE DEF tables
<1>5. Quiet(db, tables)
  BY <1>3, <1>4 DEF Quiet, Works, Active, Ended
<1> QED
  BY <1>1, <1>5, QuietWrite

LEMMA WriteLimitPays ==
  ASSUME Typed(db, asaas), TasksFit, TasksFit', PayInv, NEW t \in Slot, WriteLimit(t)
  PROVE  PayInv'
<1>1. CASE Has(t, "limit") /\ Write(t, WithLimit(Head(Todo(t)).to), Tail(Todo(t)))
  <2>1. Head(Todo(t)).to \in Int
    <3>1. Head(Todo(t)).to \in Plan
      BY <1>1, Steps, AtLimit
    <3> QED
      BY <3>1, PlanInt
  <2>2. Quiet(db, WithLimit(Head(Todo(t)).to))
    BY <2>1, WithLimitQuiet
  <2> QED
    BY <1>1, <2>2, QuietWrite
<1>2. CASE Has(t, "credit") /\ Write(t, WithLimit(db.companies[1] + Head(Todo(t)).by), Tail(Todo(t)))
  <2>1. Head(Todo(t)).by \in Int
    <3>1. Head(Todo(t)).by \in {AddOn, -AddOn}
      BY <1>2, Steps, AtCredit
    <3> QED
      BY <3>1, PlanAssumption
  <2>2. db.companies # <<>> => db.companies[1] + Head(Todo(t)).by \in Int
    <3>1. db.companies # <<>> => db.companies[1] \in Int
      BY TypedLens, EmptySeq, LenProperties, ElementOfSeq
    <3> QED
      BY <2>1, <3>1
  <2>3. Quiet(db, WithLimit(db.companies[1] + Head(Todo(t)).by))
    BY <2>2, WithLimitQuiet
  <2> QED
    BY <1>2, <2>3, QuietWrite
<1> QED
  BY <1>1, <1>2 DEF WriteLimit

(* Calls of the gateway.                                                   *)
LEMMA SelfQuiet == Quiet(db, db)
  BY DEF Quiet

LEMMA CallPays ==
  ASSUME TasksFit, TasksFit', PayInv, NEW t \in Slot, NEW kind, Has(t, kind), kind \notin {"activate", "sub"},
         db' = db, NEW r, task' = [task EXCEPT ![t] = r], Onto(task[t], r)
  PROVE  PayInv'
<1>1. Todo(t) # <<>> /\ Is(task[t].todo[1], kind)
  BY Steps
<1>2. task'[t] = r /\ \A u \in Slot \ {t} : Kept(u)
  BY DEF TasksFit, Kept
<1>3. Quiet(db, db')
  BY SelfQuiet
<1> QED
  BY <1>1, <1>2, <1>3, QuietStep DEF Is

LEMMA GatewayCallPays ==
  ASSUME TasksFit, TasksFit', PayInv, NEW t \in Slot, OpenExt(t) \/ CloseExt(t) \/ OpenBill(t)
  PROVE  PayInv'
<1>0. /\ DOMAIN task = Slot
      /\ task[t] = [op |-> task[t].op, todo |-> task[t].todo, row |-> task[t].row, ext |-> task[t].ext,
                    on |-> task[t].on, stale |-> task[t].stale]
  BY FitTask DEF TasksFit, IsTask
<1>1. CASE OpenExt(t)
  <2> DEFINE n == Len(asaas.subs) + 1
             r == [[task[t] EXCEPT !.todo = Tail(@)] EXCEPT !.ext = n]
  <2>1. Has(t, "createExt") /\ db' = db /\ task' = [task EXCEPT ![t] = r]
    BY <1>0, <1>1 DEF OpenExt, CallGateway
  <2>2. Onto(task[t], r)
    BY <1>0 DEF Onto
  <2> QED
    BY <2>1, <2>2, CallPays
<1>2. CASE CloseExt(t)
  <2> DEFINE r == [task[t] EXCEPT !.todo = Tail(@)]
  <2>1. Has(t, "cancelExt") /\ db' = db /\ task' = [task EXCEPT ![t] = r]
    BY <1>0, <1>2 DEF CloseExt, CallGateway
  <2>2. Onto(task[t], r)
    BY <1>0 DEF Onto
  <2> QED
    BY <2>1, <2>2, CallPays
<1>3. CASE OpenBill(t)
  <2>1. Has(t, "charge") /\ db' = db /\ task' = [task EXCEPT ![t] = Continue(t, Tail(Todo(t)))]
    BY <1>3 DEF OpenBill, CallGateway
  <2> QED
    BY <2>1, ContinueOnto, CallPays
<1> QED
  BY <1>1, <1>2, <1>3

(* Reads: what is left may be another write in the place of the first.     *)
LEMMA QuietOther ==
  ASSUME TasksFit, PayInv, NEW t \in Slot, Quiet(db, db'), \A u \in Slot \ {t} : Kept(u),
         Allowed(task'[t], db'), Boards(task'[t]) => Boards(task[t]) \/ ~Works(db)
  PROVE  PayInv'
  BY PayKept DEF Quiet, PayInv

LEMMA LookTail ==
  ASSUME TasksFit, TasksFit', PayInv, NEW t \in Slot, NEW kind, Has(t, kind), kind \notin {"activate", "sub"},
         task[t].op \in {Floorer, "cyclePaid"}, Look(t, Tail(Todo(t)))
  PROVE  PayInv'
<1> DEFINE k == Tail(Todo(t))
           rest == IF k = <<>> THEN Idle ELSE [[task[t] EXCEPT !.todo = k] EXCEPT !.stale = FALSE]
<1>1. Todo(t) # <<>> /\ Is(task[t].todo[1], kind)
  BY Steps
<1>2. Save(t, db, rest)
  BY LookTasks
<1> HIDE DEF rest
<1>3. db' = db /\ task'[t] = rest /\ \A u \in Slot \ {t} : Kept(u)
  BY <1>2, SaveTasks
<1>4. Onto(task[t], rest)
  BY LookOnto DEF rest
<1>5. Quiet(db, db')
  BY <1>3, SelfQuiet
<1> QED
  BY <1>1, <1>3, <1>4, <1>5, QuietStep DEF Is, Floorer

LEMMA LookPuts ==
  ASSUME TasksFit, NEW t \in Slot, Todo(t) # <<>>, NEW x, Look(t, <<x>> \o Tail(Todo(t)))
  PROVE  /\ db' = db /\ \A u \in Slot \ {t} : Kept(u)
         /\ task'[t].op = task[t].op /\ task'[t].on = task[t].on /\ task'[t].stale = FALSE
         /\ DOMAIN task'[t].todo = DOMAIN task[t].todo /\ Len(task'[t].todo) = Len(task[t].todo)
         /\ task'[t].todo[1] = x /\ \A k \in DOMAIN task[t].todo : k # 1 => task'[t].todo[k] = task[t].todo[k]
         /\ task[t].row = task'[t].row /\ task[t].ext = task'[t].ext
         /\ 1 \in DOMAIN task[t].todo
<1> DEFINE k == <<x>> \o Tail(Todo(t))
           rest == [[task[t] EXCEPT !.todo = k] EXCEPT !.stale = FALSE]
<1>1. /\ Listed(k) /\ DOMAIN k = DOMAIN Todo(t) /\ Len(k) = Len(Todo(t)) /\ k[1] = x
      /\ \A j \in DOMAIN Todo(t) : j # 1 => k[j] = Todo(t)[j]
  BY FitTask, ListedReplace
<1>2. 1 \in DOMAIN Todo(t)
  BY FitTask, ListedTail
<1>3. k # <<>>
  <2>1. DOMAIN k # DOMAIN <<>>
    BY <1>1, <1>2
  <2> QED
    BY <2>1
<1>4. task[t] = [op |-> task[t].op, todo |-> task[t].todo, row |-> task[t].row, ext |-> task[t].ext,
                 on |-> task[t].on, stale |-> task[t].stale]
  BY FitTask DEF IsTask
<1>5. Save(t, db, rest)
  BY <1>3, LookTasks
<1> HIDE DEF k
<1>6. rest.op = task[t].op /\ rest.on = task[t].on /\ rest.stale = FALSE /\ rest.todo = k
      /\ rest.row = task[t].row /\ rest.ext = task[t].ext
  BY <1>4
<1> HIDE DEF rest
<1>7. db' = db /\ task'[t] = rest /\ \A u \in Slot \ {t} : Kept(u)
  BY <1>5, SaveTasks
<1> QED
  BY <1>1, <1>2, <1>6, <1>7 DEF Todo

LEMMA OtherAllowed ==
  ASSUME NEW q, q.op \notin {"cyclePaid", "subscribe", "extDeleted"} \cup Upgrading, NEW d
  PROVE  Allowed(q, d) /\ ~Boards(q)
  BY DEF Allowed, Activated, Founds, Replaces, SignsUp, Ends, Boards, Renewing, Applies

LEMMA ContinueOp ==
  ASSUME TasksFit, NEW t \in Slot, NEW k
  PROVE  Continue(t, k) = Idle \/ Continue(t, k).op = task[t].op
<1>1. task[t] = [op |-> task[t].op, todo |-> task[t].todo, row |-> task[t].row, ext |-> task[t].ext,
                 on |-> task[t].on, stale |-> task[t].stale]
  BY FitTask DEF IsTask
<1> QED
  BY <1>1 DEF Continue

LEMMA ReadFloorPays ==
  ASSUME TasksFit, TasksFit', PayInv, NEW t \in Slot, ReadFloor(t)
  PROVE  PayInv'
<1>1. Has(t, "floor") /\ Todo(t) # <<>> /\ Is(task[t].todo[1], "floor")
  BY Steps DEF ReadFloor
<1>2. task[t].op = Floorer
  BY <1>1, Steps, AtFloor
<1>3. PICK x : Look(t, <<x>> \o Tail(Todo(t)))
  BY DEF ReadFloor
<1>4. db' = db /\ task'[t].op = task[t].op /\ \A u \in Slot \ {t} : Kept(u)
  BY <1>1, <1>3, LookPuts
<1>5. Allowed(task'[t], db') /\ ~Boards(task'[t])
  BY <1>4, <1>2, OtherAllowed DEF Floorer, Upgrading
<1> QED
  BY <1>4, <1>5, SelfQuiet, QuietOther

LEMMA CheckFloorPays ==
  ASSUME TasksFit, TasksFit', PayInv, NEW t \in Slot, CheckFloor(t)
  PROVE  PayInv'
<1>1. Has(t, "below") /\ Todo(t) # <<>> /\ Is(task[t].todo[1], "below")
  BY Steps DEF CheckFloor
<1>2. task[t].op = Floorer
  BY <1>1, Steps, AtBelow
<1>3. PICK rest : Save(t, db, rest) /\ (rest = Idle \/ rest.op = task[t].op)
  BY ContinueOp DEF CheckFloor, Write
<1>4. db' = db /\ task'[t] = rest /\ \A u \in Slot \ {t} : Kept(u)
  BY <1>3, SaveTasks
<1>5. rest.op \in {"idle", Floorer}
  BY <1>2, <1>3, IdleTask
<1>6. Allowed(task'[t], db') /\ ~Boards(task'[t])
  BY <1>4, <1>5, OtherAllowed DEF Floorer, Upgrading
<1> QED
  BY <1>4, <1>6, SelfQuiet, QuietOther

LEMMA ReadOnboardPays ==
  ASSUME TasksFit, TasksFit', PayInv, NEW t \in Slot, ReadOnboard(t)
  PROVE  PayInv'
<1>1. Has(t, "onboard") /\ Todo(t) # <<>> /\ Is(task[t].todo[1], "onboard") /\ IsTask(task[t]) /\ Allowed(task[t], db)
  BY Steps, FitTask DEF ReadOnboard, PayInv
<1>2. Renewing(task[t])
  BY <1>1, Steps, AtOnboard DEF Renewing
<1>3. <<>> \o Tail(Todo(t)) = Tail(Todo(t))
  BY <1>1, EmptyConcat, HeadIs
<1>4. CASE Look(t, Tail(Todo(t)))
  BY <1>1, <1>2, <1>4, LookTail DEF Renewing
<1>5. CASE db.companies = <<>> /\ Look(t, <<AddCompany(db.tenant.plan)>> \o Tail(Todo(t)))
  <2> DEFINE x == AddCompany(db.tenant.plan)
             r == task[t]
             q == task'[t]
  <2>1. /\ db' = db /\ \A u \in Slot \ {t} : Kept(u)
        /\ q.op = r.op /\ DOMAIN q.todo = DOMAIN r.todo /\ Len(q.todo) = Len(r.todo)
        /\ \A k \in DOMAIN r.todo : k # 1 => q.todo[k] = r.todo[k]
    BY <1>1, <1>5, LookPuts
  <2>2. Stage(r) = 2 /\ Len(r.todo) \in Nat /\ DOMAIN r.todo = 1 .. Len(r.todo)
    BY <1>1, <1>2, StageIs
  <2>3. Len(r.todo) >= 2
    BY <2>2 DEF Stage
  <2>4. Stage(q) = Stage(r)
    <3>0. PICK n : n = Len(r.todo)
      OBVIOUS
    <3>1. n \in 1 .. n /\ n # 1
      <4>1. n \in Nat /\ n >= 2
        BY <2>2, <2>3, <3>0
      <4> QED
        BY <4>1
    <3>2. q.todo[Len(q.todo)] = r.todo[Len(r.todo)]
      BY <2>1, <2>2, <3>0, <3>1
    <3> QED
      BY <2>1, <3>2 DEF Stage
  <2> HIDE DEF q
  <2>5. Activated(q, db) /\ Founds(q, db)
    <3>1. Activated(q, db)
      BY <2>1, <2>4, <1>1 DEF Allowed, Activated, Renewing
    <3>2. Founds(q, db)
      BY <2>1, <1>1, <1>5 DEF Allowed, Founds, Renewing
    <3> QED
      BY <3>1, <3>2
  <2>6. Allowed(q, db) /\ (Boards(q) <=> Boards(r))
    BY <2>1, <2>4, <2>5, <1>2 DEF Allowed, Replaces, SignsUp, Ends, Boards, Renewing, Applies, Upgrading
  <2> QED
    BY <2>1, <2>6, SelfQuiet, QuietOther DEF q
<1> QED
  BY <1>3, <1>4, <1>5 DEF ReadOnboard

(* The tenant is suspended if the subscription that has ended was its last. *)
LEMMA ReadOthersPays ==
  ASSUME TasksFit, TasksFit', PayInv, NEW t \in Slot, ReadOthers(t)
  PROVE  PayInv'
<1> DEFINE r == task[t]
           q == task'[t]
<1>1. /\ Has(t, "suspendAlone") /\ Todo(t) # <<>> /\ Is(r.todo[1], "suspendAlone") /\ r.todo[1] = Head(Todo(t))
      /\ IsTask(r) /\ Allowed(r, db)
  BY Steps, FitTask DEF ReadOthers, PayInv
<1>2. r.op = "extDeleted" /\ Len(r.todo) - 1 = 0
  <2>1. Len(r.todo) - 1 \in Nat /\ At(r.op, r.on, r.todo[1], Len(r.todo) - 1, r.todo[Len(r.todo)])
    BY <1>1, Steps
  <2>2. Is(r.todo[1], "suspendAlone")
    BY <1>1
  <2>3. PICK e \in Nat : e = Len(r.todo) - 1
    BY <2>1
  <2>4. At(r.op, r.on, r.todo[1], e, r.todo[Len(r.todo)])
    BY <2>1, <2>3
  <2>5. r.op = "extDeleted" /\ e = 0
    BY <2>2, <2>4, AtSuspend
  <2> QED
    BY <2>3, <2>5
<1>3. /\ <<>> \o Tail(Todo(t)) = Tail(Todo(t))
      /\ Len(Tail(Todo(t))) = 0 /\ Listed(Tail(Todo(t)))
  BY <1>1, <1>2, EmptyConcat, HeadIs DEF Todo
<1>4. CASE Look(t, Tail(Todo(t)))
  <2>1. Tail(Todo(t)) = <<>>
    BY <1>3, EmptySeq DEF Listed
  <2>2. Save(t, db, Idle)
    BY <2>1, <1>4, LookTasks
  <2>3. db' = db /\ task'[t] = Idle /\ \A u \in Slot \ {t} : Kept(u)
    BY <2>2, SaveTasks
  <2> QED
    BY <2>3, IdleAllowed, SelfQuiet, QuietOther
<1>5. CASE ActiveSubs \subseteq {Head(Todo(t)).i} /\ Look(t, <<SetTenant([status |-> "SUSPENDED"])>> \o Tail(Todo(t)))
  <2>1. /\ db' = db /\ \A u \in Slot \ {t} : Kept(u)
        /\ q.op = r.op /\ DOMAIN q.todo = DOMAIN r.todo /\ Len(q.todo) = Len(r.todo) /\ 1 \in DOMAIN r.todo
        /\ q.todo[1] = SetTenant([status |-> "SUSPENDED"])
    BY <1>1, <1>5, LookPuts
  <2>2. Active(db) = {}
    <3>1. Ended(Head(Todo(t)).i, db)
      BY <1>1, <1>2 DEF Allowed, Ends
    <3>2. ActiveSubs = Active(db) /\ Head(Todo(t)).i \notin Active(db)
      BY <3>1 DEF ActiveSubs, Active, Ended
    <3> QED
      BY <1>5, <3>2
  <2>3. \A k \in DOMAIN q.todo : k = 1
    <3>1. Len(r.todo) = 1 /\ DOMAIN r.todo = 1 .. Len(r.todo)
      BY <1>1, <1>2, TaskLists
    <3> QED
      BY <3>1, <2>1
  <2>4. ~Is(q.todo[1], "suspendAlone")
    BY <2>1 DEF SetTenant, Is
  <2> HIDE DEF q
  <2>5. Allowed(q, db) /\ ~Boards(q)
    BY <2>1, <2>2, <2>3, <2>4, <1>2 DEF Allowed, Activated, Founds, Replaces, SignsUp, Ends, Boards, Renewing, Applies, Upgrading
  <2> QED
    BY <2>1, <2>5, SelfQuiet, QuietOther DEF q
<1> QED
  BY <1>3, <1>4, <1>5 DEF ReadOthers

(* Writes that the others see.                                             *)
LEMMA SaveStale ==
  ASSUME TasksFit, NEW t \in Slot, NEW tables, NEW rest, Save(t, tables, rest), tables.subs # db.subs,
         NEW u \in Slot \ {t}, Busy(u)
  PROVE  task'[u].stale
<1>1. task[u] = [op |-> task[u].op, todo |-> task[u].todo, row |-> task[u].row, ext |-> task[u].ext,
                 on |-> task[u].on, stale |-> task[u].stale]
  BY FitTask DEF IsTask
<1>2. PICK touched : touched = (tables.subs # db.subs \/ tables.tenant # db.tenant)
  OBVIOUS
<1>3. touched
  BY <1>2
<1>4. task'[u] = [task[u] EXCEPT !.stale = task[u].stale \/ touched]
  BY <1>2 DEF Save, TasksFit
<1>5. task'[u].stale = (task[u].stale \/ touched)
  BY <1>1, <1>4
<1> QED
  BY <1>3, <1>5

LEMMA WriteGives ==
  ASSUME TasksFit, TasksFit', PayInv, NEW t \in Slot, NEW kind, Has(t, kind), NEW tables, Write(t, tables, Tail(Todo(t)))
  PROVE  /\ db' = tables /\ \A u \in Slot \ {t} : Kept(u)
         /\ Onto(task[t], task'[t]) /\ IsTask(task[t]) /\ IsTask(task'[t])
         /\ task[t] # Idle /\ task[t].op # "idle" /\ Allowed(task[t], db)
         /\ tables.subs # db.subs => \A u \in Slot \ {t} : Busy(u) => task'[u].stale
<1>1. db' = tables /\ task'[t] = Continue(t, Tail(Todo(t))) /\ \A u \in Slot \ {t} : Kept(u)
  BY SaveTasks DEF Write
<1>2. Onto(task[t], task'[t])
  BY <1>1, ContinueOnto
<1>3. IsTask(task[t]) /\ task[t] # Idle /\ task[t].op # "idle" /\ Allowed(task[t], db)
  BY BusyOp, Steps DEF PayInv
<1>4. IsTask(task'[t])
  <2>1. Slot' = Slot
    BY DEF Slot, Cron
  <2> QED
    BY <2>1 DEF TasksFit, Fits
<1>5. tables.subs # db.subs => \A u \in Slot \ {t} : Busy(u) => task'[u].stale
  BY SaveStale DEF Write
<1> QED
  BY <1>1, <1>2, <1>3, <1>4, <1>5

LEMMA InsertCompanyPays ==
  ASSUME Typed(db, asaas), TasksFit, TasksFit', PayInv, NEW t \in Slot, InsertCompany(t)
  PROVE  PayInv'
<1> DEFINE n == Head(Todo(t)).limit
           tables == [db EXCEPT !.companies = Append(@, n)]
<1>1. Has(t, "newCompany") /\ Write(t, tables, Tail(Todo(t))) /\ Is(task[t].todo[1], "newCompany")
  BY Steps DEF InsertCompany
<1>2. db = [subs |-> db.subs, tenant |-> db.tenant, companies |-> db.companies, purchases |-> db.purchases]
  BY TypedLens
<1>3. /\ db' = tables /\ (\A u \in Slot \ {t} : Kept(u)) /\ Onto(task[t], task'[t]) /\ IsTask(task[t]) /\ IsTask(task'[t])
      /\ task[t] # Idle /\ task[t].op # "idle" /\ Allowed(task[t], db)
  BY <1>1, WriteGives
<1> HIDE DEF n
<1>4. /\ tables.subs = db.subs /\ tables.tenant = db.tenant /\ tables.companies = Append(db.companies, n)
  BY <1>2
<1>5. Renewing(task[t])
  <2>1. Len(task[t].todo) - 1 \in Nat /\ At(task[t].op, task[t].on, task[t].todo[1], Len(task[t].todo) - 1, task[t].todo[Len(task[t].todo)])
    BY <1>1, Steps
  <2> QED
    BY <1>1, <2>1, AtNewCompany DEF Renewing
<1>6. Stage(task[t]) = 2 /\ 1 \in DOMAIN task[t].todo
  BY <1>1, <1>3, <1>5, StageIs
<1>7. db.companies = <<>>
  BY <1>1, <1>3, <1>5, <1>6 DEF Allowed, Founds
<1>8. tables.companies = <<n>>
  BY <1>4, <1>7
<1>9. Len(tables.companies) <= 1
  BY <1>8
<1> HIDE DEF tables
<1>10. Works(tables) <=> Works(db)
  BY <1>4 DEF Works
<1>11. Active(tables) = Active(db) /\ \A i : Ended(i, db) => Ended(i, tables)
  BY <1>4 DEF Active, Ended
<1>12. ~Is(task[t].todo[1], "activate") /\ ~Is(task[t].todo[1], "sub")
  BY <1>1 DEF Is
<1>13. Allowed(task'[t], tables) /\ (Boards(task'[t]) => Boards(task[t]))
  BY <1>3, <1>10, <1>11, <1>12, OntoAllowed
<1>14. Boards(task[t])
  BY <1>5, <1>6 DEF Boards
<1> QED
  BY <1>3, <1>9, <1>10, <1>11, <1>13, <1>14, PayKept DEF PayInv

LEMMA ActivatePays ==
  ASSUME Typed(db, asaas), TasksFit, TasksFit', PayInv, NEW t \in Slot, Activate(t)
  PROVE  PayInv'
<1> DEFINE tables == [db EXCEPT !.tenant.status = "ACTIVE"]
           k == SubSeq(Todo(t), 4, Len(Todo(t)))
<1>0. /\ Has(t, "activate") /\ Is(task[t].todo[1], "activate") /\ IsTask(task[t]) /\ Allowed(task[t], db)
      /\ Todo(t) # <<>> /\ Listed(Todo(t))
  BY Steps, FitTask DEF Activate, PayInv
<1>1. Renewing(task[t])
  <2>1. Len(task[t].todo) - 1 \in Nat /\ At(task[t].op, task[t].on, task[t].todo[1], Len(task[t].todo) - 1, task[t].todo[Len(task[t].todo)])
    BY <1>0, Steps
  <2> QED
    BY <1>0, <2>1, AtActivate DEF Renewing
<1>2. CASE db.tenant.status # "ACTIVE" /\ Write(t, tables, Tail(Todo(t)))
  <2>1. db = [subs |-> db.subs, tenant |-> db.tenant, companies |-> db.companies, purchases |-> db.purchases]
        /\ db.tenant \in TenantRow
    BY TypedLens
  <2>2. /\ db' = tables /\ (\A u \in Slot \ {t} : Kept(u)) /\ Onto(task[t], task'[t]) /\ IsTask(task[t]) /\ IsTask(task'[t])
        /\ task[t] # Idle /\ task[t].op # "idle" /\ Allowed(task[t], db)
    BY <1>0, <1>2, WriteGives
  <2>3. /\ tables.subs = db.subs /\ tables.tenant.status = "ACTIVE" /\ tables.companies = db.companies
    BY <2>1 DEF TenantRow
  <2> HIDE DEF tables
  <2>4. Works(tables) /\ ~Works(db) /\ Active(tables) = Active(db) /\ \A i : Ended(i, db) => Ended(i, tables)
    BY <2>3, <1>2 DEF Works, Active, Ended
  <2>5. Allowed(task'[t], tables)
    BY <2>2, <2>4, <1>0, OntoAllowed DEF Is
  <2> QED
    BY <2>2, <2>3, <2>4, <2>5, PayKept DEF PayInv
<1>3. CASE db.tenant.status = "ACTIVE" /\ Write(t, db, k)
  <2> DEFINE r == task[t]
             q == task'[t]
  <2>1. /\ Stage(r) = 4 /\ Len(r.todo) \in Nat /\ DOMAIN r.todo = 1 .. Len(r.todo)
    BY <1>0, <1>1, StageIs
  <2>2. Len(r.todo) >= 4
    BY <2>1 DEF Stage
  <2>a. PICK n \in Nat : n = Len(r.todo) /\ n >= 4
    BY <2>1, <2>2
  <2>3. /\ Listed(k) /\ Len(k) = Len(r.todo) - 3 /\ DOMAIN k = 1 .. Len(r.todo) - 3
        /\ \A j \in DOMAIN k : k[j] = r.todo[j + 3] /\ j + 3 \in DOMAIN r.todo
    BY <1>0, <2>2, ListedDrop DEF Todo
  <2>4. /\ db' = db /\ q = Continue(t, k) /\ \A u \in Slot \ {t} : Kept(u)
    BY <1>3, SaveTasks DEF Write
  <2>5. k # <<>>
    <3> HIDE DEF k
    <3>1. Len(k) = n - 3
      BY <2>a, <2>3
    <3> QED
      BY <2>a, <3>1
  <2> HIDE DEF k
  <2>6. q.op = r.op /\ q.todo = k /\ Renewing(q)
    <3>1. q = [r EXCEPT !.todo = k]
      BY <2>4, <2>5 DEF Continue
    <3>2. r = [op |-> r.op, todo |-> r.todo, row |-> r.row, ext |-> r.ext, on |-> r.on, stale |-> r.stale]
      BY <1>0 DEF IsTask
    <3> QED
      BY <3>1, <3>2, <1>1 DEF Renewing
  <2>7. k[Len(k)] = r.todo[Len(r.todo)]
    <3>1. n - 3 \in 1 .. n - 3 /\ n - 3 + 3 = n
      BY <2>a
    <3> QED
      BY <2>3, <2>a, <3>1
  <2>8. Stage(q) = 1
    <3>1. PICK c \in {0, 2} : c = IF Moving(r.todo[Len(r.todo)]) THEN 2 ELSE 0
      OBVIOUS
    <3>2. Stage(r) = n - c
      BY <2>a, <3>1 DEF Stage
    <3>3. Stage(q) = Len(k) - c
      BY <2>6, <2>7, <3>1 DEF Stage
    <3>4. Len(k) = n - 3
      BY <2>a, <2>3
    <3> QED
      BY <2>1, <2>a, <3>2, <3>3, <3>4
  <2> HIDE DEF q
  <2>9. Founds(q, db)
    <3>1. \A j \in DOMAIN k : ~Is(k[j], "newCompany")
      BY <2>1, <2>2, <2>3, <1>0, <1>1 DEF Allowed, Founds
    <3> QED
      BY <2>6, <3>1 DEF Founds
  <2>10. Allowed(q, db) /\ ~Boards(q)
    BY <2>6, <2>8, <2>9, <1>1, <1>3 DEF Allowed, Activated, Replaces, SignsUp, Ends, Boards, Renewing, Applies, Upgrading, Works
  <2> QED
    BY <2>4, <2>10, SelfQuiet, QuietOther DEF q
<1> QED
  BY <1>2, <1>3 DEF Activate

(* Who writes a status of the tenant.                                      *)
LEMMA TenantBy ==
  ASSUME NEW op, NEW on, NEW w, NEW e \in Nat, NEW z, At(op, on, w, e, z), Is(w, "tenant"), "status" \in DOMAIN w.set
  PROVE  \/ op = "cyclePaid" /\ w.set = [status |-> "ACTIVE"]
         \/ op \in {"subscribe", "extDeleted", "checkOverdueSubscriptions"} /\ w.set["status"] # "ACTIVE"
<1>1. \A plan : "status" \notin DOMAIN [plan |-> plan]
  OBVIOUS
<1>2. \A plan : w.set # [plan |-> plan]
  BY <1>1
<1>3. CASE op = "cyclePaid"
  <2>1. AtCyclePaid(on, w, e, z)
    BY <1>3 DEF At, Upgrading, Applier, Floorer
  <2> QED
    BY <2>1, <1>2, <1>3 DEF AtCyclePaid, Is, Tenant
<1>4. CASE op # "cyclePaid"
  <2>1. \/ op = "subscribe" /\ w.set = [status |-> "PENDING_PAYMENT"]
        \/ op = "extDeleted" /\ w.set = [status |-> "SUSPENDED"]
        \/ op = "checkOverdueSubscriptions" /\ w.set = [status |-> "BLOCKED"]
    BY <1>2, <1>4 DEF At, AtSubscribe, AtUpgrade, Pends, AtDowngrade, AtCancelDowngrade, AtBuyAddOn, AtAddOnPaid,
         AtCycleOverdue, AtExtCreated, AtExtDeleted, AtCheckOverdue, AtApplyPending, AtExpireAddOns, Found, Is, Sub, SubOf, Tenant
  <2> QED
    BY <2>1
<1> QED
  BY <1>3, <1>4

LEMMA PayingRequests == ASSUME TasksFit, NEW u \in Slot, Paying(u) PROVE u \in Request
<1>1. Fits(u, task[u], db, asaas) /\ task[u].op \in {"cyclePaid", "upgradePaid", "upgrade"}
  BY DEF TasksFit, Paying
<1>2. task[u] # Idle
  BY <1>1, IdleTask
<1>3. task[u].op \notin Cron
  BY <1>1 DEF Cron
<1>4. u \notin Cron
  BY <1>1, <1>2, <1>3 DEF Fits
<1> QED
  BY <1>4 DEF Slot

LEMMA WriteTenantPays ==
  ASSUME Typed(db, asaas), TasksFit, TasksFit', PayInv, ~LocksOut, NEW t \in Slot, WriteTenant(t)
  PROVE  PayInv'
<1> DEFINE w == Head(Todo(t))
           tables == [db EXCEPT !.tenant = Put(@, w.set)]
<1>1. /\ Has(t, "tenant") /\ Write(t, tables, Tail(Todo(t))) /\ Todo(t) # <<>>
      /\ Is(task[t].todo[1], "tenant") /\ w = task[t].todo[1]
      /\ Len(task[t].todo) - 1 \in Nat /\ At(task[t].op, task[t].on, w, Len(task[t].todo) - 1, task[t].todo[Len(task[t].todo)])
  BY Steps DEF WriteTenant
<1>2. db = [subs |-> db.subs, tenant |-> db.tenant, companies |-> db.companies, purchases |-> db.purchases]
      /\ db.tenant \in TenantRow
  BY TypedLens
<1>3. /\ db' = tables /\ (\A u \in Slot \ {t} : Kept(u)) /\ Onto(task[t], task'[t]) /\ IsTask(task[t]) /\ IsTask(task'[t])
      /\ task[t] # Idle /\ task[t].op # "idle" /\ Allowed(task[t], db)
  BY <1>1, WriteGives
<1> HIDE DEF w
<1>4. /\ tables.subs = db.subs /\ tables.tenant = Put(db.tenant, w.set) /\ tables.companies = db.companies
  BY <1>2
<1> HIDE DEF tables
<1>5. Put(db.tenant, w.set).status = IF "status" \in DOMAIN w.set THEN w.set["status"] ELSE db.tenant.status
  BY <1>2 DEF Put, TenantRow
<1>6. Active(tables) = Active(db) /\ \A i : Ended(i, db) => Ended(i, tables)
  BY <1>4 DEF Active, Ended
<1>7. CASE Works(tables) <=> Works(db)
  <2>1. Quiet(db, tables)
    BY <1>4, <1>6, <1>7 DEF Quiet
  <2> QED
    BY <1>1, <2>1, QuietWrite
<1>8. CASE ~(Works(tables) <=> Works(db))
  <2>1. "status" \in DOMAIN w.set
    BY <1>4, <1>5, <1>8 DEF Works
  <2>2. ~(task[t].op = "cyclePaid" /\ w.set = [status |-> "ACTIVE"])
    <3> SUFFICES ASSUME task[t].op = "cyclePaid" /\ w.set = [status |-> "ACTIVE"] PROVE FALSE
      OBVIOUS
    <3>1. Tenant(task[t].todo[1], [status |-> "ACTIVE"]) /\ Renewing(task[t])
      BY <1>1 DEF Tenant, Renewing
    <3>2. Stage(task[t]) = 3
      BY <1>3, <3>1, StageIs
    <3>3. Works(db)
      BY <1>3, <3>1, <3>2 DEF Allowed, Activated
    <3>4. Works(tables)
      BY <1>4, <1>5, <2>1 DEF Works
    <3> QED
      BY <1>8, <3>3, <3>4
  <2>3. task[t].op \in {"subscribe", "extDeleted", "checkOverdueSubscriptions"} /\ w.set["status"] # "ACTIVE"
    <3>1. Is(w, "tenant")
      BY <1>1
    <3> QED
      BY <1>1, <2>1, <2>2, <3>1, TenantBy
  <2>4. Works(db) /\ ~Works(tables)
    BY <1>4, <1>5, <1>8, <2>1, <2>3 DEF Works
  <2>5. db'.tenant.status \notin {db.tenant.status, "ACTIVE"}
    BY <1>3, <2>4 DEF Works
  <2>6. ~task[t].stale /\ ~(t \in Cron /\ ActiveSubs # {}) /\ \A u \in Request : ~Paying(u)
    BY <2>5 DEF LocksOut
  <2>7. Active(db) = {}
    <3>1. CASE task[t].op = "subscribe"
      BY <3>1, <2>6, <1>3 DEF Allowed, SignsUp
    <3>2. CASE task[t].op = "extDeleted"
      <4>1. 1 \in DOMAIN task[t].todo
        BY <1>1, FitTask, ListedTail DEF Todo
      <4> QED
        BY <3>2, <4>1, <2>6, <1>1, <1>3 DEF Allowed, Ends
    <3>3. CASE task[t].op = "checkOverdueSubscriptions"
      <4>1. task[t].op \in Cron
        BY <3>3 DEF Cron
      <4>2. t \in Cron
        BY <4>1, <1>3 DEF TasksFit, Fits
      <4> QED
        BY <4>2, <2>6 DEF ActiveSubs, Active
    <3> QED
      BY <2>3, <3>1, <3>2, <3>3
  <2>8. ~Renewing(task[t]) /\ ~Applies(task[t]) /\ ~Is(task[t].todo[1], "activate") /\ ~Is(task[t].todo[1], "sub")
    BY <1>1, <2>3 DEF Renewing, Applies, Upgrading, Is
  <2>9. Allowed(task'[t], tables) /\ (Boards(task'[t]) => Boards(task[t]))
    BY <1>3, <1>6, <2>8, OntoAllowed
  <2>10. \A u \in Slot : ~Paying(u)
    BY <2>6, PayingRequests
  <2> QED
    BY <1>3, <1>4, <1>6, <2>7, <2>9, <2>10, PayKept DEF PayInv
<1> QED
  BY <1>7, <1>8

(* Who makes a subscription active: a payment of its month, that has made  *)
(* the tenant active or has found it so.                                   *)
LEMMA ActiveBy ==
  ASSUME NEW op, NEW on, NEW w, NEW e \in Nat, NEW z, At(op, on, w, e, z), Is(w, "sub"),
         "status" \in DOMAIN w.set, w.set["status"] = "ACTIVE"
  PROVE  op = "cyclePaid"
<1>1. \A plan, due : "status" \notin DOMAIN [pending |-> plan, due |-> due]
  OBVIOUS
<1>2. \A x : "status" \notin DOMAIN [ext |-> x]
  OBVIOUS
<1>3. \A plan : "status" \notin DOMAIN [plan |-> plan, pending |-> None, due |-> FALSE]
  OBVIOUS
<1>4. \A since : [status |-> "PAST_DUE", overdue |-> since]["status"] # "ACTIVE"
  OBVIOUS
<1>5. \A plan, due : w.set # [pending |-> plan, due |-> due]
  BY <1>1
<1>6. \A x : w.set # [ext |-> x]
  BY <1>2
<1>7. \A plan : w.set # [plan |-> plan, pending |-> None, due |-> FALSE]
  BY <1>3
<1>8. \A since : w.set # [status |-> "PAST_DUE", overdue |-> since]
  BY <1>4
<1>9. w.set # [status |-> "CANCELLED"] /\ w.set # [status |-> "SUSPENDED"]
      /\ w.set # [status |-> "CANCELLED", pending |-> None, due |-> FALSE]
  OBVIOUS
<1> QED
  BY <1>5, <1>6, <1>7, <1>8, <1>9 DEF At, AtSubscribe, AtUpgrade, Pends, AtDowngrade, AtCancelDowngrade, AtBuyAddOn, AtAddOnPaid,
     AtCycleOverdue, AtExtCreated, AtExtDeleted, AtCheckOverdue, AtApplyPending, AtExpireAddOns, Found, Is, Sub, SubOf, Tenant

LEMMA WriteSubPays ==
  ASSUME Typed(db, asaas), TasksFit, TasksFit', PayInv, ~Revived, NEW t \in Slot, WriteSub(t)
  PROVE  PayInv'
<1> DEFINE w == Head(Todo(t))
           i == w.i
           row == Put(db.subs[i], w.set)
           tables == [db EXCEPT !.subs[i] = Put(@, w.set)]
           r == task[t]
           q == task'[t]
<1>1. /\ Has(t, "sub") /\ Write(t, tables, Tail(Todo(t))) /\ Todo(t) # <<>>
      /\ Is(r.todo[1], "sub") /\ w = r.todo[1] /\ Named(w, db, asaas)
      /\ Len(r.todo) - 1 \in Nat /\ At(r.op, r.on, w, Len(r.todo) - 1, r.todo[Len(r.todo)])
  BY Steps DEF WriteSub
<1>2. db = [subs |-> db.subs, tenant |-> db.tenant, companies |-> db.companies, purchases |-> db.purchases]
      /\ db.subs \in Seq(SubRow)
  BY TypedLens
<1>3. /\ db' = tables /\ (\A u \in Slot \ {t} : Kept(u)) /\ Onto(r, q) /\ IsTask(r) /\ IsTask(q)
      /\ r # Idle /\ r.op # "idle" /\ Allowed(r, db)
      /\ tables.subs # db.subs => \A u \in Slot \ {t} : Busy(u) => task'[u].stale
  BY <1>1, WriteGives
<1> HIDE DEF w, q
<1>4. i \in DOMAIN db.subs
  BY <1>1 DEF Named, Is
<1>5. db.subs[i] \in SubRow
  BY <1>2, <1>4, ElementOfSeq
<1>6. row.status = IF "status" \in DOMAIN w.set THEN w.set["status"] ELSE db.subs[i].status
  <2>1. "status" \in DOMAIN db.subs[i]
    BY <1>5 DEF SubRow
  <2> QED
    BY <2>1, PutColumn
<1> HIDE DEF row
<1>7. /\ tables.tenant = db.tenant /\ tables.companies = db.companies /\ DOMAIN tables.subs = DOMAIN db.subs
      /\ tables.subs[i] = row /\ \A j \in DOMAIN db.subs : j # i => tables.subs[j] = db.subs[j]
  BY <1>2, <1>4 DEF row
<1> HIDE DEF tables, i, r
<1>8. Works(tables) <=> Works(db)
  BY <1>7 DEF Works
<1>9. \A j : Ended(j, db) => Ended(j, tables)
  BY <1>3, <1>7 DEF Ended, Revived
<1>10. Active(tables) \subseteq Active(db) \/ \A u \in Slot \ {t} : Busy(u) => task'[u].stale
  BY <1>3 DEF Active
<1>11. Active(tables) # {} => Works(tables)
  <2>1. CASE "status" \in DOMAIN w.set /\ w.set["status"] = "ACTIVE"
    <3>0. Is(w, "sub")
      BY <1>1
    <3>1. Renewing(r)
      BY <1>1, <2>1, <3>0, ActiveBy DEF Renewing
    <3>2. Stage(r) <= 1 /\ Stage(r) \in Int
      BY <1>1, <1>3, <3>1, StageIs
    <3>3. Works(db)
      BY <1>3, <3>1, <3>2 DEF Allowed, Activated
    <3> QED
      BY <1>8, <3>3
  <2>2. CASE ~("status" \in DOMAIN w.set /\ w.set["status"] = "ACTIVE")
    <3>1. row.status = "ACTIVE" => db.subs[i].status = "ACTIVE"
      BY <1>6, <2>2
    <3>2. Active(tables) \subseteq Active(db)
      BY <1>7, <3>1 DEF Active
    <3> QED
      BY <1>8, <3>2 DEF PayInv
  <2> QED
    BY <2>1, <2>2
<1>12. r.op # "subscribe"
  <2>1. r.op = "subscribe" => AtSubscribe(w, Len(r.todo) - 1)
    BY <1>1 DEF At, Upgrading, Applier, Floorer
  <2> QED
    BY <1>1, <2>1 DEF AtSubscribe, Is, Tenant
<1>13. r.op = "extDeleted" => Ended(r.on, tables)
  <2> SUFFICES ASSUME r.op = "extDeleted" PROVE Ended(r.on, tables)
    OBVIOUS
  <2>1. AtExtDeleted(r.on, w, Len(r.todo) - 1)
    BY <1>1 DEF At, Upgrading, Applier, Floorer
  <2>2. i = r.on /\ w.set = [status |-> "CANCELLED"]
    BY <1>1, <2>1 DEF AtExtDeleted, SubOf, Is, Tenant, i
  <2>3. row.status = "CANCELLED"
    BY <1>6, <2>2
  <2> QED
    BY <1>4, <1>7, <2>2, <2>3 DEF Ended
<1>14. ~Is(r.todo[1], "activate")
  BY <1>1 DEF Is
<1>15. Allowed(q, tables) /\ (Boards(q) => Boards(r))
  BY <1>3, <1>8, <1>12, <1>13, <1>14, OntoAllowed
<1> QED
  BY <1>3, <1>7, <1>8, <1>9, <1>10, <1>11, <1>15, PayKept DEF PayInv, r, q

LEMMA ContinueRow ==
  ASSUME TasksFit, NEW t \in Slot, Tail(Todo(t)) # <<>>, NEW n
  PROVE  Onto(task[t], [Continue(t, Tail(Todo(t))) EXCEPT !.row = n])
<1>1. task[t] = [op |-> task[t].op, todo |-> task[t].todo, row |-> task[t].row, ext |-> task[t].ext,
                 on |-> task[t].on, stale |-> task[t].stale]
  BY FitTask DEF IsTask
<1> DEFINE q == [Continue(t, Tail(Todo(t))) EXCEPT !.row = n]
<1>2. q.op = task[t].op /\ q.on = task[t].on /\ q.todo = Tail(task[t].todo) /\ q.stale = task[t].stale
  BY <1>1 DEF Continue, Todo
<1> QED
  BY <1>2 DEF Onto

LEMMA NewSubStatus ==
  ASSUME NEW op, NEW on, NEW w, NEW e \in Nat, NEW z, At(op, on, w, e, z), Is(w, "newSub"), op = "subscribe"
  PROVE  w.row.status # "ACTIVE"
<1>1. \E plan \in Plan : w.row = Subscription("PENDING", plan, None)
  BY DEF At, AtSubscribe, Is, Tenant, Upgrading, Applier, Floorer
<1> QED
  BY <1>1 DEF Subscription

LEMMA InsertRowPays ==
  ASSUME Typed(db, asaas), TasksFit, TasksFit', PayInv, NEW t \in Slot, InsertRow(t)
  PROVE  PayInv'
<1> DEFINE w == Head(Todo(t))
           c == Continue(t, Tail(Todo(t)))
           r == task[t]
           q == task'[t]
<1>1. CASE Has(t, "newSub")
  <2> DEFINE row == [w.row EXCEPT !.ext = task[t].ext]
             tables == [db EXCEPT !.subs = Append(@, row)]
             n == Len(db.subs) + 1
             rest == [c EXCEPT !.row = n]
  <2>1. Save(t, tables, rest)
    <3>1. w.kind = "newSub"
      BY <1>1 DEF Has
    <3> QED
      BY <3>1 DEF InsertRow
  <2>2. /\ w = r.todo[1] /\ Is(w, "newSub") /\ Todo(t) # <<>> /\ Len(r.todo) - 1 \in Nat
        /\ At(r.op, r.on, w, Len(r.todo) - 1, r.todo[Len(r.todo)])
        /\ Len(Tail(Todo(t))) = Len(r.todo) - 1
    BY <1>1, HeadIs DEF Todo
  <2> HIDE DEF w
  <2>3. PICK e \in Nat : e = Len(r.todo) - 1
    BY <2>2
  <2>4. At(r.op, r.on, w, e, r.todo[Len(r.todo)])
    BY <2>2, <2>3
  <2>5. /\ (r.op = "subscribe" /\ e = 1) \/ (r.op \in Upgrading /\ e = 4 /\ Is(r.todo[Len(r.todo)], "limit"))
        /\ \E status \in {"PENDING", "ACTIVE"}, plan \in Plan : w.row = Subscription(status, plan, None)
    BY <2>2, <2>4, AtNewSub
  <2>6. Tail(Todo(t)) # <<>>
    <3>1. e >= 1
      BY <2>5
    <3>2. Len(Tail(Todo(t))) = e
      BY <2>2, <2>3
    <3>3. e # 0
      BY <3>1
    <3>4. Len(Tail(Todo(t))) # 0
      BY <3>2, <3>3, Zenon
    <3> QED
      BY <3>4, EmptySeq
  <2>7. row.status = w.row.status
    <3>1. PICK status \in {"PENDING", "ACTIVE"}, plan \in Plan : w.row = Subscription(status, plan, None)
      BY <2>5
    <3>2. PICK b : b = w.row
      OBVIOUS
    <3>3. b = [status |-> status, plan |-> plan, pending |-> 0, due |-> FALSE, ext |-> 0, overdue |-> "no"]
      BY <3>1, <3>2 DEF Subscription, None
    <3>4. PICK x : x = task[t].ext
      OBVIOUS
    <3>5. row = [b EXCEPT !.ext = x]
      BY <3>2, <3>4
    <3> HIDE DEF row
    <3> QED
      BY <3>2, <3>3, <3>5
  <2> HIDE DEF row
  <2>8. /\ db' = tables /\ q = rest /\ \A u \in Slot \ {t} : Kept(u)
    BY <2>1, SaveTasks
  <2>9. Onto(r, rest)
    BY <2>6, ContinueRow
  <2>10. /\ tables.subs = Append(db.subs, row) /\ tables.tenant = db.tenant /\ tables.companies = db.companies
    BY Unwritten
  <2>11. DOMAIN db.subs = 1 .. Len(db.subs) /\ Len(db.subs) \in Nat /\ db.subs \in Seq(SubRow)
    BY TypedLens
  <2>12. /\ DOMAIN tables.subs = DOMAIN db.subs \cup {Len(db.subs) + 1} /\ Len(db.subs) + 1 \notin DOMAIN db.subs
         /\ tables.subs[Len(db.subs) + 1] = row /\ \A j \in DOMAIN db.subs : tables.subs[j] = db.subs[j]
    BY <2>10, <2>11
  <2>13. tables.subs # db.subs
    BY <2>12
  <2>14. \A u \in Slot \ {t} : Busy(u) => task'[u].stale
    BY <2>1, <2>13, SaveStale
  <2>15. IsTask(r) /\ IsTask(q) /\ r # Idle /\ r.op # "idle" /\ Allowed(r, db)
    <3>1. Slot' = Slot
      BY DEF Slot, Cron
    <3> QED
      BY <3>1, <2>2, BusyOp DEF TasksFit, Fits, PayInv
  <2> HIDE DEF tables, rest, n, q
  <2>16. (Works(tables) <=> Works(db)) /\ \A j : Ended(j, db) => Ended(j, tables)
    BY <2>10, <2>12 DEF Works, Ended
  <2>17. r.op = "subscribe" => Active(tables) \subseteq Active(db)
    <3>1. r.op = "subscribe" => row.status # "ACTIVE"
      BY <2>2, <2>4, <2>7, NewSubStatus
    <3> QED
      BY <2>12, <3>1 DEF Active
  <2>18. Active(tables) # {} => Works(tables)
    <3>1. CASE r.op = "subscribe"
      BY <2>16, <2>17, <3>1 DEF PayInv
    <3>2. CASE r.op # "subscribe"
      <4>1. Applies(r) /\ Len(r.todo) >= 5
        <5>1. PICK m \in Nat : m = Len(r.todo)
          BY <2>15, TaskLists
        <5>2. e = 4 /\ e = m - 1
          BY <2>3, <2>5, <3>2, <5>1
        <5>3. m >= 5
          BY <5>2
        <5> QED
          BY <2>5, <3>2, <5>1, <5>3 DEF Applies
      <4>2. Works(db)
        BY <4>1, <2>15 DEF Allowed, Replaces
      <4> QED
        BY <2>16, <4>2
    <3> QED
      BY <3>1, <3>2
  <2>19. ~Is(r.todo[1], "activate") /\ ~Is(r.todo[1], "sub")
    BY <2>2 DEF Is
  <2>20. Allowed(q, tables) /\ (Boards(q) => Boards(r))
    BY <2>8, <2>9, <2>15, <2>16, <2>17, <2>19, OntoAllowed
  <2> QED
    BY <2>8, <2>10, <2>14, <2>16, <2>18, <2>20, PayKept DEF PayInv, q
<1>2. CASE Has(t, "newPurchase")
  <2> DEFINE row == w.row
             tables == [db EXCEPT !.purchases = Append(@, row)]
             n == Len(db.purchases) + 1
             rest == [c EXCEPT !.row = n]
  <2>1. Save(t, tables, rest)
    <3>1. w.kind = "newPurchase"
      BY <1>2 DEF Has
    <3> QED
      BY <3>1 DEF InsertRow
  <2>2. /\ w = Todo(t)[1] /\ Is(w, "newPurchase") /\ Todo(t) # <<>> /\ Len(Todo(t)) - 1 \in Nat
        /\ At(task[t].op, task[t].on, w, Len(Todo(t)) - 1, Todo(t)[Len(Todo(t))])
        /\ Len(Tail(Todo(t))) = Len(Todo(t)) - 1
    BY <1>2, HeadIs
  <2> HIDE DEF w
  <2>3. Len(Todo(t)) - 1 >= 1
    BY <2>2, AtNewPurchase
  <2>4. Tail(Todo(t)) # <<>>
    BY <2>2, <2>3, EmptySeq
  <2>5. tables.subs = db.subs /\ tables.tenant = db.tenant /\ tables.companies = db.companies
    BY Unwritten
  <2>6. db' = tables /\ q = rest /\ \A u \in Slot \ {t} : Kept(u)
    BY <2>1, SaveTasks
  <2>7. Onto(r, rest)
    BY <2>4, ContinueRow
  <2> HIDE DEF tables, rest
  <2>8. Quiet(db, tables)
    BY <2>5 DEF Quiet, Works, Active, Ended
  <2>9. ~Is(r.todo[1], "activate") /\ ~Is(r.todo[1], "sub")
    BY <2>2 DEF Is, Todo
  <2> QED
    BY <2>2, <2>6, <2>7, <2>8, <2>9, QuietStep
<1> QED
  BY <1>1, <1>2 DEF InsertRow

LEMMA StepPays ==
  ASSUME Typed(db, asaas), TasksFit, TasksFit', PayInv, ~Revived, ~LocksOut, NEW t \in Slot, Step(t)
  PROVE  PayInv'
  BY WriteSubPays, WriteTenantPays, WritePurchasePays, InsertRowPays, LinkPays, WriteLimitPays, ReadFloorPays, CheckFloorPays,
     ActivatePays, ReadOnboardPays, InsertCompanyPays, ReadOthersPays, GatewayCallPays DEF Step

----------------------------------------------------------------------------
(* Handlers that start.                                                    *)

Starts(q, op, todo, on) == q.op = op /\ q.todo = todo /\ q.on = on /\ q.stale = FALSE

LEMMA RunningIs ==
  ASSUME NEW op, NEW s, NEW on, NEW r, r = Running(op, s, on)
  PROVE  Starts(r, op, s, on)
<1>0. PICK i : i = Idle
  OBVIOUS
<1>1. PICK p : p = [i EXCEPT !.op = op]
  OBVIOUS
<1>2. PICK q : q = [p EXCEPT !.todo = s]
  OBVIOUS
<1>3. r = [q EXCEPT !.on = on]
  BY <1>0, <1>1, <1>2, Zenon DEF Running
<1>4. i = [op |-> "idle", todo |-> <<>>, row |-> 0, ext |-> 0, on |-> 0, stale |-> FALSE]
  BY <1>0 DEF Idle, None
<1>5. p = [op |-> op, todo |-> <<>>, row |-> 0, ext |-> 0, on |-> 0, stale |-> FALSE]
  BY ONLY <1>4, <1>1
<1>6. q = [op |-> op, todo |-> s, row |-> 0, ext |-> 0, on |-> 0, stale |-> FALSE]
  BY ONLY <1>5, <1>2
<1>7. r = [op |-> op, todo |-> s, row |-> 0, ext |-> 0, on |-> on, stale |-> FALSE]
  BY ONLY <1>6, <1>3
<1>8. r.op = op /\ r.todo = s /\ r.on = on /\ r.stale = FALSE
  BY ONLY <1>7
<1> QED
  BY <1>8 DEF Starts

LEMMA LaunchPays ==
  ASSUME TasksFit, TasksFit', PayInv, NEW t \in Slot, NEW op, NEW todo, NEW on, Launch(t, op, todo, on),
         ASSUME NEW q, q = task'[t], IsTask(q), Starts(q, op, todo, on), todo # <<>>
         PROVE  Allowed(q, db) /\ (Boards(q) => ~Works(db))
  PROVE  PayInv'
<1>1. db' = db /\ task'[t] = (IF todo = <<>> THEN Idle ELSE Running(op, todo, on)) /\ \A u \in Slot \ {t} : Kept(u)
  BY DEF Launch, TasksFit, Kept
<1>2. IsTask(task'[t])
  <2>1. Slot' = Slot
    BY DEF Slot, Cron
  <2> QED
    BY <2>1 DEF TasksFit, Fits
<1>3. CASE todo = <<>>
  <2>1. task'[t] = Idle
    BY <1>1, <1>3
  <2> QED
    BY <1>1, <2>1, IdleAllowed, SelfQuiet, QuietOther
<1>4. CASE todo # <<>>
  <2>1. PICK q : q = task'[t]
    OBVIOUS
  <2>2. q = Running(op, todo, on)
    BY <1>1, <1>4, <2>1
  <2>3. Starts(q, op, todo, on)
    BY <2>2, RunningIs, Zenon
  <2>4. Allowed(q, db) /\ (Boards(q) => ~Works(db))
    BY <1>2, <1>4, <2>1, <2>3
  <2> QED
    BY <1>1, <2>1, <2>4, SelfQuiet, QuietOther
<1> QED
  BY <1>3, <1>4

LEMMA OtherPays ==
  ASSUME TasksFit, TasksFit', PayInv, NEW t \in Slot, NEW op, NEW todo, NEW on, Launch(t, op, todo, on),
         op \notin {"cyclePaid", "subscribe", "extDeleted"} \cup Upgrading
  PROVE  PayInv'
<1>1. ASSUME NEW q, Starts(q, op, todo, on) PROVE Allowed(q, db) /\ ~Boards(q)
  BY <1>1, OtherAllowed DEF Starts
<1> QED
  BY <1>1, LaunchPays

LEMMA SubscribePays ==
  ASSUME TasksFit, TasksFit', PayInv, NEW t \in Slot, Subscribe(t)
  PROVE  PayInv'
<1>1. PICK todo : Launch(t, "subscribe", todo, None)
  BY DEF Subscribe, Ask
<1>2. Active(db) = {}
  BY DEF Subscribe, PayInv, Works, Active, ActiveSubs
<1>3. ASSUME NEW q, Starts(q, "subscribe", todo, None) PROVE Allowed(q, db) /\ ~Boards(q)
  BY <1>2, <1>3 DEF Starts, Allowed, Activated, Founds, Replaces, SignsUp, Ends, Boards, Renewing, Applies, Upgrading
<1> QED
  BY <1>1, <1>3, LaunchPays

(* An upgrade that is applied makes a subscription.                        *)
LEMMA UpgradingPays ==
  ASSUME TasksFit, TasksFit', PayInv, ~UpgradedLocked, NEW t \in Slot, NEW op \in Upgrading, NEW todo, NEW on, Launch(t, op, todo, on)
  PROVE  PayInv'
<1>1. ASSUME NEW q, q = task'[t], IsTask(q), Starts(q, op, todo, on), todo # <<>>
      PROVE  Allowed(q, db) /\ (Boards(q) => ~Works(db))
  <2>1. q.op \in Upgrading /\ ~Renewing(q)
    BY <1>1 DEF Starts, Renewing, Upgrading
  <2>2. ASSUME Applies(q), Len(q.todo) >= 5 PROVE Works(db)
    <3>1. PICK n \in Nat : n = Len(q.todo)
      BY <1>1, TaskLists
    <3>2. n >= 5 /\ DOMAIN q.todo = 1 .. n
      BY <1>1, <2>2, <3>1, TaskLists
    <3>3. n - 4 \in DOMAIN q.todo /\ n - (n - 4) = 4
      BY <3>1, <3>2
    <3>4. PICK k \in DOMAIN q.todo : k = n - 4
      BY <3>3
    <3>5. At(q.op, q.on, q.todo[k], Len(q.todo) - k, q.todo[Len(q.todo)])
      BY <1>1 DEF IsTask
    <3>6. AtUpgrade(q.on, q.todo[k], 4, q.todo[Len(q.todo)])
      <4>1. Len(q.todo) - k = 4
        BY <3>1, <3>3, <3>4
      <4> QED
        BY <3>5, <4>1, <2>1 DEF At, Upgrading, Applier, Floorer
    <3>7. Is(q.todo[k], "newSub")
      BY <3>6, <2>2 DEF AtUpgrade, Applies, Is
    <3>8. Upgrades(t)
      BY <1>1, <2>1, <3>7 DEF Upgrades, Doing, Upgrading, Is, Launch
    <3> QED
      BY <3>8 DEF UpgradedLocked, Works
  <2> QED
    BY <2>1, <2>2 DEF Allowed, Activated, Founds, Replaces, SignsUp, Ends, Boards, Renewing, Upgrading
<1> QED
  BY <1>1, LaunchPays

LEMMA ExtDeletedPays ==
  ASSUME TasksFit, TasksFit', PayInv, NEW t \in Slot, NEW m, ExtDeleted(t, m)
  PROVE  PayInv'
<1>1. PICK todo, on : /\ Launch(t, "extDeleted", todo, on)
                      /\ todo = <<>> \/ \E i : todo = <<SetSub(i, [status |-> "CANCELLED"]), SuspendAlone(i)>>
  BY DEF ExtDeleted, Receive
<1>2. ASSUME NEW q, Starts(q, "extDeleted", todo, on), todo # <<>> PROVE Allowed(q, db) /\ ~Boards(q)
  <2>1. PICK i : todo = <<SetSub(i, [status |-> "CANCELLED"]), SuspendAlone(i)>>
    BY <1>1, <1>2
  <2>2. PICK a : a = SetSub(i, [status |-> "CANCELLED"])
    OBVIOUS
  <2>3. PICK b : b = SuspendAlone(i)
    OBVIOUS
  <2>4. Is(a, "sub") /\ Is(b, "suspendAlone")
    BY <2>2, <2>3 DEF SetSub, SuspendAlone, Is
  <2>5. todo[1] = a /\ todo[2] = b /\ DOMAIN todo = 1 .. 2
    BY <2>1, <2>2, <2>3, Pair
  <2>6. ~Is(todo[1], "suspendAlone") /\ \A k \in DOMAIN todo : ~Is(todo[k], "tenant")
    BY <2>4, <2>5 DEF Is
  <2> QED
    BY <1>2, <2>6 DEF Starts, Allowed, Activated, Founds, Replaces, SignsUp, Ends, Boards, Renewing, Applies, Upgrading
<1> QED
  BY <1>1, <1>2, LaunchPays

(* No write of the list makes a company.                                   *)
Founding(s) == \E k \in DOMAIN s : Is(s[k], "newCompany")
Plain(s) == Listed(s) /\ ~Founding(s)

LEMMA PlainJoined ==
  ASSUME NEW a, NEW b, Plain(a), Plain(b), NEW r, r = a \o b
  PROVE  /\ Plain(r) /\ Opens(a, r)
         /\ a = <<>> => Opens(b, r)
<1> DEFINE s == a \o b
<1>0. Listed(a) /\ Listed(b)
  BY DEF Plain
<1>1. /\ Listed(s) /\ Len(a) \in Nat /\ Len(b) \in Nat
      /\ DOMAIN a = 1 .. Len(a) /\ DOMAIN b = 1 .. Len(b) /\ DOMAIN s = 1 .. Len(a) + Len(b)
      /\ \A k \in 1 .. Len(a) : s[k] = a[k]
      /\ \A k \in 1 .. Len(b) : s[Len(a) + k] = b[k]
  BY <1>0, Joined
<1>2. r = s
  OBVIOUS
<1>3. a = <<>> => s = b
  BY <1>0, EmptyConcat
<1> HIDE DEF s
<1>4. ASSUME NEW k \in DOMAIN s PROVE ~Is(s[k], "newCompany")
  <2>1. CASE k \in 1 .. Len(a)
    BY <2>1, <1>1 DEF Plain, Founding
  <2>2. CASE k \notin 1 .. Len(a)
    <3>1. PICK j \in 1 .. Len(b) : k = Len(a) + j
      <4>1. k - Len(a) \in 1 .. Len(b) /\ k = Len(a) + (k - Len(a))
        BY <2>2, <1>1
      <4> QED
        BY <4>1
    <3> QED
      BY <3>1, <1>1 DEF Plain, Founding
  <2> QED
    BY <2>1, <2>2
<1>5. Opens(a, s)
  <2>1. a # <<>> => Len(a) # 0
    BY <1>0, EmptySeq DEF Listed
  <2>2. a # <<>> => 1 \in 1 .. Len(a)
    BY <2>1, <1>1
  <2> QED
    BY <2>2, <1>1 DEF Opens
<1>6. a = <<>> => Opens(b, s)
  BY <1>3 DEF Opens
<1> QED
  BY <1>1, <1>2, <1>4, <1>5, <1>6 DEF Plain, Founding

(* The writes of a payment of a month make no company, and start with the  *)
(* activation of a tenant that is not active.                              *)
CycleBy(todo) ==
  \E A, B, z :
    /\ A = (IF Works(db) THEN <<>> ELSE <<ActivateFirst, SetTenant([status |-> "ACTIVE"]), Onboard>>)
    /\ B = <<>> \/ \E plan : B = MovePlan(plan)
    /\ Is(z, "sub")
    /\ todo = (A \o B) \o <<z>>

LEMMA CycleTodo ==
  ASSUME NEW t, NEW m, CyclePaid(t, m)
  PROVE  \E todo, on : Launch(t, "cyclePaid", todo, on) /\ (todo = <<>> \/ CycleBy(todo))
<1>1. CASE Receive(t, m, "cyclePaid", <<>>, None)
  BY <1>1 DEF Receive
<1>2. CASE ~Receive(t, m, "cyclePaid", <<>>, None)
  <2>1. PICK i \in Linked(BillOf(m).of) :
          LET s == db.subs[i]
              moves == s.pending # None
              plan == IF moves THEN s.pending ELSE s.plan
          IN Receive(t, m, "cyclePaid",
                  (IF db.tenant.status = "ACTIVE" THEN <<>>
                   ELSE <<ActivateFirst, SetTenant([status |-> "ACTIVE"]), Onboard>>)
               \o (IF moves THEN MovePlan(plan) ELSE <<>>)
               \o <<SetSub(i, IF moves THEN [status |-> "ACTIVE", overdue |-> "no",
                                            plan |-> plan, pending |-> None, due |-> FALSE]
                              ELSE [status |-> "ACTIVE", overdue |-> "no"])>>, i)
    BY <1>2 DEF CyclePaid
  <2>2. PICK moves \in BOOLEAN : moves = (db.subs[i].pending # None)
    OBVIOUS
  <2>3. PICK plan : plan = IF moves THEN db.subs[i].pending ELSE db.subs[i].plan
    OBVIOUS
  <2>4. PICK A : A = (IF db.tenant.status = "ACTIVE" THEN <<>>
                      ELSE <<ActivateFirst, SetTenant([status |-> "ACTIVE"]), Onboard>>)
    OBVIOUS
  <2>5. PICK B : B = (IF moves THEN MovePlan(plan) ELSE <<>>)
    OBVIOUS
  <2>6. PICK set : set = (IF moves THEN [status |-> "ACTIVE", overdue |-> "no", plan |-> plan, pending |-> None, due |-> FALSE]
                          ELSE [status |-> "ACTIVE", overdue |-> "no"])
    OBVIOUS
  <2>7. PICK z : z = SetSub(i, set)
    OBVIOUS
  <2>8. PICK r : r = (A \o B) \o <<z>>
    OBVIOUS
  <2>9. Receive(t, m, "cyclePaid", r, i)
    <3>1. CASE moves
      BY <3>1, <2>1, <2>2, <2>3, <2>4, <2>5, <2>6, <2>7, <2>8, Zenon
    <3>2. CASE ~moves
      BY <3>2, <2>1, <2>2, <2>3, <2>4, <2>5, <2>6, <2>7, <2>8, Zenon
    <3> QED
      BY <3>1, <3>2
  <2>10. Is(z, "sub")
    BY <2>7 DEF SetSub, Is
  <2>11. A = (IF Works(db) THEN <<>> ELSE <<ActivateFirst, SetTenant([status |-> "ACTIVE"]), Onboard>>)
    BY <2>4, Zenon DEF Works
  <2>12. B = <<>> \/ \E p : B = MovePlan(p)
    BY <2>5
  <2>13. CycleBy(r)
    BY <2>8, <2>10, <2>11, <2>12, Zenon DEF CycleBy
  <2>14. Launch(t, "cyclePaid", r, i)
    BY <2>9 DEF Receive
  <2> QED
    BY <2>13, <2>14, Zenon
<1> QED
  BY <1>1, <1>2

LEMMA CycleByIs ==
  ASSUME NEW todo, CycleBy(todo)
  PROVE  /\ Plain(todo) /\ ~Is(todo[1], "limit")
         /\ ~Works(db) => Is(todo[1], "activate")
         /\ Works(db) => /\ ~Is(todo[1], "activate") /\ ~Is(todo[1], "onboard") /\ ~Is(todo[1], "newCompany")
                         /\ ~Tenant(todo[1], [status |-> "ACTIVE"])
<1>1. PICK A, B, z :
        /\ A = (IF Works(db) THEN <<>> ELSE <<ActivateFirst, SetTenant([status |-> "ACTIVE"]), Onboard>>)
        /\ B = <<>> \/ \E plan : B = MovePlan(plan)
        /\ Is(z, "sub")
        /\ todo = (A \o B) \o <<z>>
  BY DEF CycleBy
<1>2. PICK a : a = ActivateFirst
  OBVIOUS
<1>3. PICK b : b = SetTenant([status |-> "ACTIVE"])
  OBVIOUS
<1>4. PICK c : c = Onboard
  OBVIOUS
<1>5. Is(a, "activate") /\ Is(b, "tenant") /\ Is(c, "onboard")
  BY <1>2, <1>3, <1>4 DEF ActivateFirst, SetTenant, Onboard, Is
<1>0. Plain(<<>>)
  <2>1. Listed(<<>>) /\ DOMAIN <<>> = {}
    BY DEF Listed
  <2> QED
    BY <2>1 DEF Plain, Founding
<1>6. Plain(A) /\ (Works(db) => A = <<>>) /\ (~Works(db) => A # <<>> /\ A[1] = a)
  <2>1. CASE Works(db)
    BY <2>1, <1>0, <1>1
  <2>2. CASE ~Works(db)
    <3>1. A = <<a, b, c>>
      BY <2>2, <1>1, <1>2, <1>3, <1>4
    <3>2. Listed(A) /\ A[1] = a /\ A[2] = b /\ A[3] = c /\ DOMAIN A = 1 .. 3 /\ A # <<>>
      BY <3>1, Triple
    <3> QED
      BY <2>2, <3>2, <1>5 DEF Plain, Founding, Is
  <2> QED
    BY <2>1, <2>2
<1>7. Plain(B) /\ (B # <<>> => \E plan : B[1] = SetTenant([plan |-> plan]))
  <2>1. CASE B = <<>>
    BY <2>1, <1>0
  <2>2. CASE \E plan : B = MovePlan(plan)
    <3>1. PICK plan : B = MovePlan(plan)
      BY <2>2
    <3>2. PICK d : d = SetTenant([plan |-> plan])
      OBVIOUS
    <3>3. PICK e : e = SetLimit(plan)
      OBVIOUS
    <3>4. Is(d, "tenant") /\ Is(e, "limit")
      BY <3>2, <3>3 DEF SetTenant, SetLimit, Is
    <3>5. B = <<d, e>>
      BY <3>1, <3>2, <3>3 DEF MovePlan
    <3>6. Listed(B) /\ B[1] = d /\ B[2] = e /\ DOMAIN B = 1 .. 2
      BY <3>5, Pair
    <3>7. Plain(B)
      BY <3>4, <3>6 DEF Plain, Founding, Is
    <3> QED
      BY <3>2, <3>6, <3>7
  <2> QED
    BY <2>1, <2>2, <1>1
<1>8. PICK y : y = <<z>>
  OBVIOUS
<1>9. Plain(y) /\ y # <<>> /\ y[1] = z
  <2>1. y \in Seq({z}) /\ y[1] = z /\ DOMAIN y = {1} /\ y # <<>>
    BY <1>8
  <2>2. Listed(y)
    BY <2>1, ListedIn
  <2> QED
    BY <2>1, <2>2, <1>1 DEF Plain, Founding, Is
<1>10. PICK h : h = A \o B
  OBVIOUS
<1>11. todo = h \o y
  BY <1>1, <1>8, <1>10
<1>12. Plain(h) /\ Opens(A, h) /\ (A = <<>> => Opens(B, h))
  BY <1>6, <1>7, <1>10, PlainJoined, Zenon
<1>13. Plain(todo) /\ Opens(h, todo) /\ (h = <<>> => Opens(y, todo))
  BY <1>9, <1>11, <1>12, PlainJoined, Zenon
<1>14. (h = <<>> => A = <<>> /\ B = <<>>) /\ (A = <<>> => h = B)
  <2>1. Listed(A) /\ Listed(B)
    BY <1>6, <1>7 DEF Plain
  <2>2. A = <<>> => h = B
    BY <2>1, <1>10, EmptyConcat
  <2>3. h = <<>> => A = <<>>
    <3>1. Len(A \o B) = Len(A) + Len(B) /\ Len(A) \in Nat /\ Len(B) \in Nat
      BY <2>1, Joined
    <3>2. A # <<>> => Len(A) # 0
      BY <2>1, EmptySeq DEF Listed
    <3>3. A # <<>> => Len(h) # 0
      BY <3>1, <3>2, <1>10
    <3> QED
      BY <3>3
  <2> QED
    BY <2>2, <2>3
<1>15. ~Works(db) => Is(todo[1], "activate")
  BY <1>5, <1>6, <1>12, <1>13, <1>14 DEF Opens
<1>16. ASSUME Works(db) PROVE todo[1] = z \/ \E plan : todo[1] = SetTenant([plan |-> plan])
  <2>1. A = <<>> /\ h = B
    BY <1>6, <1>14, <1>16
  <2>2. CASE B = <<>>
    BY <2>1, <2>2, <1>9, <1>13 DEF Opens
  <2>3. CASE B # <<>>
    BY <2>1, <2>3, <1>7, <1>13 DEF Opens
  <2> QED
    BY <2>2, <2>3
<1>17. \A plan : SetTenant([plan |-> plan]).kind = "tenant" /\ SetTenant([plan |-> plan]).set # [status |-> "ACTIVE"]
  <2>1. ASSUME NEW plan PROVE SetTenant([plan |-> plan]).kind = "tenant" /\ SetTenant([plan |-> plan]).set # [status |-> "ACTIVE"]
    <3>1. [plan |-> plan] # [status |-> "ACTIVE"]
      <4>1. DOMAIN [plan |-> plan] # DOMAIN [status |-> "ACTIVE"]
        OBVIOUS
      <4> QED
        BY <4>1
    <3>2. SetTenant([plan |-> plan]).kind = "tenant" /\ SetTenant([plan |-> plan]).set = [plan |-> plan]
      BY DEF SetTenant
    <3> QED
      BY <3>1, <3>2
  <2> QED
    BY <2>1
<1> QED
  BY <1>1, <1>13, <1>15, <1>16, <1>17 DEF Is, Tenant

LEMMA CyclePaidPays ==
  ASSUME TasksFit, TasksFit', PayInv, NEW t \in Slot, NEW m, CyclePaid(t, m)
  PROVE  PayInv'
<1>1. PICK todo, on : Launch(t, "cyclePaid", todo, on) /\ (todo = <<>> \/ CycleBy(todo))
  BY CycleTodo
<1>2. ASSUME NEW q, IsTask(q), Starts(q, "cyclePaid", todo, on), todo # <<>>
      PROVE  Allowed(q, db) /\ (Boards(q) => ~Works(db))
  <2>1. /\ Plain(todo)
        /\ ~Works(db) => Is(todo[1], "activate")
        /\ Works(db) => /\ ~Is(todo[1], "activate") /\ ~Is(todo[1], "onboard") /\ ~Is(todo[1], "newCompany")
                        /\ ~Tenant(todo[1], [status |-> "ACTIVE"])
    BY <1>1, <1>2, CycleByIs
  <2>2. Renewing(q) /\ q.todo = todo
    BY <1>2 DEF Starts, Renewing
  <2>3. /\ Stage(q) \in Int
        /\ Is(todo[1], "activate") <=> Stage(q) = 4
        /\ Stage(q) = 3 <=> Tenant(todo[1], [status |-> "ACTIVE"])
        /\ Is(todo[1], "onboard") \/ Is(todo[1], "newCompany") <=> Stage(q) = 2
    BY <1>2, <2>2, StageIs
  <2>4. Activated(q, db)
    <3>1. ~Works(db) => Stage(q) = 4
      BY <2>1, <2>3
    <3> QED
      BY <3>1 DEF Activated
  <2>5. ~Boards(q) \/ ~Works(db)
    BY <2>1, <2>3 DEF Boards
  <2>6. Founds(q, db)
    BY <2>1, <2>2 DEF Founds, Plain, Founding
  <2> QED
    BY <2>2, <2>4, <2>5, <2>6 DEF Allowed, Replaces, SignsUp, Ends, Applies, Renewing, Upgrading
<1> QED
  BY <1>1, <1>2, LaunchPays

LEMMA HandlePays ==
  ASSUME TasksFit, TasksFit', PayInv, ~UpgradedLocked, NEW t \in Slot, Handle(t)
  PROVE  PayInv'
<1>1. CASE Subscribe(t)
  BY <1>1, SubscribePays
<1>2. CASE \E plan \in Plan, covered \in Covered : Upgrade(t, plan, covered)
  <2>1. \E todo, on : Launch(t, "upgrade", todo, on)
    BY <1>2 DEF Upgrade, Ask
  <2> QED
    BY <2>1, UpgradingPays DEF Upgrading
<1>3. CASE \E m \in asaas.post : UpgradePaid(t, m)
  <2>1. \E todo, on : Launch(t, "upgradePaid", todo, on)
    BY <1>3 DEF UpgradePaid, Receive
  <2> QED
    BY <2>1, UpgradingPays DEF Upgrading
<1>4. CASE \E m \in asaas.post : CyclePaid(t, m)
  BY <1>4, CyclePaidPays
<1>5. CASE \E m \in asaas.post : ExtDeleted(t, m)
  BY <1>5, ExtDeletedPays
<1>6. ASSUME NEW todo, NEW on, NEW op \in {"downgrade", "cancelDowngrade", "buyAddOn", "addOnPaid", "cycleOverdue", "extCreated"},
             Launch(t, op, todo, on)
      PROVE  PayInv'
  BY <1>6, OtherPays DEF Upgrading
<1>7. CASE \E plan \in Plan : Downgrade(t, plan)
  BY <1>6, <1>7 DEF Downgrade, Ask
<1>8. CASE \E i \in DOMAIN db.subs : CancelDowngrade(t, i)
  BY <1>6, <1>8 DEF CancelDowngrade, Ask
<1>9. CASE \E i \in DOMAIN db.subs, free \in BOOLEAN : BuyAddOn(t, i, free)
  BY <1>6, <1>9 DEF BuyAddOn, Ask
<1>10. CASE \E m \in asaas.post : AddOnPaid(t, m)
  BY <1>6, <1>10 DEF AddOnPaid, Receive
<1>11. CASE \E m \in asaas.post : CycleOverdue(t, m)
  BY <1>6, <1>11 DEF CycleOverdue, Receive
<1>12. CASE \E m \in asaas.post : ExtCreated(t, m)
  BY <1>6, <1>12 DEF ExtCreated, Receive
<1> QED
  BY <1>1, <1>2, <1>3, <1>4, <1>5, <1>7, <1>8, <1>9, <1>10, <1>11, <1>12 DEF Handle

LEMMA JobPays ==
  ASSUME TasksFit, TasksFit', PayInv, CheckOverdue \/ ApplyPending \/ ExpireAddOns
  PROVE  PayInv'
<1>1. \E op \in Cron : \E todo : Launch(op, op, todo, None)
  BY DEF CheckOverdue, ApplyPending, ExpireAddOns, Job, Cron
<1>2. \A op \in Cron : op \in Slot /\ op \notin {"cyclePaid", "subscribe", "extDeleted"} \cup Upgrading
  BY DEF Slot, Cron, Upgrading
<1> QED
  BY <1>1, <1>2, OtherPays

----------------------------------------------------------------------------
(* The gateway and the days.                                               *)

LEMMA IdlyPays ==
  ASSUME PayInv, Quiet(db, db'), task' = task
  PROVE  PayInv'
<1>1. Slot' = Slot
  BY DEF Slot, Cron
<1>2. ASSUME NEW u \in Slot PROVE Allowed(task'[u], db')
  <2>1. SameTask(task[u], task'[u]) /\ Allowed(task[u], db)
    BY DEF SameTask, PayInv
  <2> QED
    BY <2>1, SameAllowed DEF Quiet
<1>3. \A u, v \in Slot : Boards(task'[u]) /\ Boards(task'[v]) => u = v
  BY DEF PayInv
<1>4. Len(db'.companies) <= 1 /\ (Active(db') # {} => Works(db'))
  BY DEF PayInv, Quiet
<1> QED
  BY <1>1, <1>2, <1>3, <1>4 DEF PayInv

LEMMA SameRowQuiet ==
  ASSUME Typed(db, asaas), NEW i \in DOMAIN db.subs, NEW row, row.status = db.subs[i].status, db' = [db EXCEPT !.subs[i] = row]
  PROVE  Quiet(db, db')
<1>1. db = [subs |-> db.subs, tenant |-> db.tenant, companies |-> db.companies, purchases |-> db.purchases]
  BY TypedLens
<1>2. PICK subs : subs = [db.subs EXCEPT ![i] = row]
  OBVIOUS
<1>3. db'.subs = subs /\ db'.tenant = db.tenant /\ db'.companies = db.companies
  BY <1>1, <1>2
<1>4. DOMAIN subs = DOMAIN db.subs /\ \A j \in DOMAIN db.subs : subs[j].status = db.subs[j].status
  BY <1>2
<1> QED
  BY <1>3, <1>4 DEF Quiet, Works, Active, Ended

LEMMA TimePays ==
  ASSUME Typed(db, asaas), PayInv, Time
  PROVE  PayInv'
<1>1. CASE \E i \in DOMAIN db.subs : GraceEnds(i)
  <2>1. PICK i \in DOMAIN db.subs : db' = [db EXCEPT !.subs[i].overdue = "late"]
    BY <1>1 DEF GraceEnds
  <2>2. db.subs[i] \in SubRow
    BY TypedLens, ElementOfSeq
  <2>3. PICK row : row = [db.subs[i] EXCEPT !.overdue = "late"]
    OBVIOUS
  <2>4. row.status = db.subs[i].status
    BY <2>2, <2>3 DEF SubRow
  <2>5. db' = [db EXCEPT !.subs[i] = row]
    BY ONLY <2>1, <2>3, Zenon
  <2> QED
    BY <2>4, <2>5, SameRowQuiet, IdlyPays DEF Time
<1>2. CASE \E i \in DOMAIN db.subs : db' = [db EXCEPT !.subs[i].due = TRUE]
  <2>1. PICK i \in DOMAIN db.subs : db' = [db EXCEPT !.subs[i].due = TRUE]
    BY <1>2
  <2>2. db.subs[i] \in SubRow
    BY TypedLens, ElementOfSeq
  <2>3. PICK row : row = [db.subs[i] EXCEPT !.due = TRUE]
    OBVIOUS
  <2>4. row.status = db.subs[i].status
    BY <2>2, <2>3 DEF SubRow
  <2>5. db' = [db EXCEPT !.subs[i] = row]
    BY ONLY <2>1, <2>3, Zenon
  <2> QED
    BY <2>4, <2>5, SameRowQuiet, IdlyPays DEF Time
<1>3. CASE \E p \in PaidAddOns : db' = [db EXCEPT !.purchases[p].due = TRUE]
  <2>1. PICK p : db' = [db EXCEPT !.purchases[p].due = TRUE]
    BY <1>3
  <2>2. PICK purchases : purchases = [db.purchases EXCEPT ![p].due = TRUE]
    OBVIOUS
  <2>3. db' = [db EXCEPT !.purchases = purchases]
    BY ONLY <2>1, <2>2, Zenon
  <2>4. db'.subs = db.subs /\ db'.tenant = db.tenant /\ db'.companies = db.companies
    BY <2>3, Unwritten
  <2>5. Quiet(db, db')
    BY <2>4 DEF Quiet, Works, Active, Ended
  <2> QED
    BY <2>5, IdlyPays DEF Time
<1> QED
  BY <1>1, <1>2, <1>3 DEF Time

----------------------------------------------------------------------------
(* The invariant.                                                          *)

LEMMA NoSlip == ASSUME Slip = {} PROVE ~Revived /\ ~LocksOut /\ ~UpgradedLocked
  BY DEF Slip

LEMMA InitPays == Init => PayInv
<1> SUFFICES ASSUME Init PROVE PayInv
  OBVIOUS
<1>1. PICK s \in FirstStates : db = s.db /\ asaas = s.asaas
  BY DEF Init
<1>2. Sound(db, asaas)
  BY <1>1, FirstStatesAssumption
<1>3. Len(db.companies) <= 1 /\ (Active(db) # {} => Works(db))
  BY <1>2 DEF Sound, Active, Works
<1>4. \A t \in Slot : task[t] = Idle
  BY DEF Init
<1>5. \A t \in Slot : Allowed(task[t], db) /\ ~Boards(task[t])
  BY <1>4, IdleAllowed
<1> QED
  BY <1>3, <1>5 DEF PayInv

WorkInv == TypeInv /\ (slips = {} => PayInv)

LEMMA NextPays == WorkInv /\ [Next]_billingVars => WorkInv'
<1> SUFFICES ASSUME WorkInv, [Next]_billingVars PROVE WorkInv'
  OBVIOUS
<1>0. TypeInv /\ TypeInv' /\ Typed(db, asaas) /\ (slips = {} => TasksFit /\ PayInv)
  BY NextTyped DEF WorkInv, TypeInv
<1>1. SUFFICES ASSUME slips' = {} PROVE PayInv'
  BY <1>0 DEF WorkInv
<1>2. TasksFit'
  BY <1>0, <1>1 DEF TypeInv
<1>3. CASE UNCHANGED billingVars
  <2>1. db' = db /\ task' = task /\ slips = {}
    BY <1>1, <1>3 DEF billingVars, vars
  <2> QED
    BY <2>1, <1>0, SelfQuiet, IdlyPays
<1>4. ASSUME NEW t \in Request, Go(Handle(t)) PROVE PayInv'
  <2>1. slips = {} /\ Handle(t) /\ Slip = {} /\ t \in Slot
    BY <1>1, <1>4 DEF Go, Slot
  <2> QED
    BY <2>1, <1>0, <1>2, NoSlip, HandlePays
<1>5. CASE Go(CheckOverdue) \/ Go(ApplyPending) \/ Go(ExpireAddOns)
  BY <1>0, <1>2, <1>5, JobPays DEF Go
<1>6. ASSUME NEW t \in Slot, Go(Step(t)) PROVE PayInv'
  <2>1. slips = {} /\ Step(t) /\ Slip = {}
    BY <1>1, <1>6 DEF Go
  <2> QED
    BY <2>1, <1>0, <1>2, NoSlip, StepPays
<1>7. \A t \in Slot : ~Halt(t)
  BY <1>1 DEF Halt
<1>8. CASE Go(Gateway)
  <2>1. slips = {} /\ db' = db /\ task' = task
    BY <1>8 DEF Go, Gateway
  <2> QED
    BY <2>1, <1>0, SelfQuiet, IdlyPays
<1>9. CASE Go(Time)
  BY <1>0, <1>9, TimePays DEF Go
<1> QED
  BY <1>3, <1>4, <1>5, <1>6, <1>7, <1>8, <1>9 DEF Next

LEMMA InitWorks == Init => WorkInv
  BY InitTyped, InitPays DEF WorkInv

(* The first payment of a tenant is handled once, however many webhooks of *)
(* it run together: activateTenant's updateMany lets one of them through,  *)
(* so that asaas.service.ts makes one company.                             *)
THEOREM OnboardsOnce == Spec => []OnboardedOnce
<1>1. WorkInv => OnboardedOnce
  BY DEF WorkInv, PayInv, OnboardedOnce, Explained
<1> QED
  BY <1>1, InitWorks, NextPays, PTL DEF Spec

(* A tenant with an active subscription is active, unless a step has been  *)
(* taken that explains it (a handler that had read before it paid, or the  *)
(* upgrade of one that was locked out): neither the jobs, nor the webhooks *)
(* of a subscription that ends, nor an upgrade under way lock it out.      *)
THEOREM PayingWorks == Spec => []PaidTenantWorks
<1>1. WorkInv => PaidTenantWorks
  BY DEF WorkInv, PayInv, PaidTenantWorks, Explained, ActiveSubs, Active, Works
<1> QED
  BY <1>1, InitWorks, NextPays, PTL DEF Spec
=============================================================================
