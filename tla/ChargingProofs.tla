---------------------------- MODULE ChargingProofs ----------------------------
(***************************************************************************)
(* A tenant is charged once, for every instance.  ChargedOnce speaks of    *)
(* what is at rest; the invariant follows a subscription of the gateway    *)
(* from the call that opens it, through the handler that holds it and the  *)
(* row that links it, to the webhook of its end.                           *)
(***************************************************************************)
EXTENDS BillingProofs

Live(d) == {i \in DOMAIN d.subs : d.subs[i].status # "CANCELLED"}
Charged(x, g) == x \in DOMAIN g.subs /\ g.subs[x]
Over(x, g) == x \in DOMAIN g.subs /\ ~g.subs[x]

(* An upgrade has its new row to make while five writes are left, opens    *)
(* the gateway's subscription at four, and links the two at three; a       *)
(* signup opens first, at three, and makes the row, linked, at two.        *)
Left(r) == Len(r.todo)
SigningUp(r) == r.op = "subscribe"
Replacing(r) == Applies(r) /\ Left(r) >= 6
Inserting(r) == (Applies(r) /\ Left(r) = 5) \/ (SigningUp(r) /\ Left(r) >= 2)
Makes(r) == Replacing(r) \/ Inserting(r)
Links(r) == Applies(r) /\ Left(r) = 3
Holds(r) == Links(r) \/ (SigningUp(r) /\ Left(r) = 2)
Unopened(r) == (Applies(r) /\ Left(r) >= 4) \/ (SigningUp(r) /\ Left(r) >= 3)
Closes(r, x) == \E k \in DOMAIN r.todo : Is(r.todo[k], "cancelExt") /\ r.todo[k].ext = x

(* What is true of the handler r in flight, of the tables d and of the     *)
(* gateway g.  A row is replaced once its subscription has ended, or will  *)
(* before; a row that is made replaces none that is left; a handler pairs  *)
(* the row with the subscription it has opened; and the end of a           *)
(* subscription cancels the row it was linked to.                          *)
Finished(x, r, g) == x = None \/ Over(x, g) \/ Closes(r, x)
Clears(r, d, g) ==
  Replacing(r) => r.on \in DOMAIN d.subs /\ Live(d) \subseteq {r.on} /\ Finished(d.subs[r.on].ext, r, g)
Vacant(r, d) == Inserting(r) => Live(d) = {}
Opened(r) == (Unopened(r) => r.ext = None) /\ (Holds(r) => r.ext # None)
Pairs(r, d, g) ==
  Applies(r) /\ Left(r) \in {3, 4} =>
    /\ r.row \in DOMAIN d.subs /\ d.subs[r.row].ext \in {None, r.ext}
    /\ r.row \in Live(d) \/ Over(r.ext, g)
Follows(r, d, g) ==
  r.op = "extDeleted" /\ Is(r.todo[1], "sub") => r.on \in DOMAIN d.subs /\ Over(d.subs[r.on].ext, g)
Charges(r, d, g) == Clears(r, d, g) /\ Vacant(r, d) /\ Opened(r) /\ Pairs(r, d, g) /\ Follows(r, d, g)

(* The webhook of a new subscription finds its row linked, or about to be. *)
Linking(q, i, x) == Links(q) /\ q.row = i /\ q.ext = x
Announces(r, d, T) ==
  r.op = "extCreated" =>
    LET w == r.todo[1]
    IN /\ w.i \in DOMAIN d.subs /\ w.set.ext # None
       /\ d.subs[w.i].ext = w.set.ext \/ \E q \in T : Linking(q, w.i, w.set.ext)

InFlight == {task[t] : t \in Slot}
Billed(x, d, T) == (\E i \in Live(d) : d.subs[i].ext = x) \/ \E q \in T : Holds(q) /\ q.ext = x

ChargeInv ==
  /\ \A i, j \in Live(db) : i = j
  /\ \A t \in Slot : Charges(task[t], db, asaas) /\ Announces(task[t], db, InFlight)
  /\ \A t, u \in Slot : Applies(task[t]) /\ Applies(task[u]) => t = u
  /\ \A t, u \in Slot : Makes(task[t]) /\ Makes(task[u]) => t = u
  /\ \A x : Charged(x, asaas) => Billed(x, db, InFlight)
  /\ \A m \in asaas.post : m.event = "SUBSCRIPTION_DELETED" => Over(m.of, asaas)

----------------------------------------------------------------------------
(* A step of slot t keeps the invariant if it keeps what the others rely   *)
(* on.                                                                     *)

(* Two handlers that differ in nothing but what they have not seen.        *)
Alike(r, q) == q.op = r.op /\ q.todo = r.todo /\ q.on = r.on /\ q.row = r.row /\ q.ext = r.ext

LEMMA KeptAlike == ASSUME TasksFit, NEW u \in Slot, Kept(u) PROVE Alike(task[u], task'[u])
<1>1. task[u] = [op |-> task[u].op, todo |-> task[u].todo, row |-> task[u].row, ext |-> task[u].ext,
                 on |-> task[u].on, stale |-> task[u].stale]
  BY FitTask DEF IsTask
<1>2. CASE task'[u] = task[u]
  BY <1>2 DEF Alike
<1>3. CASE task'[u] = [task[u] EXCEPT !.stale = TRUE]
  BY <1>1, <1>3 DEF Alike
<1> QED
  BY <1>2, <1>3 DEF Kept

LEMMA AlikeIs ==
  ASSUME NEW r, NEW q, Alike(r, q)
  PROVE  /\ Applies(q) <=> Applies(r)
         /\ Left(q) = Left(r)
         /\ Replacing(q) <=> Replacing(r)
         /\ Inserting(q) <=> Inserting(r)
         /\ Makes(q) <=> Makes(r)
         /\ Links(q) <=> Links(r)
         /\ Holds(q) <=> Holds(r)
         /\ Unopened(q) <=> Unopened(r)
         /\ \A x : Closes(q, x) <=> Closes(r, x)
         /\ \A i, x : Linking(q, i, x) <=> Linking(r, i, x)
<1>1. Applies(q) <=> Applies(r)
  BY DEF Alike, Applies
<1>2. Left(q) = Left(r)
  BY DEF Alike, Left
<1>3. SigningUp(q) <=> SigningUp(r)
  BY DEF Alike, SigningUp
<1>4. \A x : Closes(q, x) <=> Closes(r, x)
  BY DEF Alike, Closes
<1> QED
  BY <1>1, <1>2, <1>3, <1>4 DEF Replacing, Inserting, Makes, Links, Holds, Unopened, Linking, Alike

(* What a step leaves of the rows: they keep the subscription they are     *)
(* linked to, and those that have none get the one a handler is linking.   *)
Keeps(d, e, i, T) ==
  /\ i \in DOMAIN e.subs
  /\ \/ e.subs[i].ext = d.subs[i].ext
     \/ d.subs[i].ext = None /\ \E q \in T : Linking(q, i, e.subs[i].ext)
(* A row is cancelled when its subscription has ended, or never was.       *)
Drops(d, e, g, i, r) == i \in Live(e) \/ Over(d.subs[i].ext, g) \/ (Applies(r) /\ d.subs[i].ext = None)
Adds(d, e, i, r) == i \in Live(d) \/ (Makes(r) /\ i \notin DOMAIN d.subs)
(* Who held a subscription does, or has given it to its row.               *)
Hands(r, q, e, h) ==
  /\ Holds(r) /\ Charged(r.ext, h) =>
       (Holds(q) /\ q.ext = r.ext) \/ \E i \in Live(e) : e.subs[i].ext = r.ext
  /\ Links(r) => Linking(q, r.row, r.ext) \/ e.subs[r.row].ext = r.ext

Rows == \A i \in DOMAIN db.subs : Keeps(db, db', i, InFlight)
Lives(t) ==
  /\ \A i \in Live(db) : Drops(db, db', asaas, i, task[t])
  /\ \A i \in Live(db') : Adds(db, db', i, task[t])
  /\ \A i, j \in Live(db') : i = j
AtGate(t) ==
  /\ \A x : Over(x, asaas) => Over(x, asaas')
  /\ \A x : Charged(x, asaas') => Charged(x, asaas) \/ (Holds(task'[t]) /\ task'[t].ext = x)
  /\ \A m \in asaas'.post : m.event = "SUBSCRIPTION_DELETED" => Over(m.of, asaas')
Own(t) ==
  /\ Charges(task'[t], db', asaas') /\ Announces(task'[t], db', InFlight')
  /\ Applies(task'[t]) => \A u \in Slot \ {t} : ~Applies(task[u])
  /\ Makes(task'[t]) => \A u \in Slot \ {t} : ~Makes(task[u])
  /\ Hands(task[t], task'[t], db', asaas')

LEMMA NotNone == ASSUME Typed(db, asaas), NEW x, Over(x, asaas) \/ Charged(x, asaas) PROVE x # None
<1>1. DOMAIN asaas.subs = 1 .. Len(asaas.subs) /\ Len(asaas.subs) \in Nat
  BY TypedLens
<1> QED
  BY <1>1 DEF Over, Charged, None

LEMMA AppliesOne ==
  ASSUME ChargeInv, NEW u \in Slot, NEW v \in Slot, Applies(task[u]), Applies(task[v])
  PROVE  u = v
  BY DEF ChargeInv

LEMMA LinkingIn == ASSUME NEW i, NEW x, \E q \in InFlight : Linking(q, i, x)
                   PROVE  \E v \in Slot : Linking(task[v], i, x)
  BY DEF InFlight

LEMMA OthersCharge ==
  ASSUME Typed(db, asaas), TasksFit, ChargeInv, NEW t \in Slot, NEW u \in Slot \ {t}, Kept(u), Rows, Lives(t), AtGate(t)
  PROVE  Charges(task'[u], db', asaas')
<1> DEFINE r == task[u]
           q == task'[u]
<1>1. Alike(r, q) /\ Charges(r, db, asaas)
  BY KeptAlike DEF ChargeInv
<1>2. /\ Applies(q) <=> Applies(r)
      /\ Left(q) = Left(r)
      /\ Replacing(q) <=> Replacing(r)
      /\ Inserting(q) <=> Inserting(r)
      /\ Holds(q) <=> Holds(r)
      /\ Unopened(q) <=> Unopened(r)
      /\ \A x : Closes(q, x) <=> Closes(r, x)
  BY <1>1, AlikeIs
<1>3. q.op = r.op /\ q.todo = r.todo /\ q.on = r.on /\ q.row = r.row /\ q.ext = r.ext
  BY <1>1 DEF Alike
<1> HIDE DEF q
<1>4. Makes(r) => Live(db') \subseteq Live(db)
  <2>1. Makes(r) => ~Makes(task[t])
    BY DEF ChargeInv
  <2> QED
    BY <2>1 DEF Lives, Adds
<1>5. Clears(q, db', asaas')
  <2> SUFFICES ASSUME Replacing(q) PROVE Clears(q, db', asaas')
    BY DEF Clears
  <2>1. Replacing(r) /\ Applies(r) /\ Left(r) >= 6
    BY <1>2 DEF Replacing
  <2>2. r.on \in DOMAIN db.subs /\ Live(db) \subseteq {r.on} /\ Finished(db.subs[r.on].ext, r, asaas)
    BY <1>1, <2>1 DEF Charges, Clears
  <2>3. Live(db') \subseteq {r.on}
    BY <1>4, <2>1, <2>2 DEF Makes
  <2>4. Keeps(db, db', r.on, InFlight)
    BY <2>2 DEF Rows
  <2>5. ~\E v \in Slot : \E x : Linking(task[v], r.on, x)
    <3> SUFFICES ASSUME NEW v \in Slot, NEW x, Linking(task[v], r.on, x) PROVE FALSE
      OBVIOUS
    <3>1. Applies(task[v]) /\ Left(task[v]) = 3
      BY DEF Linking, Links
    <3>2. v = u
      BY <2>1, <3>1, AppliesOne
    <3> QED
      BY <2>1, <3>1, <3>2
  <2>6. r.on \in DOMAIN db'.subs /\ db'.subs[r.on].ext = db.subs[r.on].ext
    BY <2>4, <2>5, LinkingIn DEF Keeps
  <2>7. Finished(db'.subs[r.on].ext, q, asaas')
    BY <1>2, <2>2, <2>6 DEF Finished, AtGate
  <2> QED
    BY <1>3, <2>3, <2>6, <2>7 DEF Clears
<1>6. Vacant(q, db')
  BY <1>1, <1>2, <1>4 DEF Charges, Vacant, Makes
<1>7. Opened(q)
  BY <1>1, <1>2, <1>3 DEF Charges, Opened
<1>8. Pairs(q, db', asaas')
  <2> SUFFICES ASSUME Applies(q), Left(q) \in {3, 4} PROVE Pairs(q, db', asaas')
    BY DEF Pairs
  <2>1. /\ Applies(r) /\ r.row \in DOMAIN db.subs /\ db.subs[r.row].ext \in {None, r.ext}
        /\ r.row \in Live(db) \/ Over(r.ext, asaas)
    BY <1>1, <1>2 DEF Charges, Pairs
  <2>2. Keeps(db, db', r.row, InFlight)
    BY <2>1 DEF Rows
  <2>3. ~Applies(task[t])
    BY <2>1, AppliesOne
  <2>4. r.row \in DOMAIN db'.subs /\ db'.subs[r.row].ext \in {None, r.ext}
    <3>1. ASSUME NEW v \in Slot, Linking(task[v], r.row, db'.subs[r.row].ext) PROVE db'.subs[r.row].ext = r.ext
      <4>1. Applies(task[v]) /\ db'.subs[r.row].ext = task[v].ext
        BY <3>1 DEF Linking, Links
      <4> QED
        BY <2>1, <4>1, AppliesOne
    <3> QED
      BY <2>1, <2>2, <3>1, LinkingIn DEF Keeps
  <2>5. r.row \in Live(db') \/ Over(r.ext, asaas)
    <3>1. CASE r.row \in Live(db)
      <4>1. r.row \in Live(db') \/ Over(db.subs[r.row].ext, asaas)
        BY <2>3, <3>1 DEF Lives, Drops
      <4> QED
        BY <2>1, <4>1, NotNone
    <3> QED
      BY <2>1, <3>1
  <2>6. r.row \in Live(db') \/ Over(r.ext, asaas')
    BY <2>5 DEF AtGate
  <2> QED
    BY <1>3, <2>4, <2>6 DEF Pairs
<1>9. Follows(q, db', asaas')
  <2> SUFFICES ASSUME q.op = "extDeleted", Is(q.todo[1], "sub") PROVE Follows(q, db', asaas')
    BY DEF Follows
  <2>1. r.on \in DOMAIN db.subs /\ Over(db.subs[r.on].ext, asaas)
    BY <1>1, <1>3 DEF Charges, Follows
  <2>2. db.subs[r.on].ext # None
    BY <2>1, NotNone
  <2>3. r.on \in DOMAIN db'.subs /\ db'.subs[r.on].ext = db.subs[r.on].ext
    BY <2>1, <2>2 DEF Rows, Keeps
  <2> QED
    BY <1>3, <2>1, <2>3 DEF Follows, AtGate
<1> QED
  BY <1>5, <1>6, <1>7, <1>8, <1>9 DEF Charges, q

LEMMA LinkingKept ==
  ASSUME TasksFit, NEW t \in Slot, \A u \in Slot \ {t} : Kept(u), Hands(task[t], task'[t], db', asaas'),
         NEW i, NEW x, \E q \in InFlight : Linking(q, i, x)
  PROVE  (\E q \in InFlight' : Linking(q, i, x)) \/ db'.subs[i].ext = x
<1>1. PICK v \in Slot : Linking(task[v], i, x)
  BY LinkingIn
<1>2. Slot' = Slot
  BY DEF Slot, Cron
<1>3. CASE v = t
  <2>1. Links(task[t]) /\ task[t].row = i /\ task[t].ext = x
    BY <1>1, <1>3 DEF Linking
  <2>2. Linking(task'[t], i, x) \/ db'.subs[i].ext = x
    BY <2>1 DEF Hands
  <2> QED
    BY <1>2, <2>2 DEF InFlight
<1>4. CASE v # t
  <2>1. Alike(task[v], task'[v])
    BY <1>4, KeptAlike
  <2>2. Linking(task'[v], i, x)
    BY <1>1, <2>1, AlikeIs
  <2> QED
    BY <1>2, <2>2 DEF InFlight
<1> QED
  BY <1>3, <1>4

LEMMA OthersAnnounce ==
  ASSUME TasksFit, ChargeInv, NEW t \in Slot, \A u \in Slot \ {t} : Kept(u), Rows,
         Hands(task[t], task'[t], db', asaas'), NEW v \in Slot \ {t}
  PROVE  Announces(task'[v], db', InFlight')
<1> DEFINE q == task'[v]
           w == q.todo[1]
<1> SUFFICES ASSUME q.op = "extCreated" PROVE Announces(q, db', InFlight')
  BY DEF Announces
<1>1. task[v].op = "extCreated" /\ w = task[v].todo[1] /\ Announces(task[v], db, InFlight)
  BY KeptAlike DEF Alike, ChargeInv
<1> HIDE DEF q, w
<1>2. /\ w.i \in DOMAIN db.subs /\ w.set.ext # None
      /\ db.subs[w.i].ext = w.set.ext \/ \E p \in InFlight : Linking(p, w.i, w.set.ext)
  BY <1>1 DEF Announces
<1>3. w.i \in DOMAIN db'.subs /\ (db.subs[w.i].ext # None => db'.subs[w.i].ext = db.subs[w.i].ext)
  BY <1>2 DEF Rows, Keeps
<1>4. db'.subs[w.i].ext = w.set.ext \/ \E p \in InFlight' : Linking(p, w.i, w.set.ext)
  <2>1. CASE db.subs[w.i].ext = w.set.ext
    BY <1>2, <1>3, <2>1
  <2>2. CASE \E p \in InFlight : Linking(p, w.i, w.set.ext)
    BY <2>2, LinkingKept
  <2> QED
    BY <1>2, <2>1, <2>2
<1>5. w = q.todo[1]
  BY DEF w
<1> QED
  BY <1>2, <1>3, <1>4, <1>5 DEF Announces

LEMMA StillBilled ==
  ASSUME Typed(db, asaas), TasksFit, ChargeInv, NEW t \in Slot, \A u \in Slot \ {t} : Kept(u),
         Rows, Lives(t), AtGate(t), Hands(task[t], task'[t], db', asaas'), NEW x, Charged(x, asaas')
  PROVE  Billed(x, db', InFlight')
<1>0. Slot' = Slot
  BY DEF Slot, Cron
<1>1. CASE Holds(task'[t]) /\ task'[t].ext = x
  BY <1>0, <1>1 DEF Billed, InFlight
<1>2. CASE Charged(x, asaas)
  <2>1. Billed(x, db, InFlight) /\ x # None /\ ~Over(x, asaas)
    BY <1>2, NotNone DEF ChargeInv, Charged, Over
  <2>2. ASSUME NEW i \in Live(db), db.subs[i].ext = x PROVE Billed(x, db', InFlight')
    <3>1. i \in DOMAIN db.subs /\ db'.subs[i].ext = x
      BY <2>1, <2>2 DEF Live, Rows, Keeps
    <3>2. i \in Live(db')
      BY <2>1, <2>2 DEF Lives, Drops
    <3> QED
      BY <3>1, <3>2 DEF Billed
  <2>3. ASSUME NEW v \in Slot, Holds(task[v]), task[v].ext = x PROVE Billed(x, db', InFlight')
    <3>1. CASE v = t
      BY <1>0, <2>3, <3>1 DEF Hands, Billed, InFlight
    <3>2. CASE v # t
      <4>1. Alike(task[v], task'[v])
        BY <3>2, KeptAlike
      <4>2. Holds(task'[v]) /\ task'[v].ext = x
        BY <2>3, <4>1, AlikeIs DEF Alike
      <4> QED
        BY <1>0, <4>2 DEF Billed, InFlight
    <3> QED
      BY <3>1, <3>2
  <2> QED
    BY <2>1, <2>2, <2>3 DEF Billed, InFlight
<1> QED
  BY <1>1, <1>2 DEF AtGate

LEMMA ChargeKept ==
  ASSUME Typed(db, asaas), TasksFit, ChargeInv, NEW t \in Slot, \A u \in Slot \ {t} : Kept(u),
         Rows, Lives(t), AtGate(t), Own(t)
  PROVE  ChargeInv'
<1>0. Slot' = Slot
  BY DEF Slot, Cron
<1>1. Hands(task[t], task'[t], db', asaas')
  BY DEF Own
<1>2. \A i, j \in Live(db') : i = j
  BY DEF Lives
<1>3. \A u \in Slot : Charges(task'[u], db', asaas')
  BY OthersCharge DEF Own
<1>4. \A u \in Slot : Announces(task'[u], db', InFlight')
  BY <1>1, OthersAnnounce DEF Own
<1>5. \A u \in Slot \ {t} : (Applies(task'[u]) <=> Applies(task[u])) /\ (Makes(task'[u]) <=> Makes(task[u]))
  BY KeptAlike, AlikeIs
<1>6. \A u, v \in Slot : Applies(task'[u]) /\ Applies(task'[v]) => u = v
  BY <1>5 DEF Own, ChargeInv
<1>7. \A u, v \in Slot : Makes(task'[u]) /\ Makes(task'[v]) => u = v
  BY <1>5 DEF Own, ChargeInv
<1>8. \A x : Charged(x, asaas') => Billed(x, db', InFlight')
  BY <1>1, StillBilled
<1>9. \A m \in asaas'.post : m.event = "SUBSCRIPTION_DELETED" => Over(m.of, asaas')
  BY DEF AtGate
<1> QED
  BY <1>0, <1>2, <1>3, <1>4, <1>6, <1>7, <1>8, <1>9 DEF ChargeInv

----------------------------------------------------------------------------
(* Steps that change nothing the others rely on.                           *)

Untouched(d, e) ==
  /\ DOMAIN e.subs = DOMAIN d.subs
  /\ \A i \in DOMAIN d.subs : e.subs[i].ext = d.subs[i].ext /\ (i \in Live(e) <=> i \in Live(d))
Unmoved(g, h) ==
  /\ h.subs = g.subs
  /\ \A m \in h.post : m.event = "SUBSCRIPTION_DELETED" => m \in g.post

LEMMA SelfUntouched == ASSUME NEW d, NEW e, e.subs = d.subs PROVE Untouched(d, e)
  BY DEF Untouched, Live

LEMMA UntouchedRows == ASSUME ChargeInv, NEW t \in Slot, Untouched(db, db') PROVE Rows /\ Lives(t)
<1>1. Live(db') = Live(db)
  BY DEF Untouched, Live
<1> QED
  BY <1>1 DEF Untouched, Rows, Keeps, Lives, Drops, Adds, ChargeInv

LEMMA UnmovedGate == ASSUME ChargeInv, NEW t \in Slot, Unmoved(asaas, asaas') PROVE AtGate(t)
<1>1. \A x : (Over(x, asaas') <=> Over(x, asaas)) /\ (Charged(x, asaas') <=> Charged(x, asaas))
  BY DEF Unmoved, Over, Charged
<1> QED
  BY <1>1 DEF Unmoved, AtGate, ChargeInv

(* A handler whose next write is of no concern here, nor a later one.      *)
Spent(q) ==
  /\ q.op \notin {"subscribe", "extCreated"}
  /\ ~(Applies(q) /\ Left(q) >= 3)
  /\ ~(q.op = "extDeleted" /\ Is(q.todo[1], "sub"))

LEMMA SpentIs ==
  ASSUME NEW q, Spent(q), Left(q) \in Nat
  PROVE  /\ ~Replacing(q) /\ ~Inserting(q) /\ ~Makes(q) /\ ~Links(q) /\ ~Holds(q)
         /\ \A d, g, T : Charges(q, d, g) /\ Announces(q, d, T)
<1>1. ~SigningUp(q) /\ ~Replacing(q) /\ ~Inserting(q) /\ ~Makes(q) /\ ~Links(q) /\ ~Holds(q) /\ ~Unopened(q)
  BY DEF Spent, SigningUp, Replacing, Inserting, Makes, Links, Holds, Unopened
<1>2. ~(Applies(q) /\ Left(q) \in {3, 4})
  BY DEF Spent
<1> QED
  BY <1>1, <1>2 DEF Spent, Charges, Clears, Vacant, Opened, Pairs, Follows, Announces

LEMMA SpentOwn ==
  ASSUME ChargeInv, NEW t \in Slot, Spent(task'[t]), Left(task'[t]) \in Nat, ~Holds(task[t]),
         Applies(task'[t]) => Applies(task[t]) \/ \A u \in Slot \ {t} : ~Applies(task[u])
  PROVE  Own(t)
<1> DEFINE q == task'[t]
<1>1. /\ ~Replacing(q) /\ ~Inserting(q) /\ ~Makes(q) /\ ~Links(q) /\ ~Holds(q)
      /\ \A d, g, T : Charges(q, d, g) /\ Announces(q, d, T)
  BY SpentIs
<1>2. ~Links(task[t])
  BY DEF Holds
<1>3. Hands(task[t], q, db', asaas')
  BY <1>2 DEF Hands
<1> HIDE DEF q
<1>4. Applies(q) => \A u \in Slot \ {t} : ~Applies(task[u])
  BY DEF ChargeInv, q
<1> QED
  BY <1>1, <1>3, <1>4 DEF Own, q

(* The writes that are not about a subscription.                           *)
OfSubs == {"sub", "newSub", "createExt", "link", "cancelExt"}

LEMMA IdleSpent == Spent(Idle) /\ Left(Idle) \in Nat /\ ~Applies(Idle)
<1>1. Idle.op = "idle" /\ Idle.todo = <<>>
  BY IdleTask
<1> QED
  BY <1>1 DEF Spent, Applies, Upgrading, Left

LEMMA LeftIs == ASSUME NEW r, IsTask(r) PROVE Left(r) \in Nat /\ Left(r) = Len(r.todo)
  BY TaskLists DEF Left

(* The next write of r, of which Left(r) - 1 follow.                       *)
LEMMA HeadAt ==
  ASSUME NEW r, IsTask(r), r.todo # <<>>
  PROVE  /\ 1 \in DOMAIN r.todo /\ Left(r) - 1 \in Nat
         /\ At(r.op, r.on, r.todo[1], Left(r) - 1, r.todo[Left(r)])
<1>1. Listed(r.todo)
  BY TaskLists
<1>2. 1 \in DOMAIN r.todo /\ Len(r.todo) >= 1 /\ Len(r.todo) \in Nat
  BY <1>1, ListedTail, TaskLists
<1> QED
  BY <1>2 DEF IsTask, Left

LEMMA AtOf ==
  ASSUME NEW op, NEW on, NEW w, NEW e, NEW z, At(op, on, w, e, z)
  PROVE  /\ op = "subscribe" => AtSubscribe(w, e)
         /\ op \in Upgrading => AtUpgrade(on, w, e, z)
         /\ op = "extCreated" => AtExtCreated(w, e)
         /\ op = "extDeleted" => AtExtDeleted(on, w, e)
  BY DEF At, Upgrading, Applier, Floorer

LEMMA HeadSpent ==
  ASSUME NEW r, NEW q, IsTask(r), IsTask(q), r.todo # <<>>, r.op # "idle", NEW kind, Is(r.todo[1], kind), kind \notin OfSubs,
         q = Idle \/ q.op = r.op,
         r.op \in {"subscribe"} \cup Upgrading => Onto(r, q),
         r.op = "extDeleted" => q = Idle \/ ~Is(q.todo[1], "sub")
  PROVE  Spent(q) /\ Left(q) \in Nat /\ ~Holds(r) /\ (Applies(q) => Applies(r))
<1> DEFINE w == r.todo[1]
           e == Left(r) - 1
           z == r.todo[Left(r)]
<1>0. e \in Nat /\ At(r.op, r.on, w, e, z) /\ Is(w, kind)
  BY HeadAt
<1>1. /\ r.op = "subscribe" => AtSubscribe(w, e)
      /\ r.op \in Upgrading => AtUpgrade(r.on, w, e, z)
      /\ r.op = "extCreated" => AtExtCreated(w, e)
  BY <1>0, AtOf
<1>n. Left(r) \in Nat /\ Left(q) \in Nat /\ Left(r) = Len(r.todo) /\ Left(q) = Len(q.todo)
  BY LeftIs
<1>2. r.op = "subscribe" => e = 0
  BY <1>0, <1>1 DEF AtSubscribe, Is, OfSubs
<1>3. Applies(r) => e \in {0, 1}
  <2>1. Applies(r) => Is(z, "limit") /\ r.op \in Upgrading
    BY <1>n DEF Applies
  <2> QED
    BY <2>1, <1>0, <1>1 DEF AtUpgrade, Is, OfSubs, Tenant, SubOf, Pends
<1>4. r.op # "extCreated"
  BY <1>0, <1>1 DEF AtExtCreated, Is, OfSubs
<1> HIDE DEF w, z
<1>5. ~Holds(r)
  <2>0. PICK n : n = Left(r)
    OBVIOUS
  <2>1. Applies(r) => Left(r) # 3
    <3>1. n \in Nat /\ (Applies(r) => n - 1 \in {0, 1})
      BY <1>3, <1>n, <2>0
    <3> QED
      BY <2>0, <3>1
  <2>2. r.op = "subscribe" => Left(r) # 2
    BY <1>2, <1>n
  <2> QED
    BY <2>1, <2>2 DEF Holds, Links, SigningUp
<1>6. CASE q = Idle
  BY <1>5, <1>6, IdleSpent
<1>7. CASE q # Idle
  <2>1. q.op = r.op
    BY <1>7
  <2>2. r.op \in {"subscribe"} \cup Upgrading => q.todo = Tail(r.todo)
    BY <1>7 DEF Onto
  <2>3. r.op \in {"subscribe"} \cup Upgrading => /\ Left(q) = Left(r) - 1 /\ Left(q) >= 1
                                                 /\ q.todo[Len(q.todo)] = r.todo[Len(r.todo)]
    BY <2>1, <2>2, <1>n, TailedIs DEF Tailed
  <2>4. r.op # "subscribe"
    BY <1>2, <2>3, <1>n
  <2>5. Applies(q) => Applies(r)
    BY <2>1, <2>3 DEF Applies
  <2>6. ~(Applies(q) /\ Left(q) >= 3)
    <3>1. Applies(q) => Left(q) = e
      BY <2>5, <2>3 DEF Applies
    <3> QED
      BY <2>5, <3>1, <1>3
  <2> QED
    BY <1>4, <1>5, <1>7, <1>n, <2>1, <2>4, <2>5, <2>6 DEF Spent
<1> QED
  BY <1>6, <1>7

LEMMA OrdinaryStep ==
  ASSUME Typed(db, asaas), TasksFit, TasksFit', ChargeInv, NEW t \in Slot, \A u \in Slot \ {t} : Kept(u),
         Untouched(db, db'), Unmoved(asaas, asaas'), NEW kind, Has(t, kind), kind \notin OfSubs,
         task'[t] = Idle \/ task'[t].op = task[t].op,
         task[t].op \in {"subscribe"} \cup Upgrading => Onto(task[t], task'[t]),
         task[t].op = "extDeleted" => task'[t] = Idle \/ ~Is(task'[t].todo[1], "sub")
  PROVE  ChargeInv'
<1>1. IsTask(task[t]) /\ task[t].todo # <<>> /\ task[t].op # "idle" /\ Is(task[t].todo[1], kind)
  BY Steps, BusyOp DEF Todo
<1>2. IsTask(task'[t])
  <2>1. Slot' = Slot
    BY DEF Slot, Cron
  <2> QED
    BY <2>1 DEF TasksFit, Fits
<1>3. Spent(task'[t]) /\ Left(task'[t]) \in Nat /\ ~Holds(task[t]) /\ (Applies(task'[t]) => Applies(task[t]))
  BY <1>1, <1>2, HeadSpent
<1>4. Own(t)
  BY <1>3, SpentOwn
<1> QED
  BY <1>4, UntouchedRows, UnmovedGate, ChargeKept

LEMMA SuspendsNext ==
  ASSUME TasksFit, TasksFit', NEW t \in Slot, task'[t] # Idle, task'[t].op = "extDeleted", Onto(task[t], task'[t]), task[t].op # "idle"
  PROVE  ~Is(task'[t].todo[1], "sub")
<1> DEFINE r == task[t]
           q == task'[t]
<1>1. IsTask(r) /\ IsTask(q)
  <2>1. Slot' = Slot
    BY DEF Slot, Cron
  <2> QED
    BY <2>1 DEF TasksFit, Fits
<1>2. q.op = r.op /\ q.todo = Tail(r.todo)
  BY DEF Onto
<1>3. Left(q) = Left(r) - 1 /\ Left(q) >= 1 /\ Left(r) \in Nat /\ Left(q) \in Nat /\ q.todo # <<>> /\ r.todo # <<>>
  <2>1. r.todo # <<>>
    BY <1>1, IdleTask DEF IsTask
  <2>2. Tailed(r, q) /\ q.todo # <<>> /\ Len(q.todo) >= 1
    BY <1>1, <1>2, TailedIs
  <2>3. Left(r) \in Nat /\ Left(q) \in Nat /\ Left(r) = Len(r.todo) /\ Left(q) = Len(q.todo)
    BY <1>1, LeftIs
  <2> QED
    BY <2>1, <2>2, <2>3 DEF Tailed
<1> HIDE DEF r, q
<1>4. AtExtDeleted(r.on, r.todo[1], Left(r) - 1) /\ AtExtDeleted(q.on, q.todo[1], Left(q) - 1)
  <2>1. r.op = "extDeleted" /\ q.op = "extDeleted"
    BY <1>2 DEF q
  <2> QED
    BY <1>1, <1>3, <2>1, HeadAt, AtOf
<1>5. Left(q) - 1 # 1
  BY <1>3, <1>4 DEF AtExtDeleted
<1> QED
  BY <1>4, <1>5 DEF AtExtDeleted, Is, SubOf, Tenant, q

LEMMA OntoStep ==
  ASSUME Typed(db, asaas), TasksFit, TasksFit', ChargeInv, NEW t \in Slot, \A u \in Slot \ {t} : Kept(u),
         Untouched(db, db'), Unmoved(asaas, asaas'), NEW kind, Has(t, kind), kind \notin OfSubs, Onto(task[t], task'[t])
  PROVE  ChargeInv'
<1>1. Todo(t) # <<>> /\ task[t].op # "idle"
  BY Steps, BusyOp
<1>2. task'[t] = Idle \/ task'[t].op = task[t].op
  BY DEF Onto
<1>3. task[t].op = "extDeleted" => task'[t] = Idle \/ ~Is(task'[t].todo[1], "sub")
  BY <1>1, <1>2, SuspendsNext
<1> QED
  BY <1>2, <1>3, OrdinaryStep

LEMMA SelfUnmoved == ASSUME NEW g PROVE Unmoved(g, g)
  BY DEF Unmoved

LEMMA OrdinaryWrite ==
  ASSUME Typed(db, asaas), TasksFit, TasksFit', ChargeInv, NEW t \in Slot, NEW kind, Has(t, kind), kind \notin OfSubs,
         NEW tables, Write(t, tables, Tail(Todo(t))), tables.subs = db.subs
  PROVE  ChargeInv'
<1>1. db' = tables /\ asaas' = asaas /\ task'[t] = Continue(t, Tail(Todo(t))) /\ \A u \in Slot \ {t} : Kept(u)
  BY SaveTasks DEF Write
<1>2. Onto(task[t], task'[t])
  BY <1>1, ContinueOnto
<1>3. Untouched(db, db')
  BY <1>1, SelfUntouched
<1>4. Unmoved(asaas, asaas')
  BY <1>1, SelfUnmoved
<1> QED
  BY <1>1, <1>2, <1>3, <1>4, OntoStep

LEMMA WriteTenantCharges ==
  ASSUME Typed(db, asaas), TasksFit, TasksFit', ChargeInv, NEW t \in Slot, WriteTenant(t)
  PROVE  ChargeInv'
<1>1. PICK tenant : tenant = Put(db.tenant, Head(Todo(t)).set)
  OBVIOUS
<1>2. PICK tables : tables = [db EXCEPT !.tenant = tenant]
  OBVIOUS
<1>3. Has(t, "tenant") /\ Write(t, tables, Tail(Todo(t)))
  BY <1>1, <1>2 DEF WriteTenant
<1>4. tables.subs = db.subs
  BY <1>2, Unwritten
<1> QED
  BY <1>3, <1>4, OrdinaryWrite DEF OfSubs

LEMMA WritePurchaseCharges ==
  ASSUME Typed(db, asaas), TasksFit, TasksFit', ChargeInv, NEW t \in Slot, WritePurchase(t)
  PROVE  ChargeInv'
<1> DEFINE p == IF Head(Todo(t)).i = None THEN task[t].row ELSE Head(Todo(t)).i
<1>1. PICK purchases : purchases = [db.purchases EXCEPT ![p] = Put(@, Head(Todo(t)).set)]
  OBVIOUS
<1>2. PICK tables : tables = [db EXCEPT !.purchases = purchases]
  OBVIOUS
<1>3. Has(t, "purchase") /\ Write(t, tables, Tail(Todo(t)))
  BY <1>1, <1>2 DEF WritePurchase
<1>4. tables.subs = db.subs
  BY <1>2, Unwritten
<1> QED
  BY <1>3, <1>4, OrdinaryWrite DEF OfSubs

LEMMA WithLimitSubs == ASSUME Typed(db, asaas), NEW n PROVE WithLimit(n).subs = db.subs
<1>1. PICK companies : companies = IF db.companies = <<>> THEN db.companies ELSE [db.companies EXCEPT ![1] = n]
  OBVIOUS
<1>2. WithLimit(n) = [db EXCEPT !.companies = companies]
  BY <1>1 DEF WithLimit
<1> QED
  BY <1>2, Unwritten

LEMMA WriteLimitCharges ==
  ASSUME Typed(db, asaas), TasksFit, TasksFit', ChargeInv, NEW t \in Slot, WriteLimit(t)
  PROVE  ChargeInv'
<1>1. CASE Has(t, "limit") /\ Write(t, WithLimit(Head(Todo(t)).to), Tail(Todo(t)))
  BY <1>1, WithLimitSubs, OrdinaryWrite DEF OfSubs
<1>2. CASE Has(t, "credit") /\ Write(t, WithLimit(db.companies[1] + Head(Todo(t)).by), Tail(Todo(t)))
  BY <1>2, WithLimitSubs, OrdinaryWrite DEF OfSubs
<1> QED
  BY <1>1, <1>2 DEF WriteLimit

LEMMA InsertCompanyCharges ==
  ASSUME Typed(db, asaas), TasksFit, TasksFit', ChargeInv, NEW t \in Slot, InsertCompany(t)
  PROVE  ChargeInv'
<1>1. PICK companies : companies = Append(db.companies, Head(Todo(t)).limit)
  OBVIOUS
<1>2. PICK tables : tables = [db EXCEPT !.companies = companies]
  OBVIOUS
<1>3. Has(t, "newCompany") /\ Write(t, tables, Tail(Todo(t)))
  BY <1>1, <1>2 DEF InsertCompany
<1>4. tables.subs = db.subs
  BY <1>2, Unwritten
<1> QED
  BY <1>3, <1>4, OrdinaryWrite DEF OfSubs

(* What a handler goes on with when it has read, or has been overtaken.    *)
LEMMA SaveOnly ==
  ASSUME Typed(db, asaas), TasksFit, TasksFit', ChargeInv, NEW t \in Slot, NEW kind, Has(t, kind), kind \notin OfSubs,
         NEW tables, NEW rest, Save(t, tables, rest), tables.subs = db.subs, rest = Idle \/ rest.op = task[t].op,
         task[t].op \notin {"subscribe", "extDeleted"} \cup Upgrading
  PROVE  ChargeInv'
<1>1. db' = tables /\ asaas' = asaas /\ task'[t] = rest /\ \A u \in Slot \ {t} : Kept(u)
  BY SaveTasks
<1>2. Untouched(db, db') /\ Unmoved(asaas, asaas')
  BY <1>1, SelfUntouched, SelfUnmoved
<1>3. task'[t] = Idle \/ task'[t].op = task[t].op
  BY <1>1
<1> QED
  BY <1>1, <1>2, <1>3, OrdinaryStep

LEMMA LookSave ==
  ASSUME TasksFit, NEW t \in Slot, NEW k, Look(t, k)
  PROVE  \E rest : Save(t, db, rest) /\ (rest = Idle \/ rest.op = task[t].op)
<1> DEFINE c == [task[t] EXCEPT !.todo = k]
           rest == IF k = <<>> THEN Idle ELSE [c EXCEPT !.stale = FALSE]
<1>1. task[t] = [op |-> task[t].op, todo |-> task[t].todo, row |-> task[t].row, ext |-> task[t].ext,
                 on |-> task[t].on, stale |-> task[t].stale]
  BY FitTask DEF IsTask
<1>2. Save(t, db, rest)
  BY LookTasks
<1>3. rest = Idle \/ rest.op = task[t].op
  BY <1>1
<1> QED
  BY <1>2, <1>3

LEMMA LookCharges ==
  ASSUME Typed(db, asaas), TasksFit, TasksFit', ChargeInv, NEW t \in Slot, NEW kind, Has(t, kind), kind \notin OfSubs,
         task[t].op \notin {"subscribe", "extDeleted"} \cup Upgrading, NEW k, Look(t, k)
  PROVE  ChargeInv'
<1>1. PICK rest : Save(t, db, rest) /\ (rest = Idle \/ rest.op = task[t].op)
  BY LookSave
<1> QED
  BY <1>1, SaveOnly

LEMMA ReadFloorCharges ==
  ASSUME Typed(db, asaas), TasksFit, TasksFit', ChargeInv, NEW t \in Slot, ReadFloor(t)
  PROVE  ChargeInv'
<1>1. PICK k : Has(t, "floor") /\ Look(t, k)
  BY DEF ReadFloor
<1>2. task[t].op = Floorer
  BY <1>1, Steps, AtFloor
<1> QED
  BY <1>1, <1>2, LookCharges DEF OfSubs, Floorer, Upgrading

LEMMA CheckFloorCharges ==
  ASSUME Typed(db, asaas), TasksFit, TasksFit', ChargeInv, NEW t \in Slot, CheckFloor(t)
  PROVE  ChargeInv'
<1>1. PICK k : Has(t, "below") /\ Write(t, db, k)
  BY DEF CheckFloor
<1>2. task[t].op = Floorer
  BY <1>1, Steps, AtBelow
<1>3. PICK rest : Save(t, db, rest) /\ (rest = Idle \/ rest.op = task[t].op)
  BY <1>1, ContinueOp DEF Write
<1> QED
  BY <1>1, <1>2, <1>3, SaveOnly DEF OfSubs, Floorer, Upgrading

LEMMA ReadOnboardCharges ==
  ASSUME Typed(db, asaas), TasksFit, TasksFit', ChargeInv, NEW t \in Slot, ReadOnboard(t)
  PROVE  ChargeInv'
<1>1. PICK k : Has(t, "onboard") /\ Look(t, k)
  BY DEF ReadOnboard
<1>2. task[t].op = "cyclePaid"
  BY <1>1, Steps, AtOnboard
<1> QED
  BY <1>1, <1>2, LookCharges DEF OfSubs, Upgrading

LEMMA ActivateCharges ==
  ASSUME Typed(db, asaas), TasksFit, TasksFit', ChargeInv, NEW t \in Slot, Activate(t)
  PROVE  ChargeInv'
<1>1. Has(t, "activate")
  BY DEF Activate
<1>2. task[t].op = "cyclePaid"
  BY <1>1, Steps, AtActivate
<1>3. CASE Write(t, [db EXCEPT !.tenant.status = "ACTIVE"], Tail(Todo(t)))
  <2>1. PICK tenant : tenant = [db.tenant EXCEPT !.status = "ACTIVE"]
    OBVIOUS
  <2>2. PICK tables : tables = [db EXCEPT !.tenant = tenant]
    OBVIOUS
  <2>3. tables = [db EXCEPT !.tenant.status = "ACTIVE"]
    BY ONLY <2>1, <2>2, Zenon
  <2>4. tables.subs = db.subs
    BY <2>2, Unwritten
  <2> QED
    BY <1>1, <1>3, <2>3, <2>4, OrdinaryWrite DEF OfSubs
<1>4. CASE Write(t, db, SubSeq(Todo(t), 4, Len(Todo(t))))
  <2>1. PICK rest : Save(t, db, rest) /\ (rest = Idle \/ rest.op = task[t].op)
    BY <1>4, ContinueOp DEF Write
  <2> QED
    BY <1>1, <1>2, <2>1, SaveOnly DEF OfSubs, Upgrading
<1> QED
  BY <1>3, <1>4 DEF Activate

LEMMA ReadOthersCharges ==
  ASSUME Typed(db, asaas), TasksFit, TasksFit', ChargeInv, NEW t \in Slot, ReadOthers(t)
  PROVE  ChargeInv'
<1>1. /\ Has(t, "suspendAlone") /\ Todo(t) # <<>> /\ Is(task[t].todo[1], "suspendAlone")
      /\ IsTask(task[t]) /\ task[t].todo # <<>>
  BY Steps, FitTask DEF ReadOthers, Todo
<1>2. task[t].op = "extDeleted" /\ Left(task[t]) - 1 = 0
  <2>1. PICK e \in Nat : e = Left(task[t]) - 1
    BY <1>1, HeadAt
  <2>2. At(task[t].op, task[t].on, task[t].todo[1], e, task[t].todo[Left(task[t])]) /\ Is(task[t].todo[1], "suspendAlone")
    BY <1>1, <2>1, HeadAt
  <2>3. task[t].op = "extDeleted" /\ e = 0
    BY <2>2, AtSuspend
  <2> QED
    BY <2>1, <2>3
<1>3. /\ <<>> \o Tail(Todo(t)) = Tail(Todo(t))
      /\ Len(Tail(Todo(t))) = 0 /\ Listed(Tail(Todo(t)))
  BY <1>1, <1>2, EmptyConcat, HeadIs DEF Todo, Left
<1>4. CASE Look(t, Tail(Todo(t)))
  <2>1. Tail(Todo(t)) = <<>>
    BY <1>3, EmptySeq DEF Listed
  <2>2. Save(t, db, Idle)
    BY <2>1, <1>4, LookTasks
  <2>3. db' = db /\ asaas' = asaas /\ task'[t] = Idle /\ \A u \in Slot \ {t} : Kept(u)
    BY <2>2, SaveTasks
  <2>4. Untouched(db, db') /\ Unmoved(asaas, asaas') /\ Onto(task[t], task'[t])
    BY <2>3, SelfUntouched, SelfUnmoved DEF Onto
  <2> QED
    BY <1>1, <2>3, <2>4, OntoStep DEF OfSubs
<1>5. CASE Look(t, <<SetTenant([status |-> "SUSPENDED"])>> \o Tail(Todo(t)))
  <2>1. /\ db' = db /\ \A u \in Slot \ {t} : Kept(u)
        /\ task'[t].op = task[t].op /\ task'[t].todo[1] = SetTenant([status |-> "SUSPENDED"])
    BY <1>1, <1>5, LookPuts
  <2>2. ~Is(task'[t].todo[1], "sub")
    BY <2>1 DEF SetTenant, Is
  <2>3. asaas' = asaas
    BY <1>5 DEF Look, Save
  <2>4. Untouched(db, db') /\ Unmoved(asaas, asaas')
    BY <2>1, <2>3, SelfUntouched, SelfUnmoved
  <2> QED
    BY <1>1, <1>2, <2>1, <2>2, <2>4, OrdinaryStep DEF OfSubs, Upgrading
<1> QED
  BY <1>3, <1>4, <1>5 DEF ReadOthers

LEMMA OpenBillCharges ==
  ASSUME Typed(db, asaas), TasksFit, TasksFit', ChargeInv, NEW t \in Slot, OpenBill(t)
  PROVE  ChargeInv'
<1>1. PICK bills : asaas' = [asaas EXCEPT !.bills = bills]
  BY DEF OpenBill, CallGateway
<1>2. asaas = [subs |-> asaas.subs, bills |-> asaas.bills, post |-> asaas.post]
  BY TypedLens
<1>3. PICK h : h = asaas'
  OBVIOUS
<1>4. h.subs = asaas.subs /\ h.post = asaas.post
  BY <1>1, <1>2, <1>3
<1>5. Unmoved(asaas, asaas')
  BY <1>3, <1>4 DEF Unmoved
<1>6. Has(t, "charge") /\ db' = db /\ task' = [task EXCEPT ![t] = Continue(t, Tail(Todo(t)))]
  BY DEF OpenBill, CallGateway
<1>7. task'[t] = Continue(t, Tail(Todo(t))) /\ \A u \in Slot \ {t} : Kept(u)
  BY <1>6 DEF TasksFit, Kept
<1>8. Onto(task[t], task'[t])
  BY <1>7, ContinueOnto
<1>9. Untouched(db, db')
  BY <1>6, SelfUntouched
<1> QED
  BY <1>5, <1>6, <1>7, <1>8, <1>9, OntoStep DEF OfSubs

LEMMA InsertPurchaseCharges ==
  ASSUME Typed(db, asaas), TasksFit, TasksFit', ChargeInv, NEW t \in Slot, InsertRow(t), Has(t, "newPurchase")
  PROVE  ChargeInv'
<1> DEFINE c == Continue(t, Tail(Todo(t)))
           n == Len(db.purchases) + 1
           rest == [c EXCEPT !.row = n]
<1>1. PICK purchases : purchases = Append(db.purchases, Head(Todo(t)).row)
  OBVIOUS
<1>2. PICK tables : tables = [db EXCEPT !.purchases = purchases]
  OBVIOUS
<1>3. Save(t, tables, rest)
  <2>1. Head(Todo(t)).kind = "newPurchase"
    BY DEF Has
  <2> QED
    BY <1>1, <1>2, <2>1 DEF InsertRow
<1>4. tables.subs = db.subs
  BY <1>2, Unwritten
<1>5. Tail(Todo(t)) # <<>>
  <2>1. /\ Is(Todo(t)[1], "newPurchase") /\ Len(Todo(t)) - 1 \in Nat
        /\ At(task[t].op, task[t].on, Todo(t)[1], Len(Todo(t)) - 1, Todo(t)[Len(Todo(t))])
        /\ Len(Tail(Todo(t))) = Len(Todo(t)) - 1
    BY HeadIs
  <2>2. Len(Todo(t)) - 1 >= 1
    BY <2>1, AtNewPurchase
  <2>3. PICK k : k = Tail(Todo(t))
    OBVIOUS
  <2>4. Len(k) >= 1
    BY <2>1, <2>2, <2>3
  <2>5. k # <<>>
    BY ONLY <2>4
  <2> QED
    BY <2>3, <2>5
<1>6. Onto(task[t], rest)
  BY <1>5, ContinueRow
<1> HIDE DEF rest
<1>7. db' = tables /\ asaas' = asaas /\ task'[t] = rest /\ \A u \in Slot \ {t} : Kept(u)
  BY <1>3, SaveTasks
<1>8. Untouched(db, db') /\ Unmoved(asaas, asaas') /\ Onto(task[t], task'[t])
  BY <1>4, <1>6, <1>7, SelfUntouched, SelfUnmoved
<1> QED
  BY <1>7, <1>8, OntoStep DEF OfSubs

----------------------------------------------------------------------------
(* The writes of subscriptions.                                            *)

LEMMA NextTask == ASSUME TasksFit', NEW t \in Slot PROVE IsTask(task'[t])
<1>1. Slot' = Slot
  BY DEF Slot, Cron
<1> QED
  BY <1>1 DEF TasksFit, Fits

(* What a write to row i of some columns does.                             *)
Puts(d, e, i, set) ==
  /\ DOMAIN e.subs = DOMAIN d.subs
  /\ \A j \in DOMAIN d.subs : j # i => e.subs[j] = d.subs[j]
  /\ e.subs[i].status = IF "status" \in DOMAIN set THEN set["status"] ELSE d.subs[i].status
  /\ e.subs[i].ext = IF "ext" \in DOMAIN set THEN set["ext"] ELSE d.subs[i].ext

LEMMA SubPut ==
  ASSUME Typed(db, asaas), NEW i \in DOMAIN db.subs, NEW set, NEW row, row = Put(db.subs[i], set),
         NEW subs, subs = [db.subs EXCEPT ![i] = row], NEW e, e = [db EXCEPT !.subs = subs]
  PROVE  Puts(db, e, i, set)
<1>1. db.subs[i] \in SubRow
  BY TypedLens, ElementOfSeq
<1>2. /\ row.status = IF "status" \in DOMAIN set THEN set["status"] ELSE db.subs[i].status
      /\ row.ext = IF "ext" \in DOMAIN set THEN set["ext"] ELSE db.subs[i].ext
  <2>1. "status" \in DOMAIN db.subs[i] /\ "ext" \in DOMAIN db.subs[i]
    BY <1>1 DEF SubRow
  <2> QED
    BY <2>1, PutColumn
<1>3. db = [subs |-> db.subs, tenant |-> db.tenant, companies |-> db.companies, purchases |-> db.purchases]
  BY TypedLens
<1>4. e.subs = subs
  BY ONLY <1>3, e = [db EXCEPT !.subs = subs]
<1>5. DOMAIN subs = DOMAIN db.subs /\ subs[i] = row /\ \A j \in DOMAIN db.subs : j # i => subs[j] = db.subs[j]
  OBVIOUS
<1> QED
  BY <1>2, <1>4, <1>5 DEF Puts

(* The handler r, its first write done, is q.                              *)
Popped(r, q) ==
  /\ Left(r) \in Nat /\ Left(q) \in Nat /\ Left(q) = Left(r) - 1 /\ Left(q) >= 1
  /\ Applies(q) <=> Applies(r)
  /\ q.op = r.op
  /\ \A x : Closes(r, x) => Closes(q, x) \/ (Is(r.todo[1], "cancelExt") /\ r.todo[1].ext = x)

LEMMA PoppedIs ==
  ASSUME NEW r, NEW q, IsTask(r), IsTask(q), r.op # "idle", q.op = r.op, q.todo = Tail(r.todo)
  PROVE  Popped(r, q)
<1>1. /\ Tailed(r, q) /\ Len(q.todo) >= 1 /\ q.todo[Len(q.todo)] = r.todo[Len(r.todo)]
      /\ DOMAIN q.todo = 1 .. Len(q.todo) /\ DOMAIN r.todo = 1 .. Len(r.todo)
      /\ Len(r.todo) \in Nat /\ Len(q.todo) \in Nat
  BY TailedIs
<1>2. Left(r) = Len(r.todo) /\ Left(q) = Len(q.todo)
  BY DEF Left
<1>3. Applies(q) <=> Applies(r)
  BY <1>1 DEF Applies
<1>4. ASSUME NEW x, Closes(r, x), ~(Is(r.todo[1], "cancelExt") /\ r.todo[1].ext = x) PROVE Closes(q, x)
  <2>1. PICK k \in DOMAIN r.todo : Is(r.todo[k], "cancelExt") /\ r.todo[k].ext = x
    BY <1>4 DEF Closes
  <2>2. PICK n \in Nat : n = Len(r.todo)
    BY <1>1
  <2>3. k # 1 /\ k \in 1 .. n /\ Len(q.todo) = n - 1
    BY <1>1, <1>4, <2>1, <2>2 DEF Tailed
  <2>4. k - 1 \in 1 .. n - 1 /\ k - 1 + 1 = k
    BY <2>3
  <2>5. k - 1 \in DOMAIN q.todo
    BY <1>1, <2>3, <2>4
  <2>6. q.todo[k - 1] = r.todo[k - 1 + 1]
    BY <1>1, <2>5 DEF Tailed
  <2>7. q.todo[k - 1] = r.todo[k]
    BY <2>4, <2>6
  <2> QED
    BY <2>1, <2>5, <2>7 DEF Closes
<1> QED
  BY <1>1, <1>2, <1>3, <1>4 DEF Popped, Tailed

(* Which write is next, of those that are left.                            *)
LEMMA LeftAt ==
  ASSUME NEW r, IsTask(r), r.todo # <<>>, NEW kind, Is(r.todo[1], kind)
  PROVE  /\ kind = "createExt" => (SigningUp(r) /\ Left(r) = 3) \/ (Applies(r) /\ Left(r) = 4)
         /\ kind = "newSub" => (SigningUp(r) /\ Left(r) = 2) \/ (Applies(r) /\ Left(r) = 5)
         /\ kind = "link" => Applies(r) /\ Left(r) = 3
         /\ kind = "cancelExt" => Applies(r) /\ Left(r) = 7
<1>1. PICK e \in Nat : e = Left(r) - 1
  BY HeadAt
<1>2. PICK z : z = r.todo[Left(r)]
  OBVIOUS
<1>3. At(r.op, r.on, r.todo[1], e, z)
  BY <1>1, <1>2, HeadAt
<1>4. Left(r) \in Nat /\ Left(r) = Len(r.todo)
  BY LeftIs
<1>5. Applies(r) <=> r.op \in Upgrading /\ Is(z, "limit")
  BY <1>2, <1>4 DEF Applies
<1>6. r.op \in Upgrading => AtUpgrade(r.on, r.todo[1], e, z)
  BY <1>3, AtOf
<1>7. kind \in {"createExt", "newSub", "link", "cancelExt"} /\ r.op \in Upgrading => Is(z, "limit")
  BY <1>6 DEF AtUpgrade, Is, Pends, SubOf
<1>8. kind = "createExt" => (SigningUp(r) /\ e = 2) \/ (Applies(r) /\ e = 3)
  BY <1>3, <1>5, <1>7, AtCreateExt DEF SigningUp
<1>9. kind = "newSub" => (SigningUp(r) /\ e = 1) \/ (Applies(r) /\ e = 4)
  BY <1>3, <1>5, <1>7, AtNewSub DEF SigningUp
<1>10. kind = "link" => Applies(r) /\ e = 2
  BY <1>3, <1>5, <1>7, AtLink
<1>11. kind = "cancelExt" => Applies(r) /\ e = 6
  BY <1>3, <1>5, <1>7, AtCancelExt
<1>12. Left(r) = e + 1
  BY <1>1, <1>4
<1> QED
  BY <1>8, <1>9, <1>10, <1>11, <1>12

LEMMA OneOrOther == ASSUME NEW r PROVE ~(SigningUp(r) /\ Applies(r)) /\ (Applies(r) \/ SigningUp(r) => r.op \notin {"extDeleted", "extCreated"})
  BY DEF SigningUp, Applies, Upgrading

LEMMA OpenedGate ==
  ASSUME Typed(db, asaas), NEW h, NEW n, n = Len(asaas.subs) + 1,
         h = [subs |-> Append(asaas.subs, TRUE), bills |-> asaas.bills, post |-> asaas.post \cup {Message("SUBSCRIPTION_CREATED", n)}]
  PROVE  /\ \A x : Over(x, asaas) => Over(x, h)
         /\ \A x : Charged(x, h) => Charged(x, asaas) \/ x = n
         /\ \A m \in h.post : m.event = "SUBSCRIPTION_DELETED" => m \in asaas.post
         /\ n # None
<1>1. asaas.subs \in Seq(BOOLEAN) /\ DOMAIN asaas.subs = 1 .. Len(asaas.subs) /\ Len(asaas.subs) \in Nat
  BY TypedLens
<1>2. PICK s \in Seq(BOOLEAN) : s = asaas.subs
  BY <1>1
<1>3. h.subs = Append(s, TRUE) /\ DOMAIN h.subs = DOMAIN s \cup {n} /\ \A x \in DOMAIN s : h.subs[x] = s[x]
  <2>1. TRUE \in BOOLEAN
    OBVIOUS
  <2>2. PICK a : a = Append(s, TRUE)
    OBVIOUS
  <2>3. DOMAIN a = DOMAIN s \cup {Len(s) + 1} /\ \A x \in DOMAIN s : a[x] = s[x]
    <3>1. PICK S : S = BOOLEAN
      OBVIOUS
    <3>2. PICK y \in S : y = TRUE
      BY <3>1
    <3>3. s \in Seq(S)
      BY <3>1
    <3>4. DOMAIN Append(s, y) = DOMAIN s \cup {Len(s) + 1} /\ \A x \in DOMAIN s : Append(s, y)[x] = s[x]
      BY ONLY <3>3, y \in S, SeqAdd
    <3> QED
      BY <2>2, <3>2, <3>4
  <2>4. h.subs = a
    BY <1>2, <2>2
  <2>5. n = Len(s) + 1
    BY <1>2
  <2> QED
    BY <2>2, <2>3, <2>4, <2>5
<1>4. h.post = asaas.post \cup {Message("SUBSCRIPTION_CREATED", n)}
  OBVIOUS
<1>5. Message("SUBSCRIPTION_CREATED", n).event # "SUBSCRIPTION_DELETED"
  BY DEF Message
<1>6. n # None
  BY <1>1 DEF None
<1>7. ASSUME NEW x PROVE (Over(x, asaas) => Over(x, h)) /\ (Charged(x, h) => Charged(x, asaas) \/ x = n)
  BY <1>2, <1>3 DEF Over, Charged
<1> QED
  BY <1>4, <1>5, <1>6, <1>7

LEMMA OpenExtCharges ==
  ASSUME Typed(db, asaas), TasksFit, TasksFit', ChargeInv, NEW t \in Slot, OpenExt(t)
  PROVE  ChargeInv'
<1> DEFINE r == task[t]
           n == Len(asaas.subs) + 1
           g == asaas
           h == asaas'
           m == Message("SUBSCRIPTION_CREATED", n)
<1>1. /\ Has(t, "createExt") /\ IsTask(r) /\ r.todo # <<>> /\ r.op # "idle" /\ Is(r.todo[1], "createExt")
  BY Steps, BusyOp DEF OpenExt, Todo
<1>2. /\ db' = db /\ task' = [task EXCEPT ![t].todo = Tail(@), ![t].ext = n]
      /\ h = [asaas EXCEPT !.subs = Append(@, TRUE), !.post = @ \cup {m}]
  BY DEF OpenExt, CallGateway
<1>3. PICK q : q = task'[t]
  OBVIOUS
<1>4. /\ q.op = r.op /\ q.todo = Tail(r.todo) /\ q.on = r.on /\ q.row = r.row /\ q.ext = n
      /\ \A u \in Slot \ {t} : Kept(u)
  <2>1. r = [op |-> r.op, todo |-> r.todo, row |-> r.row, ext |-> r.ext, on |-> r.on, stale |-> r.stale] /\ DOMAIN task = Slot
    BY <1>1 DEF IsTask, TasksFit
  <2>2. PICK p : p = [r EXCEPT !.todo = Tail(r.todo)]
    OBVIOUS
  <2>3. p = [op |-> r.op, todo |-> Tail(r.todo), row |-> r.row, ext |-> r.ext, on |-> r.on, stale |-> r.stale]
    BY ONLY <2>1, <2>2
  <2>4. task' = [task EXCEPT ![t] = [p EXCEPT !.ext = n]]
    BY <1>2, <2>1, <2>2
  <2>5. q = [p EXCEPT !.ext = n]
    BY <1>3, <2>1, <2>4
  <2> QED
    BY <2>1, <2>3, <2>4, <2>5 DEF Kept
<1>5. IsTask(q)
  BY <1>3, NextTask
<1>6. Popped(r, q)
  BY <1>1, <1>4, <1>5, PoppedIs
<1>7. Charges(r, db, asaas)
  BY DEF ChargeInv
<1>8. (SigningUp(r) /\ Left(r) = 3) \/ (Applies(r) /\ Left(r) = 4)
  BY <1>1, LeftAt
<1>g. /\ \A x : Over(x, g) => Over(x, h)
      /\ \A x : Charged(x, h) => Charged(x, g) \/ x = n
      /\ \A l \in h.post : l.event = "SUBSCRIPTION_DELETED" => l \in g.post
      /\ n # None
  <2>1. PICK subs : subs = Append(asaas.subs, TRUE)
    OBVIOUS
  <2>2. h = [asaas EXCEPT !.subs = subs, !.post = @ \cup {m}]
    BY <1>2, <2>1
  <2>3. h = [subs |-> subs, bills |-> asaas.bills, post |-> asaas.post \cup {m}]
    BY <2>2, OpenedFields
  <2>4. h = [subs |-> Append(asaas.subs, TRUE), bills |-> asaas.bills, post |-> asaas.post \cup {m}]
    BY <2>1, <2>3
  <2> HIDE DEF h
  <2> QED
    BY <2>4, OpenedGate
<1>9. Untouched(db, db')
  BY <1>2, SelfUntouched
<1> HIDE DEF r, g, h, n
<1>10. SigningUp(q) <=> SigningUp(r)
  BY <1>4 DEF SigningUp
<1>11. Holds(q)
  BY <1>6, <1>8, <1>10 DEF Popped, Holds, Links
<1>12. ~Holds(r) /\ ~Links(r)
  BY <1>8, OneOrOther DEF Holds, Links
<1>13. AtGate(t)
  <2>1. \A l \in h.post : l.event = "SUBSCRIPTION_DELETED" => Over(l.of, h)
    BY <1>g DEF ChargeInv, g
  <2> QED
    BY <1>3, <1>4, <1>11, <1>g, <2>1 DEF AtGate, g, h
<1>14. CASE SigningUp(r) /\ Left(r) = 3
  <2>1. ~Applies(q) /\ ~Applies(r) /\ Left(q) = 2 /\ q.op \notin {"extDeleted", "extCreated"}
    BY <1>6, <1>10, <1>14, OneOrOther DEF Popped
  <2>2. Makes(r) /\ Inserting(r) /\ Live(db) = {}
    <3>1. Inserting(r)
      BY <1>14 DEF Inserting
    <3> QED
      BY <3>1, <1>7 DEF Makes, Charges, Vacant
  <2>3. Charges(q, db, h)
    BY <1>4, <1>g, <2>1, <2>2 DEF Charges, Clears, Replacing, Vacant, Opened, Unopened, Pairs, Follows
  <2>4. Announces(q, db, InFlight')
    BY <2>1 DEF Announces
  <2>5. \A u \in Slot \ {t} : ~Makes(task[u])
    BY <2>2 DEF ChargeInv, r
  <2>6. Own(t)
    BY <1>2, <1>3, <1>12, <2>1, <2>3, <2>4, <2>5 DEF Own, Hands, r, h
  <2> QED
    BY <1>4, <1>9, <1>13, <2>6, UntouchedRows, ChargeKept
<1>15. CASE Applies(r) /\ Left(r) = 4
  <2>1. Applies(q) /\ ~SigningUp(q) /\ Left(q) = 3 /\ q.op \notin {"extDeleted", "extCreated"}
    BY <1>6, <1>10, <1>15, OneOrOther DEF Popped
  <2>2. r.ext = None
    BY <1>7, <1>15 DEF Charges, Opened, Unopened
  <2>3. ~Over(None, asaas)
    BY NotNone
  <2>4. r.row \in DOMAIN db.subs /\ db.subs[r.row].ext = None /\ r.row \in Live(db)
    BY <1>7, <1>15, <2>2, <2>3 DEF Charges, Pairs
  <2>5. Pairs(q, db, h)
    BY <1>4, <2>4 DEF Pairs
  <2>6. ~Replacing(q) /\ ~Inserting(q) /\ ~Unopened(q) /\ ~Makes(q)
    BY <2>1 DEF Replacing, Inserting, Unopened, Makes
  <2>7. Charges(q, db, h)
    BY <1>4, <1>g, <2>1, <2>5, <2>6 DEF Charges, Clears, Vacant, Opened, Follows
  <2>8. Announces(q, db, InFlight')
    BY <2>1 DEF Announces
  <2>9. \A u \in Slot \ {t} : ~Applies(task[u])
    BY <1>15 DEF ChargeInv, r
  <2>10. Own(t)
    BY <1>2, <1>3, <1>12, <2>6, <2>7, <2>8, <2>9 DEF Own, Hands, r, h
  <2> QED
    BY <1>4, <1>9, <1>13, <2>10, UntouchedRows, ChargeKept
<1> QED
  BY <1>8, <1>14, <1>15

(* A subscription that ends at the gateway.                                *)
LEMMA EndedGate ==
  ASSUME Typed(db, asaas), ChargeInv, NEW x \in DOMAIN asaas.subs,
         NEW h, h = [asaas EXCEPT !.subs[x] = FALSE, !.post = @ \cup {Message("SUBSCRIPTION_DELETED", x)}]
  PROVE  /\ \A y : Over(y, asaas) => Over(y, h)
         /\ \A y : Charged(y, h) => Charged(y, asaas)
         /\ Over(x, h)
         /\ \A m \in h.post : m.event = "SUBSCRIPTION_DELETED" => Over(m.of, h)
<1> DEFINE m == Message("SUBSCRIPTION_DELETED", x)
<1>1. PICK s : s = asaas.subs
  OBVIOUS
<1>2. PICK a : a = [s EXCEPT ![x] = FALSE]
  OBVIOUS
<1>3. h = [subs |-> a, bills |-> asaas.bills, post |-> asaas.post \cup {m}]
  BY <1>1, <1>2, ClosedFields
<1>4. h.subs = a /\ h.post = asaas.post \cup {m}
  BY ONLY <1>3
<1>5. DOMAIN a = DOMAIN s /\ a[x] = FALSE /\ \A y \in DOMAIN s : y # x => a[y] = s[y]
  BY <1>1, <1>2
<1>6. Over(x, h)
  BY <1>1, <1>4, <1>5 DEF Over
<1>7. ASSUME NEW y PROVE (Over(y, asaas) => Over(y, h)) /\ (Charged(y, h) => Charged(y, asaas))
  BY <1>1, <1>4, <1>5 DEF Over, Charged
<1>8. m.of = x
  BY DEF Message
<1>9. \A l \in asaas.post : l.event = "SUBSCRIPTION_DELETED" => Over(l.of, asaas)
  BY DEF ChargeInv
<1>10. \A l \in h.post : l.event = "SUBSCRIPTION_DELETED" => Over(l.of, h)
  BY <1>4, <1>6, <1>7, <1>8, <1>9
<1> QED
  BY <1>6, <1>7, <1>10

LEMMA CloseExtCharges ==
  ASSUME Typed(db, asaas), TasksFit, TasksFit', ChargeInv, NEW t \in Slot, CloseExt(t)
  PROVE  ChargeInv'
<1> DEFINE r == task[t]
<1>1. PICK x : x = Head(Todo(t)).ext
  OBVIOUS
<1>2. /\ Has(t, "cancelExt") /\ IsTask(r) /\ r.todo # <<>> /\ r.op # "idle" /\ Is(r.todo[1], "cancelExt") /\ r.todo[1].ext = x
      /\ x \in DOMAIN asaas.subs
  <2>1. Has(t, "cancelExt")
    BY DEF CloseExt
  <2> QED
    BY <1>1, <2>1, Steps, BusyOp DEF Todo, Named, Is
<1>3. /\ db' = db /\ task' = [task EXCEPT ![t].todo = Tail(@)]
      /\ asaas' = IF asaas.subs[x]
                  THEN [asaas EXCEPT !.subs[x] = FALSE, !.post = @ \cup {Message("SUBSCRIPTION_DELETED", x)}]
                  ELSE asaas
  BY <1>1 DEF CloseExt, CallGateway
<1>4. PICK q : q = task'[t]
  OBVIOUS
<1>5. /\ q.op = r.op /\ q.todo = Tail(r.todo) /\ q.on = r.on /\ q.row = r.row /\ q.ext = r.ext
      /\ \A u \in Slot \ {t} : Kept(u)
  <2>1. r = [op |-> r.op, todo |-> r.todo, row |-> r.row, ext |-> r.ext, on |-> r.on, stale |-> r.stale] /\ DOMAIN task = Slot
    BY <1>2 DEF IsTask, TasksFit
  <2>2. q = [r EXCEPT !.todo = Tail(r.todo)]
    BY <1>3, <1>4, <2>1
  <2>3. q = [op |-> r.op, todo |-> Tail(r.todo), row |-> r.row, ext |-> r.ext, on |-> r.on, stale |-> r.stale]
    BY ONLY <2>1, <2>2
  <2> QED
    BY <1>3, <2>1, <2>3 DEF Kept
<1>6. IsTask(q)
  BY <1>4, NextTask
<1>7. Popped(r, q)
  BY <1>2, <1>5, <1>6, PoppedIs
<1>8. Charges(r, db, asaas) /\ Applies(r) /\ Left(r) = 7
  BY <1>2, LeftAt DEF ChargeInv
<1>9. /\ \A y : Over(y, asaas) => Over(y, asaas')
      /\ \A y : Charged(y, asaas') => Charged(y, asaas)
      /\ Over(x, asaas')
      /\ \A m \in asaas'.post : m.event = "SUBSCRIPTION_DELETED" => Over(m.of, asaas')
  <2>1. CASE asaas.subs[x]
    <3>1. PICK h : h = asaas'
      OBVIOUS
    <3>2. h = [asaas EXCEPT !.subs[x] = FALSE, !.post = @ \cup {Message("SUBSCRIPTION_DELETED", x)}]
      BY <1>3, <2>1, <3>1
    <3> QED
      BY <1>2, <3>1, <3>2, EndedGate
  <2>2. CASE ~asaas.subs[x]
    <3>1. asaas' = asaas /\ Over(x, asaas)
      BY <1>2, <1>3, <2>2 DEF Over
    <3> QED
      BY <3>1 DEF ChargeInv
  <2> QED
    BY <2>1, <2>2
<1>10. Untouched(db, db') /\ AtGate(t)
  BY <1>3, <1>9, SelfUntouched DEF AtGate
<1> HIDE DEF r
<1>11. Applies(q) /\ Left(q) = 6 /\ ~SigningUp(q) /\ ~SigningUp(r) /\ q.op \notin {"extDeleted", "extCreated"}
  BY <1>7, <1>8, OneOrOther DEF Popped
<1>12. Replacing(r) /\ Replacing(q) /\ Makes(r) /\ ~Inserting(q) /\ Unopened(r) /\ ~Holds(r) /\ ~Holds(q) /\ ~Links(r) /\ ~(Left(q) \in {3, 4})
  BY <1>8, <1>11 DEF Replacing, Makes, Inserting, Unopened, Holds, Links
<1>13. Clears(q, db, asaas')
  <2>1. r.on \in DOMAIN db.subs /\ Live(db) \subseteq {r.on} /\ Finished(db.subs[r.on].ext, r, asaas)
    BY <1>8, <1>12 DEF Charges, Clears
  <2>2. Finished(db.subs[r.on].ext, q, asaas')
    BY <1>2, <1>7, <1>9, <2>1 DEF Finished, Popped
  <2> QED
    BY <1>5, <2>1, <2>2 DEF Clears
<1>14. Opened(q)
  BY <1>5, <1>8, <1>12 DEF Charges, Opened
<1>15. Charges(q, db, asaas') /\ Announces(q, db, InFlight')
  BY <1>11, <1>12, <1>13, <1>14 DEF Charges, Vacant, Pairs, Follows, Announces
<1>16. \A u \in Slot \ {t} : ~Applies(task[u]) /\ ~Makes(task[u])
  BY <1>8, <1>12 DEF ChargeInv, r
<1>17. Own(t)
  BY <1>3, <1>4, <1>12, <1>15, <1>16 DEF Own, Hands, r
<1> QED
  BY <1>5, <1>10, <1>17, UntouchedRows, ChargeKept

(* A handler that goes on keeps what it is about and what it has made.     *)
LEMMA GoesOn ==
  ASSUME TasksFit, NEW t \in Slot, NEW kind, Has(t, kind), NEW q, q = Continue(t, Tail(Todo(t))), Left(task[t]) >= 2
  PROVE  /\ q = [op |-> task[t].op, todo |-> Tail(task[t].todo), row |-> task[t].row, ext |-> task[t].ext,
                 on |-> task[t].on, stale |-> task[t].stale]
         /\ q.op = task[t].op /\ q.todo = Tail(task[t].todo) /\ q.row = task[t].row /\ q.ext = task[t].ext /\ q.on = task[t].on
<1>1. task[t] = [op |-> task[t].op, todo |-> task[t].todo, row |-> task[t].row, ext |-> task[t].ext,
                 on |-> task[t].on, stale |-> task[t].stale]
  BY FitTask DEF IsTask
<1>2. PICK k : k = Tail(task[t].todo)
  OBVIOUS
<1>3. PICK n \in Nat : n = Len(task[t].todo)
  BY FitTask DEF Todo
<1>4. n >= 2 /\ Len(k) = n - 1
  BY <1>2, <1>3, HeadIs DEF Todo, Left
<1>5. Len(k) # 0
  BY <1>4
<1>6. k # <<>>
  BY <1>5, EmptySeq
<1>7. q = [task[t] EXCEPT !.todo = k]
  BY <1>2, <1>6 DEF Continue, Todo
<1>8. q = [op |-> task[t].op, todo |-> k, row |-> task[t].row, ext |-> task[t].ext, on |-> task[t].on, stale |-> task[t].stale]
  BY ONLY <1>1, <1>7
<1>9. q.op = task[t].op /\ q.todo = k /\ q.row = task[t].row /\ q.ext = task[t].ext /\ q.on = task[t].on
  BY ONLY <1>8
<1> QED
  BY <1>2, <1>8, <1>9, Zenon

LEMMA LinkPut ==
  ASSUME Typed(db, asaas), NEW i \in DOMAIN db.subs, NEW x, NEW e, e = [db EXCEPT !.subs[i].ext = x]
  PROVE  /\ DOMAIN e.subs = DOMAIN db.subs
         /\ \A j \in DOMAIN db.subs : j # i => e.subs[j] = db.subs[j]
         /\ e.subs[i].status = db.subs[i].status /\ e.subs[i].ext = x
<1>1. db.subs[i] \in SubRow
  BY TypedLens, ElementOfSeq
<1>2. PICK row : row = [db.subs[i] EXCEPT !.ext = x]
  OBVIOUS
<1>3. row.status = db.subs[i].status /\ row.ext = x
  BY <1>1, <1>2 DEF SubRow
<1>4. PICK subs : subs = [db.subs EXCEPT ![i] = row]
  OBVIOUS
<1>5. e = [db EXCEPT !.subs = subs]
  BY ONLY <1>2, <1>4, e = [db EXCEPT !.subs[i].ext = x], Zenon
<1>0. db = [subs |-> db.subs, tenant |-> db.tenant, companies |-> db.companies, purchases |-> db.purchases]
  BY TypedLens
<1>6. e.subs = subs
  BY ONLY <1>0, <1>5
<1>7. DOMAIN subs = DOMAIN db.subs /\ subs[i] = row /\ \A j \in DOMAIN db.subs : j # i => subs[j] = db.subs[j]
  BY <1>4
<1> QED
  BY <1>3, <1>6, <1>7

LEMMA LinkCharges ==
  ASSUME Typed(db, asaas), TasksFit, TasksFit', ChargeInv, NEW t \in Slot, Link(t)
  PROVE  ChargeInv'
<1> DEFINE r == task[t]
<1>1. PICK tables : tables = [db EXCEPT !.subs[r.row].ext = r.ext]
  OBVIOUS
<1>2. Has(t, "link") /\ Write(t, tables, Tail(Todo(t)))
  BY <1>1 DEF Link
<1>3. IsTask(r) /\ r.todo # <<>> /\ r.op # "idle" /\ Is(r.todo[1], "link") /\ Charges(r, db, asaas)
  BY <1>2, Steps, BusyOp DEF Todo, ChargeInv
<1>4. Applies(r) /\ Left(r) = 3
  BY <1>3, LeftAt
<1>5. PICK q : q = task'[t]
  OBVIOUS
<1>6. db' = tables /\ asaas' = asaas /\ q = Continue(t, Tail(Todo(t))) /\ \A u \in Slot \ {t} : Kept(u)
  BY <1>2, <1>5, SaveTasks DEF Write
<1>7. q.op = r.op /\ q.todo = Tail(r.todo) /\ q.row = r.row /\ q.ext = r.ext /\ q.on = r.on
  BY <1>2, <1>4, <1>6, GoesOn
<1>8. IsTask(q)
  BY <1>5, NextTask
<1>9. Popped(r, q)
  BY <1>3, <1>7, <1>8, PoppedIs
<1>10. PICK i \in DOMAIN db.subs : i = r.row
  BY <1>3, <1>4 DEF Charges, Pairs
<1>11. PICK x : x = r.ext
  OBVIOUS
<1>12. /\ DOMAIN db'.subs = DOMAIN db.subs
       /\ \A j \in DOMAIN db.subs : j # i => db'.subs[j] = db.subs[j]
       /\ db'.subs[i].status = db.subs[i].status /\ db'.subs[i].ext = x
  <2>1. tables = [db EXCEPT !.subs[i].ext = x]
    BY ONLY <1>1, <1>10, <1>11, Zenon
  <2>2. db' = [db EXCEPT !.subs[i].ext = x]
    BY ONLY <1>6, <2>1, Zenon
  <2>3. PICK e : e = db'
    OBVIOUS
  <2>4. e = [db EXCEPT !.subs[i].ext = x]
    BY ONLY <2>2, <2>3, Zenon
  <2> HIDE DEF r
  <2> QED
    BY <2>3, <2>4, LinkPut
<1>13. Live(db') = Live(db)
  BY <1>12 DEF Live
<1>14. Links(r) /\ Holds(r)
  BY <1>4 DEF Links, Holds
<1>15. db.subs[i].ext \in {None, x} /\ (i \in Live(db) \/ Over(x, asaas)) /\ x # None
  BY <1>3, <1>4, <1>10, <1>11, <1>14 DEF Charges, Pairs, Opened
<1>16. Rows
  <2>1. Linking(r, i, x) /\ r \in InFlight
    BY <1>10, <1>11, <1>14 DEF Linking, InFlight
  <2> SUFFICES ASSUME NEW j \in DOMAIN db.subs PROVE Keeps(db, db', j, InFlight)
    BY DEF Rows
  <2> HIDE DEF r
  <2>2. CASE j # i
    BY <1>12, <2>2 DEF Keeps
  <2>3. CASE j = i
    BY <1>12, <1>15, <2>1, <2>3 DEF Keeps
  <2> QED
    BY <2>2, <2>3
<1>17. Lives(t)
  BY <1>13 DEF Lives, Drops, Adds, ChargeInv
<1>18. AtGate(t)
  BY <1>6, SelfUnmoved, UnmovedGate
<1> HIDE DEF r
<1>19. Applies(q) /\ Left(q) = 2 /\ Left(q) \in Nat /\ q.op \notin {"subscribe", "extCreated", "extDeleted"}
  BY <1>4, <1>9, OneOrOther DEF Popped, SigningUp
<1>20. Spent(q)
  BY <1>19 DEF Spent
<1>21. /\ ~Makes(q) /\ Charges(q, db', asaas') /\ Announces(q, db', InFlight')
  BY <1>19, <1>20, SpentIs
<1>22. Hands(r, q, db', asaas')
  <2>1. Charged(x, asaas') => i \in Live(db')
    BY <1>6, <1>13, <1>15 DEF Over, Charged
  <2> QED
    BY <1>10, <1>11, <1>12, <2>1 DEF Hands
<1>23. \A u \in Slot \ {t} : ~Applies(task[u])
  BY <1>4 DEF ChargeInv, r
<1>24. Own(t)
  BY <1>5, <1>21, <1>22, <1>23 DEF Own, r
<1> QED
  BY <1>6, <1>16, <1>17, <1>18, <1>24, ChargeKept

LEMMA SubAppended ==
  ASSUME Typed(db, asaas), NEW row, NEW n, n = Len(db.subs) + 1, NEW e, e = [db EXCEPT !.subs = Append(@, row)]
  PROVE  /\ DOMAIN e.subs = DOMAIN db.subs \cup {n} /\ n \notin DOMAIN db.subs
         /\ e.subs[n] = row /\ \A j \in DOMAIN db.subs : e.subs[j] = db.subs[j]
<1>1. e.subs = Append(db.subs, row)
  BY Unwritten
<1>2. DOMAIN db.subs = 1 .. Len(db.subs) /\ Len(db.subs) \in Nat /\ db.subs \in Seq(SubRow)
  BY TypedLens
<1> QED
  BY ONLY <1>1, <1>2, n = Len(db.subs) + 1

LEMMA NewRow ==
  ASSUME TasksFit, NEW t \in Slot, Has(t, "newSub"), NEW row, row = [Head(Todo(t)).row EXCEPT !.ext = task[t].ext]
  PROVE  row.ext = task[t].ext /\ row.status # "CANCELLED"
<1>1. PICK w : w = Head(Todo(t))
  OBVIOUS
<1>2. PICK e \in Nat : e = Len(Todo(t)) - 1
  BY HeadIs
<1>3. Is(w, "newSub") /\ At(task[t].op, task[t].on, w, e, Todo(t)[Len(Todo(t))])
  BY <1>1, <1>2, HeadIs
<1>4. PICK status \in {"PENDING", "ACTIVE"}, plan \in Plan : w.row = Subscription(status, plan, None)
  BY <1>3, AtNewSub
<1>5. PICK b : b = w.row
  OBVIOUS
<1>6. b = [status |-> status, plan |-> plan, pending |-> 0, due |-> FALSE, ext |-> 0, overdue |-> "no"]
  BY <1>4, <1>5 DEF Subscription, None
<1>7. PICK x : x = task[t].ext
  OBVIOUS
<1>8. row = [b EXCEPT !.ext = x]
  BY <1>1, <1>5, <1>7
<1>9. row = [status |-> status, plan |-> plan, pending |-> 0, due |-> FALSE, ext |-> x, overdue |-> "no"]
  BY ONLY <1>6, <1>8
<1> QED
  BY <1>7, <1>9

LEMMA InsertSubCharges ==
  ASSUME Typed(db, asaas), TasksFit, TasksFit', ChargeInv, NEW t \in Slot, InsertRow(t), Has(t, "newSub")
  PROVE  ChargeInv'
<1> DEFINE r == task[t]
<1>1. PICK row : row = [Head(Todo(t)).row EXCEPT !.ext = r.ext]
  OBVIOUS
<1>2. PICK n : n = Len(db.subs) + 1
  OBVIOUS
<1>3. PICK tables : tables = [db EXCEPT !.subs = Append(@, row)]
  OBVIOUS
<1>4. PICK c : c = Continue(t, Tail(Todo(t)))
  OBVIOUS
<1>5. PICK q : q = [c EXCEPT !.row = n]
  OBVIOUS
<1>6. Save(t, tables, q)
  <2>1. Head(Todo(t)).kind = "newSub"
    BY DEF Has
  <2> QED
    BY <1>1, <1>2, <1>3, <1>4, <1>5, <2>1 DEF InsertRow
<1>7. IsTask(r) /\ r.todo # <<>> /\ r.op # "idle" /\ Is(r.todo[1], "newSub") /\ Charges(r, db, asaas)
  BY Steps, BusyOp DEF Todo, ChargeInv
<1>8. (SigningUp(r) /\ Left(r) = 2) \/ (Applies(r) /\ Left(r) = 5)
  BY <1>7, LeftAt
<1>9. db' = tables /\ asaas' = asaas /\ task'[t] = q /\ \A u \in Slot \ {t} : Kept(u)
  BY <1>6, SaveTasks
<1>10. q.op = r.op /\ q.todo = Tail(r.todo) /\ q.row = n /\ q.ext = r.ext /\ q.on = r.on
  <2>1. Left(r) >= 2
    BY <1>8
  <2>2. c = [op |-> r.op, todo |-> Tail(r.todo), row |-> r.row, ext |-> r.ext, on |-> r.on, stale |-> r.stale]
    BY <1>4, <2>1, GoesOn
  <2>3. PICK k : k = Tail(r.todo)
    OBVIOUS
  <2>4. c = [op |-> r.op, todo |-> k, row |-> r.row, ext |-> r.ext, on |-> r.on, stale |-> r.stale]
    BY <2>2, <2>3
  <2>5. q = [op |-> r.op, todo |-> k, row |-> n, ext |-> r.ext, on |-> r.on, stale |-> r.stale]
    BY ONLY <1>5, <2>4
  <2>6. q.op = r.op /\ q.todo = k /\ q.row = n /\ q.ext = r.ext /\ q.on = r.on
    BY ONLY <2>5
  <2> QED
    BY <2>3, <2>6
<1>11. IsTask(q)
  BY <1>9, NextTask
<1>12. Popped(r, q)
  BY <1>7, <1>10, <1>11, PoppedIs
<1>13. row.ext = r.ext /\ row.status # "CANCELLED"
  BY <1>1, NewRow
<1>14. /\ DOMAIN db'.subs = DOMAIN db.subs \cup {n} /\ n \notin DOMAIN db.subs
       /\ db'.subs[n] = row /\ \A j \in DOMAIN db.subs : db'.subs[j] = db.subs[j]
  BY <1>2, <1>3, <1>9, SubAppended
<1> HIDE DEF r
<1>15. Inserting(r) /\ Makes(r) /\ Live(db) = {}
  <2>1. Inserting(r)
    BY <1>8 DEF Inserting
  <2> QED
    BY <1>7, <2>1 DEF Makes, Charges, Vacant
<1>16. Live(db') = {n}
  BY <1>13, <1>14, <1>15 DEF Live
<1>17. Rows /\ Lives(t) /\ AtGate(t)
  <2>1. Rows
    BY <1>14 DEF Rows, Keeps
  <2>2. Lives(t)
    BY <1>14, <1>15, <1>16 DEF Lives, Adds, r
  <2> QED
    BY <1>9, <2>1, <2>2, SelfUnmoved, UnmovedGate
<1>18. \A u \in Slot \ {t} : ~Makes(task[u])
  BY <1>15 DEF ChargeInv, r
<1>19. CASE SigningUp(r) /\ Left(r) = 2
  <2>1. ~Applies(q) /\ ~Applies(r) /\ Left(q) = 1 /\ q.op \notin {"extDeleted", "extCreated"}
    BY <1>10, <1>12, <1>19, OneOrOther DEF Popped, SigningUp
  <2>2. ~Makes(q) /\ ~Inserting(q) /\ ~Replacing(q) /\ ~Holds(q) /\ ~Unopened(q)
    BY <2>1 DEF Makes, Inserting, Replacing, Holds, Links, Unopened
  <2>3. Charges(q, db', asaas') /\ Announces(q, db', InFlight')
    BY <2>1, <2>2 DEF Charges, Clears, Vacant, Opened, Pairs, Follows, Announces
  <2>4. Hands(r, q, db', asaas')
    <3>1. ~Links(r)
      BY <2>1 DEF Links
    <3>2. n \in Live(db') /\ db'.subs[n].ext = r.ext
      BY <1>13, <1>14, <1>16
    <3> QED
      BY <3>1, <3>2 DEF Hands
  <2>5. Own(t)
    BY <1>9, <2>1, <2>2, <2>3, <2>4 DEF Own, r
  <2> QED
    BY <1>9, <1>17, <2>5, ChargeKept
<1>20. CASE Applies(r) /\ Left(r) = 5
  <2>1. Applies(q) /\ ~SigningUp(q) /\ ~SigningUp(r) /\ Left(q) = 4 /\ q.op \notin {"extDeleted", "extCreated"}
    BY <1>12, <1>20, OneOrOther DEF Popped
  <2>2. ~Makes(q) /\ ~Inserting(q) /\ ~Replacing(q) /\ ~Holds(q) /\ ~Holds(r) /\ ~Links(r)
    BY <1>20, <2>1 DEF Makes, Inserting, Replacing, Holds, Links
  <2>3. r.ext = None
    BY <1>7, <1>20 DEF Charges, Opened, Unopened
  <2>4. Pairs(q, db', asaas')
    BY <1>10, <1>13, <1>14, <1>16, <2>3 DEF Pairs
  <2>5. Charges(q, db', asaas') /\ Announces(q, db', InFlight')
    BY <1>10, <2>1, <2>2, <2>3, <2>4 DEF Charges, Clears, Vacant, Opened, Follows, Announces
  <2>6. \A u \in Slot \ {t} : ~Applies(task[u])
    BY <1>20 DEF ChargeInv, r
  <2>7. Own(t)
    BY <1>9, <2>2, <2>5, <2>6 DEF Own, Hands, r
  <2> QED
    BY <1>9, <1>17, <2>7, ChargeKept
<1> QED
  BY <1>8, <1>19, <1>20

(* The columns written to a subscription: most writes neither cancel it    *)
(* nor link it.                                                            *)
Harmless(set) == "ext" \notin DOMAIN set /\ ("status" \in DOMAIN set => set["status"] # "CANCELLED")

LEMMA PendingSet == ASSUME NEW plan, NEW due, NEW set, set = [pending |-> plan, due |-> due]
                    PROVE  "ext" \notin DOMAIN set /\ "status" \notin DOMAIN set
  OBVIOUS

LEMMA MovingSet == ASSUME NEW plan, NEW set, set = [plan |-> plan, pending |-> None, due |-> FALSE] PROVE Harmless(set)
  BY DEF Harmless

LEMMA OverdueSet == ASSUME NEW since, NEW set, set = [status |-> "PAST_DUE", overdue |-> since] PROVE Harmless(set)
  BY DEF Harmless

LEMMA OtherSet ==
  ASSUME NEW op, NEW on, NEW w, NEW e \in Nat, NEW z, At(op, on, w, e, z), Is(w, "sub"),
         op \notin {"subscribe", "extCreated", "extDeleted"} \cup Upgrading
  PROVE  Harmless(w.set)
<1>1. CASE op \in {"downgrade", "cancelDowngrade"}
  <2>1. \E plan, due : w.set = [pending |-> plan, due |-> due]
    BY <1>1 DEF At, AtDowngrade, AtCancelDowngrade, SubOf, Upgrading, Applier, Floorer
  <2> QED
    BY <2>1, PendingSet DEF Harmless
<1>2. CASE op = "cyclePaid"
  <2>1. AtCyclePaid(on, w, e, z)
    BY <1>2 DEF At, Upgrading, Applier, Floorer
  <2>2. w = z /\ Renews(w)
    BY <2>1 DEF AtCyclePaid, Is, Tenant
  <2>3. w.set["status"] = "ACTIVE" /\ "ext" \notin DOMAIN w.set
    <3>1. \/ DOMAIN w.set = {"status", "overdue"}
          \/ DOMAIN w.set = {"status", "overdue", "plan", "pending", "due"}
      BY <2>2, RenewsIs
    <3> QED
      BY <2>2, <3>1, RenewsIs
  <2> QED
    BY <2>3 DEF Harmless
<1>3. CASE op = "cycleOverdue"
  <2>1. \E since : w.set = [status |-> "PAST_DUE", overdue |-> since]
    BY <1>3 DEF At, AtCycleOverdue, SubOf, Upgrading, Applier, Floorer
  <2> QED
    BY <2>1, OverdueSet
<1>4. CASE op = "checkOverdueSubscriptions"
  <2>1. w.set = [status |-> "SUSPENDED"]
    BY <1>4 DEF At, AtCheckOverdue, Sub, Is, Tenant, Upgrading, Applier, Floorer
  <2> QED
    BY <2>1 DEF Harmless
<1>5. CASE op = Applier
  <2>1. \E plan : w.set = [plan |-> plan, pending |-> None, due |-> FALSE]
    BY <1>5 DEF At, AtApplyPending, Sub, Is, Tenant, Upgrading, Applier, Floorer
  <2> QED
    BY <2>1, MovingSet
<1>6. CASE op \notin {"downgrade", "cancelDowngrade", "cyclePaid", "cycleOverdue", "checkOverdueSubscriptions", Applier}
  BY <1>6 DEF At, AtBuyAddOn, AtAddOnPaid, AtExpireAddOns, Found, Is
<1> QED
  BY <1>1, <1>2, <1>3, <1>4, <1>5, <1>6

LEMMA UpgradeSet ==
  ASSUME NEW on, NEW w, NEW e \in Nat, NEW z, AtUpgrade(on, w, e, z), Is(w, "sub")
  PROVE  /\ w.i = on
         /\ \/ Is(z, "charge") /\ "ext" \notin DOMAIN w.set /\ "status" \notin DOMAIN w.set
            \/ Is(z, "limit") /\ e \in {6, 7} /\ "ext" \notin DOMAIN w.set /\ "status" \notin DOMAIN w.set
            \/ Is(z, "limit") /\ e = 5 /\ w.set = [status |-> "CANCELLED", pending |-> None, due |-> FALSE]
<1>1. ASSUME Pends(on, w) PROVE w.i = on /\ "ext" \notin DOMAIN w.set /\ "status" \notin DOMAIN w.set
  <2>1. w.i = on /\ \E plan : w.set = [pending |-> plan, due |-> TRUE]
    BY <1>1 DEF Pends, SubOf
  <2> QED
    BY <2>1, PendingSet
<1> QED
  BY <1>1 DEF AtUpgrade, Is, SubOf, Tenant

LEMMA SubWrote ==
  ASSUME Typed(db, asaas), TasksFit, TasksFit', NEW t \in Slot, WriteSub(t), NEW w, w = task[t].todo[1]
  PROVE  /\ Has(t, "sub") /\ Is(w, "sub") /\ w.i \in DOMAIN db.subs
         /\ Puts(db, db', w.i, w.set)
         /\ asaas' = asaas /\ task'[t] = Continue(t, Tail(Todo(t))) /\ \A u \in Slot \ {t} : Kept(u)
         /\ IsTask(task[t]) /\ IsTask(task'[t]) /\ task[t].op # "idle" /\ task[t].todo # <<>>
<1>1. PICK tables : tables = [db EXCEPT !.subs[w.i] = Put(@, w.set)]
  OBVIOUS
<1>2. Has(t, "sub") /\ w = Head(Todo(t)) /\ Is(w, "sub") /\ Named(w, db, asaas) /\ Todo(t) # <<>>
  BY Steps DEF WriteSub
<1>3. Write(t, tables, Tail(Todo(t)))
  BY <1>1, <1>2 DEF WriteSub
<1>4. w.i \in DOMAIN db.subs
  BY <1>2 DEF Named
<1>5. db' = tables /\ asaas' = asaas /\ task'[t] = Continue(t, Tail(Todo(t))) /\ \A u \in Slot \ {t} : Kept(u)
  BY <1>3, SaveTasks DEF Write
<1>6. Puts(db, tables, w.i, w.set)
  <2>1. PICK i \in DOMAIN db.subs : i = w.i
    BY <1>4
  <2>2. PICK set : set = w.set
    OBVIOUS
  <2>3. PICK row : row = Put(db.subs[i], set)
    OBVIOUS
  <2>4. PICK subs : subs = [db.subs EXCEPT ![i] = row]
    OBVIOUS
  <2>5. tables = [db EXCEPT !.subs = subs]
    BY ONLY <1>1, <2>1, <2>2, <2>3, <2>4, Zenon
  <2>6. Puts(db, tables, i, set)
    BY <2>3, <2>4, <2>5, SubPut
  <2> QED
    BY <2>1, <2>2, <2>6
<1>7. IsTask(task[t]) /\ IsTask(task'[t]) /\ task[t].op # "idle" /\ task[t].todo # <<>>
  BY <1>2, BusyOp, NextTask DEF Todo
<1> QED
  BY <1>2, <1>4, <1>5, <1>6, <1>7

LEMMA HarmlessKeeps ==
  ASSUME NEW d, NEW e, NEW i \in DOMAIN d.subs, NEW set, Harmless(set), Puts(d, e, i, set),
         "status" \notin DOMAIN set \/ (d.subs[i].status = "CANCELLED" => e.subs[i].status = "CANCELLED")
  PROVE  Untouched(d, e)
<1>1. e.subs[i].ext = d.subs[i].ext /\ DOMAIN e.subs = DOMAIN d.subs
  BY DEF Harmless, Puts
<1>2. e.subs[i].status = "CANCELLED" <=> d.subs[i].status = "CANCELLED"
  BY DEF Harmless, Puts
<1>3. \A j \in DOMAIN d.subs : j # i => e.subs[j] = d.subs[j]
  BY DEF Puts
<1> QED
  BY <1>1, <1>2, <1>3 DEF Untouched, Live

(* A cancelled row leaves those that are not; each keeps its link.         *)
LEMMA CancelPut ==
  ASSUME NEW d, NEW e, NEW i \in DOMAIN d.subs, NEW set, Puts(d, e, i, set),
         "status" \in DOMAIN set, set["status"] = "CANCELLED", "ext" \notin DOMAIN set
  PROVE  /\ Live(e) = Live(d) \ {i} /\ DOMAIN e.subs = DOMAIN d.subs
         /\ \A j \in DOMAIN d.subs : e.subs[j].ext = d.subs[j].ext
<1>1. e.subs[i].ext = d.subs[i].ext /\ e.subs[i].status = "CANCELLED" /\ DOMAIN e.subs = DOMAIN d.subs
  BY DEF Puts
<1>2. \A j \in DOMAIN d.subs : j # i => e.subs[j] = d.subs[j]
  BY DEF Puts
<1> QED
  BY <1>1, <1>2 DEF Live

LEMMA OtherSubCharges ==
  ASSUME Typed(db, asaas), TasksFit, TasksFit', ChargeInv, ~Revived, NEW t \in Slot, WriteSub(t),
         task[t].op \notin {"subscribe", "extCreated", "extDeleted"} \cup Upgrading
  PROVE  ChargeInv'
<1>1. PICK w : w = task[t].todo[1]
  OBVIOUS
<1>2. PICK q : q = task'[t]
  OBVIOUS
<1>3. /\ Has(t, "sub") /\ Is(w, "sub") /\ w.i \in DOMAIN db.subs /\ Puts(db, db', w.i, w.set)
      /\ asaas' = asaas /\ q = Continue(t, Tail(Todo(t))) /\ \A u \in Slot \ {t} : Kept(u)
      /\ IsTask(task[t]) /\ IsTask(q) /\ task[t].op # "idle" /\ task[t].todo # <<>>
  BY <1>1, <1>2, SubWrote
<1>4. Harmless(w.set)
  <2>1. PICK e \in Nat : e = Left(task[t]) - 1
    BY <1>3, HeadAt
  <2>2. At(task[t].op, task[t].on, w, e, task[t].todo[Left(task[t])])
    BY <1>1, <1>3, <2>1, HeadAt
  <2> QED
    BY <1>3, <2>2, OtherSet
<1>5. Untouched(db, db')
  <2>1. db.subs[w.i].status = "CANCELLED" => db'.subs[w.i].status = "CANCELLED"
    BY <1>3 DEF Revived
  <2> QED
    BY <1>3, <1>4, <2>1, HarmlessKeeps
<1>6. q = Idle \/ q.op = task[t].op
  BY <1>3, ContinueOp
<1>7. Spent(q) /\ Left(q) \in Nat /\ ~Applies(q)
  <2>1. CASE q = Idle
    BY <2>1, IdleSpent
  <2>2. CASE q # Idle
    BY <1>3, <1>6, <2>2, LeftIs DEF Spent, Applies
  <2> QED
    BY <2>1, <2>2
<1>8. ~Holds(task[t])
  BY DEF Holds, Links, SigningUp, Applies
<1>9. Own(t)
  BY <1>2, <1>7, <1>8, SpentOwn
<1>10. Unmoved(asaas, asaas')
  BY <1>3, SelfUnmoved
<1> QED
  BY <1>3, <1>5, <1>9, <1>10, UntouchedRows, UnmovedGate, ChargeKept

LEMMA CancelSubCharges ==
  ASSUME Typed(db, asaas), TasksFit, TasksFit', ChargeInv, NEW t \in Slot, WriteSub(t), task[t].op = "extDeleted"
  PROVE  ChargeInv'
<1> DEFINE r == task[t]
<1>1. PICK w : w = r.todo[1]
  OBVIOUS
<1>2. PICK q : q = task'[t]
  OBVIOUS
<1>3. /\ Has(t, "sub") /\ Is(w, "sub") /\ w.i \in DOMAIN db.subs /\ Puts(db, db', w.i, w.set)
      /\ asaas' = asaas /\ q = Continue(t, Tail(Todo(t))) /\ \A u \in Slot \ {t} : Kept(u)
      /\ IsTask(r) /\ IsTask(q) /\ r.op # "idle" /\ r.todo # <<>>
  BY <1>1, <1>2, SubWrote
<1>4. w.i = r.on /\ w.set = [status |-> "CANCELLED"]
  <2>1. AtExtDeleted(r.on, w, Left(r) - 1)
    BY <1>1, <1>3, HeadAt, AtOf
  <2> QED
    BY <1>3, <2>1 DEF AtExtDeleted, SubOf, Is, Tenant
<1>5. PICK i \in DOMAIN db.subs : i = w.i
  BY <1>3
<1>6. Over(db.subs[i].ext, asaas)
  BY <1>1, <1>3, <1>4, <1>5 DEF ChargeInv, Charges, Follows
<1>7. /\ Live(db') = Live(db) \ {i} /\ DOMAIN db'.subs = DOMAIN db.subs
      /\ \A j \in DOMAIN db.subs : db'.subs[j].ext = db.subs[j].ext
  <2>1. PICK set : set = w.set
    OBVIOUS
  <2>2. "status" \in DOMAIN set /\ set["status"] = "CANCELLED" /\ "ext" \notin DOMAIN set
    BY <1>4, <2>1
  <2>3. Puts(db, db', i, set)
    BY <1>3, <1>5, <2>1
  <2> QED
    BY <2>2, <2>3, CancelPut
<1>8. Rows /\ Lives(t)
  BY <1>6, <1>7 DEF Rows, Keeps, Lives, Drops, Adds, ChargeInv
<1>9. q = Idle \/ (q.op = r.op /\ ~Is(q.todo[1], "sub"))
  <2>1. Onto(r, q)
    BY <1>3, ContinueOnto
  <2>2. q = Idle \/ q.op = r.op
    BY <1>3, ContinueOp
  <2> QED
    BY <1>2, <1>3, <2>1, <2>2, SuspendsNext
<1>10. Spent(q) /\ Left(q) \in Nat /\ ~Applies(q)
  <2>1. CASE q = Idle
    BY <2>1, IdleSpent
  <2>2. CASE q # Idle
    BY <1>3, <1>9, <2>2, LeftIs DEF Spent, Applies, Upgrading
  <2> QED
    BY <2>1, <2>2
<1>11. ~Holds(r)
  BY DEF Holds, Links, SigningUp, Applies, Upgrading
<1>12. Own(t)
  BY <1>2, <1>10, <1>11, SpentOwn
<1>13. AtGate(t)
  BY <1>3, SelfUnmoved, UnmovedGate
<1> QED
  BY <1>3, <1>8, <1>12, <1>13, ChargeKept

LEMMA AnnounceCharges ==
  ASSUME Typed(db, asaas), TasksFit, TasksFit', ChargeInv, NEW t \in Slot, WriteSub(t), task[t].op = "extCreated"
  PROVE  ChargeInv'
<1> DEFINE r == task[t]
<1>1. PICK w : w = r.todo[1]
  OBVIOUS
<1>2. PICK q : q = task'[t]
  OBVIOUS
<1>3. /\ Has(t, "sub") /\ Is(w, "sub") /\ w.i \in DOMAIN db.subs /\ Puts(db, db', w.i, w.set)
      /\ asaas' = asaas /\ q = Continue(t, Tail(Todo(t))) /\ \A u \in Slot \ {t} : Kept(u)
      /\ IsTask(r) /\ IsTask(q) /\ r.op # "idle" /\ r.todo # <<>>
  BY <1>1, <1>2, SubWrote
<1>4. PICK i \in DOMAIN db.subs : i = w.i
  BY <1>3
<1>5. PICK x : x = w.set.ext
  OBVIOUS
<1>6. Left(r) - 1 = 0 /\ w.set = [ext |-> x]
  <2>1. AtExtCreated(w, Left(r) - 1)
    BY <1>1, <1>3, HeadAt, AtOf
  <2> QED
    BY <1>5, <2>1 DEF AtExtCreated
<1>7. q = Idle
  <2>1. Len(Tail(Todo(t))) = 0 /\ Listed(Tail(Todo(t)))
    BY <1>3, <1>6, HeadIs DEF Todo, Left
  <2>2. Tail(Todo(t)) = <<>>
    BY <2>1, EmptySeq DEF Listed
  <2> QED
    BY <1>3, <2>2 DEF Continue
<1>8. x # None /\ (db.subs[i].ext = x \/ \E p \in InFlight : Linking(p, i, x))
  BY <1>1, <1>4, <1>5 DEF ChargeInv, Announces
<1>9. /\ DOMAIN db'.subs = DOMAIN db.subs /\ \A j \in DOMAIN db.subs : j # i => db'.subs[j] = db.subs[j]
      /\ db'.subs[i].status = db.subs[i].status /\ db'.subs[i].ext = x
  <2>1. PICK set : set = w.set
    OBVIOUS
  <2>2. set = [ext |-> x]
    BY <1>6, <2>1
  <2>3. "status" \notin DOMAIN set /\ "ext" \in DOMAIN set /\ set["ext"] = x
    BY ONLY <2>2
  <2>4. Puts(db, db', i, set)
    BY <1>3, <1>4, <2>1
  <2> QED
    BY <2>3, <2>4 DEF Puts
<1>10. Live(db') = Live(db)
  BY <1>9 DEF Live
<1>11. db.subs[i].ext = x \/ (db.subs[i].ext = None /\ \E p \in InFlight : Linking(p, i, x))
  <2>1. ASSUME NEW u \in Slot, Linking(task[u], i, x) PROVE db.subs[i].ext \in {None, x}
    BY <2>1 DEF ChargeInv, Charges, Pairs, Linking, Links
  <2> QED
    BY <1>8, <2>1, LinkingIn
<1>12. Rows
  <2> SUFFICES ASSUME NEW j \in DOMAIN db.subs PROVE Keeps(db, db', j, InFlight)
    BY DEF Rows
  <2>1. CASE j # i
    BY <1>9, <2>1 DEF Keeps
  <2>2. CASE j = i
    BY <1>9, <1>11, <2>2 DEF Keeps
  <2> QED
    BY <2>1, <2>2
<1>13. Lives(t)
  BY <1>10 DEF Lives, Drops, Adds, ChargeInv
<1>14. AtGate(t)
  BY <1>3, SelfUnmoved, UnmovedGate
<1>15. ~Holds(r)
  BY DEF Holds, Links, SigningUp, Applies, Upgrading
<1>16. Own(t)
  BY <1>2, <1>7, <1>15, IdleSpent, SpentOwn
<1> QED
  BY <1>3, <1>12, <1>13, <1>14, <1>16, ChargeKept

LEMMA UpgradeSubCharges ==
  ASSUME Typed(db, asaas), TasksFit, TasksFit', ChargeInv, NEW t \in Slot, WriteSub(t), task[t].op \in Upgrading
  PROVE  ChargeInv'
<1> DEFINE r == task[t]
<1>1. PICK w : w = r.todo[1]
  OBVIOUS
<1>2. PICK q : q = task'[t]
  OBVIOUS
<1>3. /\ Has(t, "sub") /\ Is(w, "sub") /\ w.i \in DOMAIN db.subs /\ Puts(db, db', w.i, w.set)
      /\ asaas' = asaas /\ q = Continue(t, Tail(Todo(t))) /\ \A u \in Slot \ {t} : Kept(u)
      /\ IsTask(r) /\ IsTask(q) /\ r.op # "idle" /\ r.todo # <<>> /\ Charges(r, db, asaas)
  BY <1>1, <1>2, SubWrote DEF ChargeInv
<1>4. PICK i \in DOMAIN db.subs : i = w.i
  BY <1>3
<1>5. PICK z : z = r.todo[Left(r)]
  OBVIOUS
<1>6. PICK e \in Nat : e = Left(r) - 1
  BY <1>3, HeadAt
<1>7. AtUpgrade(r.on, w, e, z) /\ Left(r) = e + 1 /\ Left(r) \in Nat
  <2>1. At(r.op, r.on, w, e, z)
    BY <1>1, <1>3, <1>5, <1>6, HeadAt
  <2>2. Left(r) \in Nat
    BY <1>3, LeftIs
  <2> QED
    BY <1>6, <2>1, <2>2, AtOf
<1>8. Applies(r) <=> Is(z, "limit")
  BY <1>3, <1>5, LeftIs DEF Applies
<1>9. /\ i = r.on
      /\ \/ ~Applies(r) /\ "ext" \notin DOMAIN w.set /\ "status" \notin DOMAIN w.set
         \/ Applies(r) /\ e \in {6, 7} /\ "ext" \notin DOMAIN w.set /\ "status" \notin DOMAIN w.set
         \/ Applies(r) /\ e = 5 /\ w.set = [status |-> "CANCELLED", pending |-> None, due |-> FALSE]
  <2>1. Is(z, "charge") => ~Is(z, "limit")
    BY DEF Is
  <2>2. PICK on : on = r.on
    OBVIOUS
  <2>3. PICK set : set = w.set
    OBVIOUS
  <2>4. AtUpgrade(on, w, e, z) /\ Is(w, "sub")
    BY <1>3, <1>7, <2>2
  <2>5. /\ w.i = on
        /\ \/ Is(z, "charge") /\ "ext" \notin DOMAIN w.set /\ "status" \notin DOMAIN w.set
           \/ Is(z, "limit") /\ e \in {6, 7} /\ "ext" \notin DOMAIN w.set /\ "status" \notin DOMAIN w.set
           \/ Is(z, "limit") /\ e = 5 /\ w.set = [status |-> "CANCELLED", pending |-> None, due |-> FALSE]
    BY ONLY <2>4, e \in Nat, UpgradeSet
  <2> HIDE DEF r
  <2> QED
    BY <1>4, <1>8, <2>1, <2>2, <2>5
<1>10. AtGate(t)
  BY <1>3, SelfUnmoved, UnmovedGate
<1>11. ASSUME Left(r) >= 2 PROVE /\ q.op = r.op /\ q.todo = Tail(r.todo) /\ q.row = r.row /\ q.ext = r.ext /\ q.on = r.on
                                 /\ Popped(r, q)
  <2>1. q.op = r.op /\ q.todo = Tail(r.todo) /\ q.row = r.row /\ q.ext = r.ext /\ q.on = r.on
    BY <1>3, <1>11, GoesOn
  <2> QED
    BY <1>3, <2>1, PoppedIs
<1>12. ASSUME "ext" \notin DOMAIN w.set, "status" \notin DOMAIN w.set PROVE Untouched(db, db')
  <2>1. Harmless(w.set) /\ Puts(db, db', i, w.set)
    BY <1>3, <1>4, <1>12 DEF Harmless
  <2> QED
    BY <1>12, <2>1, HarmlessKeeps
<1>13. CASE ~Applies(r) /\ "ext" \notin DOMAIN w.set /\ "status" \notin DOMAIN w.set
  <2>1. q = Idle \/ (q.op = r.op /\ q.todo = Tail(r.todo))
    BY <1>3, ContinueOnto DEF Onto
  <2>2. Spent(q) /\ Left(q) \in Nat /\ ~Applies(q)
    <3>1. CASE q = Idle
      BY <3>1, IdleSpent
    <3>2. CASE q # Idle
      <4>1. q.op = r.op /\ Popped(r, q)
        BY <1>3, <2>1, <3>2, PoppedIs
      <4> QED
        BY <1>13, <4>1 DEF Popped, Spent, Upgrading
    <3> QED
      BY <3>1, <3>2
  <2>3. ~Holds(r)
    BY <1>13 DEF Holds, Links, SigningUp, Upgrading
  <2>4. Own(t)
    BY <1>2, <2>2, <2>3, SpentOwn
  <2> QED
    BY <1>3, <1>10, <1>12, <1>13, <2>4, UntouchedRows, ChargeKept
<1> HIDE DEF r
<1>14. CASE Applies(r) /\ e \in {6, 7} /\ "ext" \notin DOMAIN w.set /\ "status" \notin DOMAIN w.set
  <2>1. /\ q.row = r.row /\ q.ext = r.ext /\ q.on = r.on /\ q.op = r.op /\ Popped(r, q)
        /\ Left(r) \in {7, 8}
    BY <1>7, <1>11, <1>14
  <2>2. Applies(q) /\ Left(q) \in {6, 7} /\ ~SigningUp(q) /\ ~SigningUp(r) /\ q.op \notin {"extDeleted", "extCreated"}
    BY <1>14, <2>1, OneOrOther DEF Popped
  <2>3. /\ Replacing(r) /\ Replacing(q) /\ Makes(r) /\ ~Inserting(q) /\ Unopened(r) /\ Unopened(q)
        /\ ~Holds(r) /\ ~Holds(q) /\ ~Links(r) /\ ~(Left(q) \in {3, 4})
    BY <1>14, <2>1, <2>2 DEF Replacing, Makes, Inserting, Unopened, Holds, Links
  <2>4. Untouched(db, db')
    BY <1>12, <1>14
  <2>5. Clears(q, db', asaas')
    <3>1. r.on \in DOMAIN db.subs /\ Live(db) \subseteq {r.on} /\ Finished(db.subs[r.on].ext, r, asaas)
      BY <1>3, <2>3 DEF Charges, Clears
    <3>2. r.on \in DOMAIN db'.subs /\ Live(db') \subseteq {r.on} /\ db'.subs[r.on].ext = db.subs[r.on].ext
      BY <2>4, <3>1 DEF Untouched, Live
    <3>3. \A x : Closes(r, x) => Closes(q, x)
      <4>1. ~Is(r.todo[1], "cancelExt")
        BY <1>1, <1>3 DEF Is
      <4> QED
        BY <2>1, <4>1 DEF Popped
    <3>4. Finished(db'.subs[r.on].ext, q, asaas')
      BY <1>3, <3>1, <3>2, <3>3 DEF Finished
    <3> QED
      BY <2>1, <3>2, <3>4 DEF Clears
  <2>6. Opened(q)
    BY <1>3, <2>1, <2>3 DEF Charges, Opened
  <2>7. Charges(q, db', asaas') /\ Announces(q, db', InFlight')
    BY <2>2, <2>3, <2>5, <2>6 DEF Charges, Vacant, Pairs, Follows, Announces
  <2>8. \A u \in Slot \ {t} : ~Applies(task[u]) /\ ~Makes(task[u])
    BY <1>14, <2>3 DEF ChargeInv, r
  <2>9. Own(t)
    BY <1>2, <2>3, <2>7, <2>8 DEF Own, Hands, r
  <2> QED
    BY <1>3, <1>10, <2>4, <2>9, UntouchedRows, ChargeKept
<1>15. CASE Applies(r) /\ e = 5 /\ w.set = [status |-> "CANCELLED", pending |-> None, due |-> FALSE]
  <2>1. /\ q.row = r.row /\ q.ext = r.ext /\ q.on = r.on /\ q.op = r.op /\ Popped(r, q)
        /\ Left(r) = 6
    BY <1>7, <1>11, <1>15
  <2>2. Applies(q) /\ Left(q) = 5 /\ ~SigningUp(q) /\ ~SigningUp(r) /\ q.op \notin {"extDeleted", "extCreated"}
    BY <1>15, <2>1, OneOrOther DEF Popped
  <2>3. /\ Replacing(r) /\ ~Replacing(q) /\ Makes(r) /\ Unopened(r) /\ Unopened(q)
        /\ ~Holds(r) /\ ~Holds(q) /\ ~Links(r)
    BY <1>15, <2>1, <2>2 DEF Replacing, Makes, Inserting, Unopened, Holds, Links
  <2>4. /\ Live(db') = Live(db) \ {i} /\ DOMAIN db'.subs = DOMAIN db.subs
        /\ \A j \in DOMAIN db.subs : db'.subs[j].ext = db.subs[j].ext
    <3>1. PICK set : set = w.set
      OBVIOUS
    <3>2. "status" \in DOMAIN set /\ set["status"] = "CANCELLED" /\ "ext" \notin DOMAIN set
      BY <1>15, <3>1
    <3>3. Puts(db, db', i, set)
      BY <1>3, <1>4, <3>1
    <3> QED
      BY <3>2, <3>3, CancelPut
  <2>5. Live(db) \subseteq {i} /\ Finished(db.subs[i].ext, r, asaas)
    BY <1>3, <1>9, <2>3 DEF Charges, Clears
  <2>6. ~\E x : Closes(r, x)
    <3> SUFFICES ASSUME NEW k \in DOMAIN r.todo, Is(r.todo[k], "cancelExt") PROVE FALSE
      BY DEF Closes
    <3>1. DOMAIN r.todo = 1 .. 6 /\ Len(r.todo) = 6
      BY <1>3, <2>1, TaskLists DEF Left
    <3>2. PICK y \in Nat : y = 6 - k
      BY <3>1
    <3>3. y # 6
      BY <3>1, <3>2
    <3>4. At(r.op, r.on, r.todo[k], y, r.todo[Len(r.todo)])
      BY <1>3, <3>1, <3>2 DEF IsTask
    <3> QED
      BY <3>3, <3>4, AtCancelExt
  <2>7. db.subs[i].ext = None \/ Over(db.subs[i].ext, asaas)
    BY <2>5, <2>6 DEF Finished
  <2>8. Live(db') = {}
    BY <2>4, <2>5
  <2>9. Rows
    BY <2>4 DEF Rows, Keeps
  <2>10. Lives(t)
    <3>1. \A j \in Live(db) : Drops(db, db', asaas, j, task[t])
      BY <1>15, <2>5, <2>7 DEF Drops, r
    <3> QED
      BY <2>8, <3>1 DEF Lives
  <2>11. Opened(q)
    BY <1>3, <2>1, <2>3 DEF Charges, Opened
  <2>12. Charges(q, db', asaas') /\ Announces(q, db', InFlight')
    BY <2>2, <2>3, <2>8, <2>11 DEF Charges, Clears, Vacant, Pairs, Follows, Announces
  <2>13. \A u \in Slot \ {t} : ~Applies(task[u]) /\ ~Makes(task[u])
    BY <1>15, <2>3 DEF ChargeInv, r
  <2>14. Own(t)
    BY <1>2, <2>3, <2>12, <2>13 DEF Own, Hands, r
  <2> QED
    BY <1>3, <1>10, <2>9, <2>10, <2>14, ChargeKept
<1> QED
  BY <1>9, <1>13, <1>14, <1>15

LEMMA WriteSubCharges ==
  ASSUME Typed(db, asaas), TasksFit, TasksFit', ChargeInv, ~Revived, NEW t \in Slot, WriteSub(t)
  PROVE  ChargeInv'
<1>1. task[t].op # "subscribe"
  <2>1. PICK w : w = task[t].todo[1]
    OBVIOUS
  <2>2. Is(w, "sub") /\ IsTask(task[t]) /\ task[t].todo # <<>>
    BY <2>1, SubWrote
  <2>3. task[t].op = "subscribe" => AtSubscribe(w, Left(task[t]) - 1)
    BY <2>1, <2>2, HeadAt, AtOf
  <2> QED
    BY <2>2, <2>3 DEF AtSubscribe, Is, Tenant
<1> QED
  BY <1>1, OtherSubCharges, CancelSubCharges, AnnounceCharges, UpgradeSubCharges

LEMMA StepCharges ==
  ASSUME Typed(db, asaas), TasksFit, TasksFit', ChargeInv, ~Revived, NEW t \in Slot, Step(t)
  PROVE  ChargeInv'
<1>1. CASE InsertRow(t)
  BY <1>1, InsertSubCharges, InsertPurchaseCharges DEF InsertRow
<1> QED
  BY <1>1, WriteSubCharges, WriteTenantCharges, WritePurchaseCharges, LinkCharges, WriteLimitCharges, ReadFloorCharges,
     CheckFloorCharges, ActivateCharges, ReadOnboardCharges, InsertCompanyCharges, ReadOthersCharges, OpenExtCharges, CloseExtCharges,
     OpenBillCharges DEF Step

----------------------------------------------------------------------------
(* Handlers that start.                                                    *)

LEMMA RunningFresh ==
  ASSUME NEW op, NEW s, NEW on, NEW r, r = Running(op, s, on)
  PROVE  Starts(r, op, s, on) /\ r.ext = None
<1>0. PICK i : i = Idle
  OBVIOUS
<1>1. PICK p : p = [i EXCEPT !.op = op]
  OBVIOUS
<1>2. PICK q : q = [p EXCEPT !.todo = s]
  OBVIOUS
<1>3. r = [q EXCEPT !.on = on]
  BY <1>0, <1>1, <1>2, Zenon DEF Running
<1>4. i = [op |-> "idle", todo |-> <<>>, row |-> 0, ext |-> 0, on |-> 0, stale |-> FALSE]
  BY <1>0 DEF Idle, None
<1>5. p = [op |-> op, todo |-> <<>>, row |-> 0, ext |-> 0, on |-> 0, stale |-> FALSE]
  BY ONLY <1>4, <1>1
<1>6. q = [op |-> op, todo |-> s, row |-> 0, ext |-> 0, on |-> 0, stale |-> FALSE]
  BY ONLY <1>5, <1>2
<1>7. r = [op |-> op, todo |-> s, row |-> 0, ext |-> 0, on |-> on, stale |-> FALSE]
  BY ONLY <1>6, <1>3
<1>8. r.ext = 0
  BY ONLY <1>7
<1> QED
  BY <1>8, RunningIs DEF None

(* What the handler q, that starts in slot t, must find.                   *)
Begun(t, q) ==
  /\ Charges(q, db, asaas') /\ Announces(q, db, InFlight')
  /\ Applies(q) => \A u \in Slot \ {t} : ~Applies(task[u])
  /\ Makes(q) => \A u \in Slot \ {t} : ~Makes(task[u])

LEMMA LaunchCharges ==
  ASSUME Typed(db, asaas), TasksFit, TasksFit', ChargeInv, NEW t \in Slot, NEW op, NEW todo, NEW on, Launch(t, op, todo, on),
         Unmoved(asaas, asaas'),
         ASSUME NEW q, q = task'[t], IsTask(q), Starts(q, op, todo, on), q.ext = None, todo # <<>>
         PROVE  Begun(t, q)
  PROVE  ChargeInv'
<1>1. /\ db' = db /\ task'[t] = (IF todo = <<>> THEN Idle ELSE Running(op, todo, on)) /\ \A u \in Slot \ {t} : Kept(u)
      /\ task[t] = Idle
  BY DEF Launch, TasksFit, Kept, Busy
<1>2. ~Holds(task[t]) /\ ~Links(task[t])
  BY <1>1, IdleSpent, SpentIs
<1>3. AtGate(t) /\ Untouched(db, db')
  BY <1>1, SelfUntouched, UnmovedGate
<1>4. CASE todo = <<>>
  <2>1. Own(t)
    BY <1>1, <1>2, <1>4, IdleSpent, SpentOwn
  <2> QED
    BY <1>1, <1>3, <2>1, UntouchedRows, ChargeKept
<1>5. CASE todo # <<>>
  <2>1. PICK q : q = task'[t]
    OBVIOUS
  <2>2. q = Running(op, todo, on)
    BY <1>1, <1>5, <2>1
  <2>3. Starts(q, op, todo, on) /\ q.ext = None
    BY <2>2, RunningFresh, Zenon
  <2>4. Begun(t, q)
    BY <1>5, <2>1, <2>3, NextTask
  <2>5. Own(t)
    BY <1>1, <1>2, <2>1, <2>4 DEF Begun, Own, Hands
  <2> QED
    BY <1>1, <1>3, <2>5, UntouchedRows, ChargeKept
<1> QED
  BY <1>4, <1>5

LEMMA SpentBegun ==
  ASSUME NEW t, NEW q, Spent(q), ~Applies(q), IsTask(q)
  PROVE  Begun(t, q)
  BY LeftIs, SpentIs DEF Begun

LEMMA OtherCharges ==
  ASSUME Typed(db, asaas), TasksFit, TasksFit', ChargeInv, NEW t \in Slot, NEW op, NEW todo, NEW on, Launch(t, op, todo, on),
         Unmoved(asaas, asaas'), op \notin {"subscribe", "extCreated", "extDeleted"} \cup Upgrading
  PROVE  ChargeInv'
<1>1. ASSUME NEW q, IsTask(q), Starts(q, op, todo, on) PROVE Begun(t, q)
  <2>1. Spent(q) /\ ~Applies(q)
    BY <1>1 DEF Starts, Spent, Applies
  <2> QED
    BY <1>1, <2>1, SpentBegun
<1> QED
  BY <1>1, LaunchCharges

(* A handler that has a row to make, or a limit to set, is doing so.       *)
LEMMA MakesDoes ==
  ASSUME NEW r, IsTask(r), Makes(r)
  PROVE  Doing(r.todo, "newSub")
<1>1. PICK n \in Nat : n = Left(r)
  BY LeftIs
<1>2. n = Len(r.todo) /\ DOMAIN r.todo = 1 .. n
  BY <1>1, TaskLists DEF Left
<1>3. CASE Applies(r)
  <2>1. n >= 5
    BY <1>1, <1>3, OneOrOther DEF Makes, Replacing, Inserting
  <2>2. PICK k \in DOMAIN r.todo : n - k = 4
    <3>1. n - 4 \in DOMAIN r.todo /\ n - (n - 4) = 4
      BY <1>2, <2>1
    <3> QED
      BY <3>1
  <2>3. AtUpgrade(r.on, r.todo[k], 4, r.todo[Len(r.todo)])
    <3>1. At(r.op, r.on, r.todo[k], 4, r.todo[Len(r.todo)])
      BY <1>2, <2>2 DEF IsTask
    <3> QED
      BY <1>3, <3>1, AtOf DEF Applies
  <2>4. Is(r.todo[k], "newSub")
    BY <1>3, <2>3 DEF AtUpgrade, Applies, Is
  <2> QED
    BY <2>4 DEF Doing, Is
<1>4. CASE ~Applies(r)
  <2>1. SigningUp(r) /\ n >= 2
    BY <1>1, <1>4 DEF Makes, Replacing, Inserting
  <2>2. PICK k \in DOMAIN r.todo : n - k = 1
    <3>1. n - 1 \in DOMAIN r.todo /\ n - (n - 1) = 1
      BY <1>2, <2>1
    <3> QED
      BY <3>1
  <2>3. At(r.op, r.on, r.todo[k], 1, r.todo[Len(r.todo)])
    BY <1>2, <2>2 DEF IsTask
  <2>4. AtSubscribe(r.todo[k], 1)
    BY <2>1, <2>3, AtOf DEF SigningUp
  <2> QED
    BY <2>4 DEF AtSubscribe, Doing, Is
<1> QED
  BY <1>3, <1>4

LEMMA AppliesDoes ==
  ASSUME NEW r, IsTask(r), Applies(r)
  PROVE  Doing(r.todo, "limit")
<1>1. r.todo # <<>>
  BY IdleTask DEF IsTask, Applies, Upgrading
<1>2. Len(r.todo) \in DOMAIN r.todo
  BY <1>1, TaskLists, ListedTail
<1> QED
  BY <1>2 DEF Applies, Doing, Is

LEMMA SubscribeCharges ==
  ASSUME Typed(db, asaas), TasksFit, TasksFit', ChargeInv, ~SubscribedAgain, NEW t \in Slot, Subscribe(t)
  PROVE  ChargeInv'
<1>1. PICK todo : todo = <<CreateExtOrThrow, AddSub("PENDING", db.tenant.plan), SetTenant([status |-> "PENDING_PAYMENT"])>>
  OBVIOUS
<1>2. Launch(t, "subscribe", todo, None) /\ asaas' = asaas
  BY <1>1 DEF Subscribe, Ask
<1>3. Len(todo) = 3
  BY <1>1, Triple
<1>4. ASSUME NEW q, q = task'[t], IsTask(q), Starts(q, "subscribe", todo, None), q.ext = None PROVE Begun(t, q)
  <2>1. SigningUp(q) /\ Left(q) = 3 /\ ~Applies(q) /\ q.op = "subscribe"
    BY <1>3, <1>4, OneOrOther DEF Starts, SigningUp, Left
  <2>2. t \in Begins("subscribe")
    BY <1>2, <1>4, <2>1 DEF Begins, Launch
  <2>3. Live(db) = {} /\ \A u \in Slot : ~Doing(Todo(u), "newSub")
    BY <2>2 DEF SubscribedAgain, Live
  <2>4. ~Replacing(q) /\ ~Holds(q)
    BY <2>1 DEF Replacing, Holds, Links
  <2>5. Charges(q, db, asaas') /\ Announces(q, db, InFlight')
    BY <1>4, <2>1, <2>3, <2>4 DEF Charges, Clears, Vacant, Opened, Pairs, Follows, Announces
  <2>6. \A u \in Slot : ~Makes(task[u])
    BY <2>3, FitTask, MakesDoes DEF Todo
  <2> QED
    BY <2>1, <2>5, <2>6 DEF Begun
<1>5. Unmoved(asaas, asaas')
  BY <1>2, SelfUnmoved
<1> QED
  BY <1>2, <1>4, <1>5, LaunchCharges

LEMMA ReceiveUnmoved ==
  ASSUME Typed(db, asaas), NEW t, NEW m, NEW op, NEW todo, NEW on, Receive(t, m, op, todo, on)
  PROVE  Launch(t, op, todo, on) /\ asaas'.subs = asaas.subs /\ Unmoved(asaas, asaas') /\ m \in asaas.post
<1>1. asaas = [subs |-> asaas.subs, bills |-> asaas.bills, post |-> asaas.post]
  BY TypedLens
<1>2. PICK post : post = asaas.post \ {m}
  OBVIOUS
<1>3. PICK h : h = asaas'
  OBVIOUS
<1>4. h = [asaas EXCEPT !.post = post]
  BY <1>2, <1>3 DEF Receive
<1>5. h.subs = asaas.subs /\ h.post = post
  BY ONLY <1>1, <1>4
<1>6. \A l \in h.post : l \in asaas.post
  BY <1>2, <1>5
<1> QED
  BY <1>3, <1>5, <1>6 DEF Unmoved, Receive

(* An upgrade that is applied finds that no other one, and no signup, is   *)
(* making a row; and it ends the subscription of the row it replaces.      *)
LEMMA AppliedCharges ==
  ASSUME Typed(db, asaas), TasksFit, TasksFit', ChargeInv, ~UpgradedAgain, ~PlanRace, NEW t \in Slot, NEW op \in Upgrading,
         NEW todo, NEW i \in DOMAIN db.subs, Launch(t, op, todo, i), Unmoved(asaas, asaas'), Len(todo) \in {2, 6, 7, 8},
         Len(todo) = 2 => Is(todo[2], "charge"),
         db.subs[i].ext # None => \E k \in DOMAIN todo : Is(todo[k], "cancelExt") /\ todo[k].ext = db.subs[i].ext
  PROVE  ChargeInv'
<1>1. ASSUME NEW q, q = task'[t], IsTask(q), Starts(q, op, todo, i), q.ext = None PROVE Begun(t, q)
  <2>1. q.op \in Upgrading /\ q.todo = todo /\ q.on = i /\ q.op # "subscribe" /\ q.op # "extDeleted" /\ q.op # "extCreated"
    BY <1>1 DEF Starts, Upgrading
  <2>2. CASE ~Applies(q)
    <3>1. Spent(q)
      BY <2>1, <2>2 DEF Spent
    <3> QED
      BY <1>1, <2>2, <3>1, SpentBegun
  <2>3. CASE Applies(q)
    <3>1. Len(todo) \in {6, 7, 8}
      BY <2>1, <2>3 DEF Applies, Is
    <3>2. Left(q) \in {6, 7, 8}
      BY <2>1, <3>1 DEF Left
    <3>3. Replacing(q) /\ Makes(q) /\ ~Inserting(q) /\ ~Holds(q)
      BY <2>1, <2>3, <3>2 DEF Replacing, Makes, Inserting, Holds, Links, SigningUp
    <3>4. Doing(task'[t].todo, "newSub") /\ Doing(task'[t].todo, "limit")
      BY <1>1, <2>3, <3>3, MakesDoes, AppliesDoes
    <3>5. ~Busy(t) /\ Upgrades(t)
      BY <1>1, <2>1, <3>4 DEF Launch, Upgrades, Upgrading
    <3>6. i \in Live(db)
      BY <1>1, <2>1, <3>5 DEF UpgradedAgain, Current, Live
    <3>7. Live(db) \subseteq {i}
      BY <3>6 DEF ChargeInv
    <3>8. \A u \in Slot \ {t} : ~Applies(task[u])
      BY <3>4, <3>5, FitTask, AppliesDoes DEF PlanRace, Todo
    <3>9. \A u \in Slot \ {t} : ~Makes(task[u])
      <4> SUFFICES ASSUME NEW u \in Slot \ {t}, Makes(task[u]) PROVE FALSE
        OBVIOUS
      <4>1. Inserting(task[u])
        BY <3>8 DEF Makes, Replacing
      <4> QED
        BY <3>6, <4>1 DEF ChargeInv, Charges, Vacant
    <3>10. Finished(db.subs[i].ext, q, asaas')
      BY <2>1 DEF Finished, Closes
    <3>11. Charges(q, db, asaas')
      BY <1>1, <2>1, <3>2, <3>3, <3>7, <3>10 DEF Charges, Clears, Vacant, Opened, Pairs, Follows
    <3>12. Announces(q, db, InFlight')
      BY <2>1 DEF Announces
    <3> QED
      BY <3>8, <3>9, <3>11, <3>12 DEF Begun
  <2> QED
    BY <2>2, <2>3
<1> QED
  BY <1>1, LaunchCharges

(* The list ends the subscription x of the gateway.                        *)
EndsExt(s, x) == \E k \in DOMAIN s : Is(s[k], "cancelExt") /\ s[k].ext = x

LEMMA EndsFirst ==
  ASSUME NEW a, NEW x, Is(a, "cancelExt"), a.ext = x, NEW s, Listed(s), NEW r, r = <<a>> \o s
  PROVE  EndsExt(r, x)
<1>1. PICK q : q = <<a>>
  OBVIOUS
<1>2. q \in Seq({a}) /\ Len(q) = 1 /\ q[1] = a
  BY <1>1
<1>3. Listed(q)
  BY <1>2, ListedIn
<1>4. r = q \o s
  BY <1>1
<1>5. DOMAIN r = 1 .. Len(q) + Len(s) /\ Len(s) \in Nat /\ \A k \in 1 .. Len(q) : r[k] = q[k]
  BY <1>3, <1>4, Joined
<1>6. 1 \in DOMAIN r /\ r[1] = a
  BY <1>2, <1>5
<1> QED
  BY <1>6 DEF EndsExt

LEMMA EndsLater ==
  ASSUME NEW a, NEW x, NEW s, Listed(s), EndsExt(s, x), NEW r, r = <<a>> \o s
  PROVE  EndsExt(r, x)
<1>1. PICK q : q = <<a>>
  OBVIOUS
<1>2. q \in Seq({a}) /\ Len(q) = 1 /\ q[1] = a
  BY <1>1
<1>3. Listed(q)
  BY <1>2, ListedIn
<1>4. r = q \o s
  BY <1>1
<1>5. /\ DOMAIN r = 1 .. Len(q) + Len(s) /\ Len(s) \in Nat /\ DOMAIN s = 1 .. Len(s)
      /\ \A k \in 1 .. Len(s) : r[Len(q) + k] = s[k]
  BY <1>3, <1>4, Joined
<1>6. PICK k \in DOMAIN s : Is(s[k], "cancelExt") /\ s[k].ext = x
  BY DEF EndsExt
<1>7. Len(q) + k \in DOMAIN r /\ r[Len(q) + k] = s[k]
  BY <1>2, <1>5, <1>6
<1> QED
  BY <1>6, <1>7 DEF EndsExt

LEMMA EndsEarlier ==
  ASSUME NEW x, NEW s, Listed(s), EndsExt(s, x), NEW b, Listed(b), NEW r, r = s \o b
  PROVE  EndsExt(r, x)
<1>1. /\ DOMAIN r = 1 .. Len(s) + Len(b) /\ Len(s) \in Nat /\ Len(b) \in Nat /\ DOMAIN s = 1 .. Len(s)
      /\ \A k \in 1 .. Len(s) : r[k] = s[k]
  BY Joined
<1>2. PICK k \in DOMAIN s : Is(s[k], "cancelExt") /\ s[k].ext = x
  BY DEF EndsExt
<1>3. k \in DOMAIN r /\ r[k] = s[k]
  BY <1>1, <1>2
<1> QED
  BY <1>2, <1>3 DEF EndsExt

(* applyUpgrade ends the subscription of the row at the gateway.           *)
LEMMA ApplyUpgradeEnds ==
  ASSUME NEW i, NEW plan, NEW u, u = ApplyUpgrade(i, plan), db.subs[i].ext # None
  PROVE  EndsExt(u, db.subs[i].ext)
<1>1. PICK a : a = SetSub(i, [status |-> "CANCELLED", pending |-> None, due |-> FALSE])
  OBVIOUS
<1>2. PICK b : b = AddSub("ACTIVE", plan)
  OBVIOUS
<1>3. PICK c : c = CreateExt
  OBVIOUS
<1>4. PICK e : e = LinkNew
  OBVIOUS
<1>5. PICK f : f = <<a, b, c, e>>
  OBVIOUS
<1>6. PICK w : w = CancelExt(db.subs[i].ext)
  OBVIOUS
<1>7. PICK h : h = <<w>> \o f
  OBVIOUS
<1>8. PICK v : v = MovePlan(plan)
  OBVIOUS
<1>9. u = h \o v
  BY <1>1, <1>2, <1>3, <1>4, <1>5, <1>6, <1>7, <1>8 DEF ApplyUpgrade
<1>10. Is(w, "cancelExt") /\ w.ext = db.subs[i].ext
  BY <1>6 DEF CancelExt, Is
<1>11. Listed(f)
  BY <1>5, Four
<1>12. EndsExt(h, db.subs[i].ext)
  BY <1>7, <1>10, <1>11, EndsFirst
<1>13. Listed(h)
  <2>1. PICK q : q = <<w>>
    OBVIOUS
  <2>2. q \in Seq({w})
    BY <2>1
  <2>3. Listed(q) /\ h = q \o f
    BY <1>7, <2>1, <2>2, ListedIn
  <2> QED
    BY <1>11, <2>3, Joined
<1>14. Listed(v)
  BY <1>8, Pair DEF MovePlan
<1> QED
  BY <1>9, <1>12, <1>13, <1>14, EndsEarlier

LEMMA UpgradeCharges ==
  ASSUME Typed(db, asaas), TasksFit, TasksFit', ChargeInv, ~UpgradedAgain, ~PlanRace, NEW t \in Slot,
         NEW plan \in Plan, NEW covered \in Covered, Upgrade(t, plan, covered)
  PROVE  ChargeInv'
<1>0. PICK i : i = Latest(Current)
  OBVIOUS
<1>1. i \in DOMAIN db.subs
  BY <1>0, LatestIn, CurrentSubs DEF Upgrade
<1>2. PICK op : op = "upgrade"
  OBVIOUS
<1>3. op \in Upgrading
  BY <1>2 DEF Upgrading
<1>4. PICK a : a = SetSub(i, [pending |-> plan, due |-> TRUE])
  OBVIOUS
<1>5. PICK c : c = Charge("upgrade", i, plan)
  OBVIOUS
<1>6. PICK s : s = IF covered THEN ApplyUpgrade(i, plan) ELSE <<c>>
  OBVIOUS
<1>7. PICK r : r = <<a>> \o s
  OBVIOUS
<1>8. Ask(t, op, r, i)
  BY <1>0, <1>2, <1>4, <1>5, <1>6, <1>7, Zenon DEF Upgrade
<1>9. Launch(t, op, r, i) /\ asaas' = asaas
  BY <1>8 DEF Ask
<1>10. Unmoved(asaas, asaas')
  BY <1>9, SelfUnmoved
<1>11. CASE covered
  <2>1. PICK n \in {6, 7} : Ending(op, i, s, n, SetLimit(plan), db, asaas)
    BY <1>11, <1>1, <1>3, <1>6, ApplyUpgradeFits
  <2>2. Listed(s) /\ Len(s) \in {6, 7}
    BY <2>1 DEF Ending, Fitting
  <2>3. PICK q : q = <<a>>
    OBVIOUS
  <2>4. q \in Seq({a}) /\ Len(q) = 1 /\ r = q \o s
    BY <1>7, <2>3
  <2>5. Listed(q)
    BY <2>4, ListedIn
  <2>6. Len(r) = Len(q) + Len(s)
    BY <2>2, <2>4, <2>5, Joined
  <2>7. Len(r) \in {7, 8}
    <3>1. PICK k \in {6, 7} : Len(s) = k
      BY <2>2
    <3>2. Len(r) = 1 + k
      BY <2>4, <2>6, <3>1
    <3> QED
      BY <3>1, <3>2
  <2>8. db.subs[i].ext # None => EndsExt(r, db.subs[i].ext)
    BY <1>6, <1>7, <1>11, <2>2, ApplyUpgradeEnds, EndsLater
  <2>9. Len(r) \in {2, 6, 7, 8} /\ Len(r) # 2
    BY <2>7
  <2>10. db.subs[i].ext # None => \E k \in DOMAIN r : Is(r[k], "cancelExt") /\ r[k].ext = db.subs[i].ext
    BY <2>8 DEF EndsExt
  <2> QED
    BY <1>1, <1>3, <1>9, <1>10, <2>9, <2>10, AppliedCharges
<1>12. CASE ~covered
  <2>1. PICK b : b = <<a>>
    OBVIOUS
  <2>p. b \in Seq({a}) /\ Len(b) = 1 /\ r = b \o s
    BY <1>7, <2>1
  <2>s. s \in Seq({c}) /\ Len(s) = 1 /\ s[1] = c
    BY <1>6, <1>12
  <2>l. Listed(b) /\ Listed(s)
    BY <2>p, <2>s, ListedIn
  <2>r. r = b \o s
    BY <2>p
  <2>j. Len(r) = Len(b) + Len(s) /\ \A k \in 1 .. Len(s) : r[Len(b) + k] = s[k]
    BY ONLY <2>r, <2>l, Joined
  <2>2. Len(r) = 2 /\ r[2] = c
    <3>1. Len(r) = 1 + 1 /\ r[1 + 1] = s[1]
      BY <2>p, <2>s, <2>j
    <3>2. 1 + 1 = 2
      OBVIOUS
    <3> QED
      BY <2>s, <3>1, <3>2
  <2>3. Is(r[2], "charge")
    BY <1>5, <2>2 DEF Charge, Is
  <2>4. \A q : Starts(q, op, r, i) => ~Applies(q)
    BY <2>2, <2>3 DEF Starts, Applies, Is
  <2>5. ASSUME NEW q, IsTask(q), Starts(q, op, r, i) PROVE Begun(t, q)
    <3>1. q.op = "upgrade" /\ ~Applies(q)
      BY <1>2, <2>4, <2>5 DEF Starts
    <3>2. Spent(q)
      BY <3>1 DEF Spent
    <3> QED
      BY <2>5, <3>1, <3>2, SpentBegun
  <2> QED
    BY <1>9, <1>10, <2>5, LaunchCharges
<1> QED
  BY <1>11, <1>12

LEMMA UpgradePaidCharges ==
  ASSUME Typed(db, asaas), TasksFit, TasksFit', ChargeInv, ~UpgradedAgain, ~PlanRace, NEW t \in Slot,
         NEW m \in asaas.post, UpgradePaid(t, m)
  PROVE  ChargeInv'
<1>0. PICK i : i = BillOf(m).of
  OBVIOUS
<1>1. PICK plan : plan = BillOf(m).plan
  OBVIOUS
<1>2. i \in DOMAIN db.subs /\ plan \in Plan
  <2>1. m.event \in OfPayment /\ BillOf(m).for = "upgrade"
    BY DEF UpgradePaid, Paid, OfPayment
  <2>2. m.of \in DOMAIN asaas.bills
    BY <2>1 DEF Typed, MessageTyped
  <2> QED
    BY <2>1, <2>2, <1>0, <1>1 DEF Typed, BillTyped, BillOf
<1>3. PICK op : op = "upgradePaid"
  OBVIOUS
<1>4. op \in Upgrading
  BY <1>3 DEF Upgrading
<1>5. PICK r : r = ApplyUpgrade(i, plan)
  OBVIOUS
<1>6. Receive(t, m, op, r, i)
  BY <1>0, <1>1, <1>3, <1>5, Zenon DEF UpgradePaid
<1>7. Launch(t, op, r, i) /\ Unmoved(asaas, asaas')
  BY <1>6, ReceiveUnmoved
<1>8. PICK n \in {6, 7} : Ending(op, i, r, n, SetLimit(plan), db, asaas)
  BY <1>2, <1>4, <1>5, ApplyUpgradeFits
<1>9. Len(r) \in {2, 6, 7, 8} /\ Len(r) # 2
  BY <1>8 DEF Ending
<1>10. db.subs[i].ext # None => \E k \in DOMAIN r : Is(r[k], "cancelExt") /\ r[k].ext = db.subs[i].ext
  BY <1>5, ApplyUpgradeEnds DEF EndsExt
<1> QED
  BY <1>2, <1>4, <1>7, <1>9, <1>10, AppliedCharges

(* The webhook of the end of a subscription comes once it has ended.       *)
LEMMA ExtDeletedCharges ==
  ASSUME Typed(db, asaas), TasksFit, TasksFit', ChargeInv, NEW t \in Slot, NEW m \in asaas.post, ExtDeleted(t, m)
  PROVE  ChargeInv'
<1>1. Over(m.of, asaas)
  BY DEF ExtDeleted, ChargeInv
<1>2. PICK todo, on : /\ Receive(t, m, "extDeleted", todo, on)
                      /\ todo = <<>> \/ on \in Linked(m.of)
  BY DEF ExtDeleted
<1>3. Launch(t, "extDeleted", todo, on) /\ Unmoved(asaas, asaas') /\ asaas'.subs = asaas.subs
  BY <1>2, ReceiveUnmoved
<1>4. ASSUME NEW q, IsTask(q), Starts(q, "extDeleted", todo, on), todo # <<>> PROVE Begun(t, q)
  <2>1. on \in DOMAIN db.subs /\ Over(db.subs[on].ext, asaas')
    BY <1>1, <1>2, <1>3, <1>4 DEF Linked, Over
  <2>2. q.op = "extDeleted" /\ q.on = on /\ ~Applies(q)
    BY <1>4 DEF Starts, Applies, Upgrading
  <2>3. Charges(q, db, asaas') /\ Announces(q, db, InFlight') /\ ~Makes(q)
    BY <2>1, <2>2 DEF Charges, Clears, Vacant, Opened, Pairs, Follows, Announces, Replacing, Inserting, Makes, Holds, Links,
       Unopened, SigningUp
  <2> QED
    BY <2>2, <2>3 DEF Begun
<1> QED
  BY <1>3, <1>4, LaunchCharges

(* A handler that has a link to make, and knows the subscription, is about *)
(* to make it.                                                             *)
LEMMA LinkIsNext ==
  ASSUME TasksFit, ChargeInv, NEW u \in Slot, Doing(Todo(u), "link"), NEW i, NEW x, task[u].row = i, task[u].ext = x, x # None
  PROVE  Linking(task[u], i, x) /\ task[u] # Idle
<1>1. PICK r : r = task[u]
  OBVIOUS
<1>2. IsTask(r) /\ Opened(r)
  BY <1>1, FitTask DEF ChargeInv, Charges
<1>3. PICK k \in DOMAIN r.todo : Is(r.todo[k], "link")
  BY <1>1 DEF Doing, Todo, Is
<1>4. PICK n \in Nat : n = Left(r)
  BY <1>2, LeftIs
<1>5. n = Len(r.todo) /\ DOMAIN r.todo = 1 .. n
  BY <1>2, <1>4, TaskLists DEF Left
<1>6. At(r.op, r.on, r.todo[k], n - k, r.todo[n])
  BY <1>2, <1>5 DEF IsTask
<1>e. n - k \in Nat
  BY <1>5
<1>7. r.op \in Upgrading /\ n - k = 2 /\ Is(r.todo[n], "limit")
  BY <1>e, <1>3, <1>6, AtLink
<1>8. Applies(r) /\ n >= 3
  <2>1. n >= 3
    BY <1>5, <1>7
  <2> QED
    BY <2>1, <1>5, <1>7 DEF Applies
<1>9. ~(n >= 4)
  BY <1>1, <1>2, <1>4, <1>8 DEF Opened, Unopened
<1>10. n = 3
  BY <1>8, <1>9
<1> QED
  BY <1>1, <1>4, <1>8, <1>10, IdleSpent DEF Linking, Links

(* The webhook of a new subscription comes while the upgrade that has      *)
(* opened it is about to link it.                                          *)
LEMMA ExtCreatedCharges ==
  ASSUME Typed(db, asaas), TasksFit, TasksFit', ChargeInv, ~Mislinked, NEW t \in Slot, NEW m \in asaas.post, ExtCreated(t, m)
  PROVE  ChargeInv'
<1>1. PICK unlinked : unlinked = {i \in DOMAIN db.subs : db.subs[i].ext = None}
  OBVIOUS
<1>2. PICK j : j = Latest(unlinked)
  OBVIOUS
<1>3. PICK w : w = SetSub(j, [ext |-> m.of])
  OBVIOUS
<1>4. PICK todo : todo = IF unlinked = {} THEN <<>> ELSE <<w>>
  OBVIOUS
<1>5. Receive(t, m, "extCreated", todo, None) /\ m.event = "SUBSCRIPTION_CREATED"
  BY <1>1, <1>2, <1>3, <1>4, Zenon DEF ExtCreated
<1>6. Launch(t, "extCreated", todo, None) /\ Unmoved(asaas, asaas')
  BY <1>5, ReceiveUnmoved
<1>7. m.of # None
  <2>1. m.of \in DOMAIN asaas.subs
    BY <1>5 DEF Typed, MessageTyped, OfSubscription
  <2> QED
    BY <2>1, TypedLens DEF None
<1>8. w.i = j /\ w.set = [ext |-> m.of] /\ w.set.ext = m.of
  BY <1>3 DEF SetSub
<1>9. ASSUME NEW q, q = task'[t], IsTask(q), Starts(q, "extCreated", todo, None), q.ext = None, todo # <<>> PROVE Begun(t, q)
  <2>1. unlinked # {} /\ todo = <<w>>
    BY <1>4, <1>9
  <2>2. j \in DOMAIN db.subs
    BY <1>1, <1>2, <2>1, LatestIn
  <2>3. q.op = "extCreated" /\ q.todo = <<w>>
    BY <1>9, <2>1 DEF Starts
  <2>4. q.todo[1] = w /\ Head(q.todo) = w
    BY <2>3
  <2>5. t \in Begins("extCreated")
    BY <1>6, <1>9, <2>3 DEF Begins, Launch
  <2>6. PICK u \in Slot : Doing(Todo(u), "link") /\ task[u].row = w.i /\ task[u].ext = w.set.ext
    BY <1>9, <2>4, <2>5 DEF Mislinked
  <2>7. Linking(task[u], j, m.of) /\ task[u] # Idle
    BY <1>7, <1>8, <2>6, LinkIsNext
  <2>8. task'[u] = task[u]
    BY <1>6, <2>7 DEF Launch, Busy, TasksFit
  <2>9. Slot' = Slot
    BY DEF Slot, Cron
  <2>10. \E p \in InFlight' : Linking(p, w.i, w.set.ext)
    BY <1>8, <2>7, <2>8, <2>9 DEF InFlight
  <2>11. Announces(q, db, InFlight')
    BY <1>7, <1>8, <2>2, <2>4, <2>10 DEF Announces
  <2>12. ~Applies(q) /\ Charges(q, db, asaas') /\ ~Makes(q)
    BY <2>3 DEF Charges, Clears, Vacant, Opened, Pairs, Follows, Replacing, Inserting, Makes, Holds, Links, Unopened, SigningUp,
       Applies, Upgrading
  <2> QED
    BY <2>11, <2>12 DEF Begun
<1> QED
  BY <1>6, <1>9, LaunchCharges

LEMMA HandleCharges ==
  ASSUME Typed(db, asaas), TasksFit, TasksFit', ChargeInv, ~UpgradedAgain, ~PlanRace, ~SubscribedAgain, ~Mislinked,
         NEW t \in Slot, Handle(t)
  PROVE  ChargeInv'
<1>1. CASE Subscribe(t)
  BY <1>1, SubscribeCharges
<1>2. CASE \E plan \in Plan, covered \in Covered : Upgrade(t, plan, covered)
  BY <1>2, UpgradeCharges
<1>3. CASE \E m \in asaas.post : UpgradePaid(t, m)
  BY <1>3, UpgradePaidCharges
<1>4. CASE \E m \in asaas.post : ExtCreated(t, m)
  BY <1>4, ExtCreatedCharges
<1>5. CASE \E m \in asaas.post : ExtDeleted(t, m)
  BY <1>5, ExtDeletedCharges
<1>6. ASSUME NEW todo, NEW on, NEW op \in {"downgrade", "cancelDowngrade", "buyAddOn"}, Ask(t, op, todo, on)
      PROVE  ChargeInv'
  <2>1. Launch(t, op, todo, on) /\ asaas' = asaas
    BY <1>6 DEF Ask
  <2>2. Unmoved(asaas, asaas')
    BY <2>1, SelfUnmoved
  <2> QED
    BY <2>1, <2>2, OtherCharges DEF Upgrading
<1>7. ASSUME NEW m, NEW todo, NEW on, NEW op \in {"addOnPaid", "cyclePaid", "cycleOverdue"}, Receive(t, m, op, todo, on)
      PROVE  ChargeInv'
  <2>1. Launch(t, op, todo, on) /\ Unmoved(asaas, asaas')
    BY <1>7, ReceiveUnmoved
  <2> QED
    BY <2>1, OtherCharges DEF Upgrading
<1>8. CASE \E plan \in Plan : Downgrade(t, plan)
  BY <1>6, <1>8 DEF Downgrade
<1>9. CASE \E i \in DOMAIN db.subs : CancelDowngrade(t, i)
  BY <1>6, <1>9 DEF CancelDowngrade
<1>10. CASE \E i \in DOMAIN db.subs, free \in BOOLEAN : BuyAddOn(t, i, free)
  BY <1>6, <1>10 DEF BuyAddOn
<1>11. CASE \E m \in asaas.post : AddOnPaid(t, m)
  BY <1>7, <1>11 DEF AddOnPaid
<1>12. CASE \E m \in asaas.post : CyclePaid(t, m)
  BY <1>7, <1>12 DEF CyclePaid
<1>13. CASE \E m \in asaas.post : CycleOverdue(t, m)
  BY <1>7, <1>13 DEF CycleOverdue
<1> QED
  BY <1>1, <1>2, <1>3, <1>4, <1>5, <1>8, <1>9, <1>10, <1>11, <1>12, <1>13 DEF Handle

LEMMA JobCharges ==
  ASSUME Typed(db, asaas), TasksFit, TasksFit', ChargeInv, CheckOverdue \/ ApplyPending \/ ExpireAddOns
  PROVE  ChargeInv'
<1>1. \E op \in Cron : \E todo : Launch(op, op, todo, None) /\ asaas' = asaas
  BY DEF CheckOverdue, ApplyPending, ExpireAddOns, Job, Cron
<1>2. \A op \in Cron : op \in Slot /\ op \notin {"subscribe", "extCreated", "extDeleted"} \cup Upgrading
  BY DEF Slot, Cron, Upgrading
<1>3. asaas' = asaas => Unmoved(asaas, asaas')
  BY SelfUnmoved
<1> QED
  BY <1>1, <1>2, <1>3, OtherCharges

----------------------------------------------------------------------------
(* The gateway and the days.                                               *)

LEMMA IdlyCharges ==
  ASSUME Typed(db, asaas), TasksFit, ChargeInv, task' = task, Rows, \A t \in Slot : Lives(t) /\ AtGate(t)
  PROVE  ChargeInv'
<1>0. \A u \in Slot : Kept(u) /\ Hands(task[u], task'[u], db', asaas')
  BY DEF Kept, Hands, Linking
<1>1. PICK t \in Slot : t = "expireAddOnPurchases"
  BY DEF Slot, Cron
<1>2. PICK s \in Slot : s # t
  <2>1. "checkOverdueSubscriptions" \in Slot /\ "checkOverdueSubscriptions" # "expireAddOnPurchases"
    BY DEF Slot, Cron
  <2> QED
    BY <1>1, <2>1
<1>3. Charges(task'[t], db', asaas')
  BY <1>0, <1>2, OthersCharge
<1>4. Announces(task'[t], db', InFlight')
  BY <1>0, <1>2, OthersAnnounce
<1>5. /\ Applies(task'[t]) => \A u \in Slot \ {t} : ~Applies(task[u])
      /\ Makes(task'[t]) => \A u \in Slot \ {t} : ~Makes(task[u])
  BY DEF ChargeInv
<1>6. Own(t)
  BY <1>0, <1>3, <1>4, <1>5 DEF Own
<1> QED
  BY <1>0, <1>6, ChargeKept

LEMMA StillCharges ==
  ASSUME Typed(db, asaas), TasksFit, ChargeInv, task' = task, Untouched(db, db'), Unmoved(asaas, asaas')
  PROVE  ChargeInv'
<1>1. "expireAddOnPurchases" \in Slot
  BY DEF Slot, Cron
<1>2. Rows
  BY <1>1, UntouchedRows
<1>3. \A t \in Slot : Lives(t) /\ AtGate(t)
  BY UntouchedRows, UnmovedGate
<1> QED
  BY <1>2, <1>3, IdlyCharges

LEMMA SameRowUntouched ==
  ASSUME Typed(db, asaas), NEW i \in DOMAIN db.subs, NEW row, row.status = db.subs[i].status, row.ext = db.subs[i].ext,
         db' = [db EXCEPT !.subs[i] = row]
  PROVE  Untouched(db, db')
<1>1. db = [subs |-> db.subs, tenant |-> db.tenant, companies |-> db.companies, purchases |-> db.purchases]
  BY TypedLens
<1>2. PICK subs : subs = [db.subs EXCEPT ![i] = row]
  OBVIOUS
<1>3. db'.subs = subs
  BY <1>1, <1>2
<1>4. /\ DOMAIN subs = DOMAIN db.subs
      /\ \A j \in DOMAIN db.subs : subs[j].status = db.subs[j].status /\ subs[j].ext = db.subs[j].ext
  BY <1>2
<1> QED
  BY <1>3, <1>4 DEF Untouched, Live

LEMMA TimeCharges ==
  ASSUME Typed(db, asaas), TasksFit, ChargeInv, Time
  PROVE  ChargeInv'
<1>0. task' = task /\ Unmoved(asaas, asaas')
  BY SelfUnmoved DEF Time
<1>1. CASE \E i \in DOMAIN db.subs : GraceEnds(i)
  <2>1. PICK i \in DOMAIN db.subs : db' = [db EXCEPT !.subs[i].overdue = "late"]
    BY <1>1 DEF GraceEnds
  <2>2. db.subs[i] \in SubRow
    BY TypedLens, ElementOfSeq
  <2>3. PICK row : row = [db.subs[i] EXCEPT !.overdue = "late"]
    OBVIOUS
  <2>4. row.status = db.subs[i].status /\ row.ext = db.subs[i].ext
    BY <2>2, <2>3 DEF SubRow
  <2>5. db' = [db EXCEPT !.subs[i] = row]
    BY ONLY <2>1, <2>3, Zenon
  <2> QED
    BY <1>0, <2>4, <2>5, SameRowUntouched, StillCharges
<1>2. CASE \E i \in DOMAIN db.subs : db' = [db EXCEPT !.subs[i].due = TRUE]
  <2>1. PICK i \in DOMAIN db.subs : db' = [db EXCEPT !.subs[i].due = TRUE]
    BY <1>2
  <2>2. db.subs[i] \in SubRow
    BY TypedLens, ElementOfSeq
  <2>3. PICK row : row = [db.subs[i] EXCEPT !.due = TRUE]
    OBVIOUS
  <2>4. row.status = db.subs[i].status /\ row.ext = db.subs[i].ext
    BY <2>2, <2>3 DEF SubRow
  <2>5. db' = [db EXCEPT !.subs[i] = row]
    BY ONLY <2>1, <2>3, Zenon
  <2> QED
    BY <1>0, <2>4, <2>5, SameRowUntouched, StillCharges
<1>3. CASE \E p \in PaidAddOns : db' = [db EXCEPT !.purchases[p].due = TRUE]
  <2>1. PICK p : db' = [db EXCEPT !.purchases[p].due = TRUE]
    BY <1>3
  <2>2. PICK purchases : purchases = [db.purchases EXCEPT ![p].due = TRUE]
    OBVIOUS
  <2>3. db' = [db EXCEPT !.purchases = purchases]
    BY ONLY <2>1, <2>2, Zenon
  <2>4. db'.subs = db.subs
    BY <2>3, Unwritten
  <2> QED
    BY <1>0, <2>4, SelfUntouched, StillCharges
<1> QED
  BY <1>1, <1>2, <1>3 DEF Time

(* The gateway charges, or ends, a subscription.                           *)
LEMMA BillsMoved ==
  ASSUME Typed(db, asaas), NEW b, NEW status, NEW E, E \subseteq OfPayment,
         asaas' = [asaas EXCEPT !.bills[b].status = status, !.post = @ \cup {Message(e, b) : e \in E}]
  PROVE  Unmoved(asaas, asaas')
<1>1. PICK h : h = asaas'
  OBVIOUS
<1>2. PICK M : M = {Message(e, b) : e \in E}
  OBVIOUS
<1>3. h = [asaas EXCEPT !.bills[b].status = status, !.post = @ \cup M]
  BY <1>1, <1>2
<1>4. PICK bill : bill = [asaas.bills[b] EXCEPT !.status = status]
  OBVIOUS
<1>5. PICK bills : bills = [asaas.bills EXCEPT ![b] = bill]
  OBVIOUS
<1>6. h = [asaas EXCEPT !.bills = bills, !.post = @ \cup M]
  BY ONLY <1>3, <1>4, <1>5, Zenon
<1>7. h = [subs |-> asaas.subs, bills |-> bills, post |-> asaas.post \cup M]
  BY ONLY Typed(db, asaas), <1>6, BilledFields, Zenon
<1>8. h.subs = asaas.subs /\ h.post = asaas.post \cup M
  BY ONLY <1>7
<1>9. \A m \in M : m.event # "SUBSCRIPTION_DELETED"
  BY <1>2 DEF Message, OfPayment
<1> QED
  BY <1>1, <1>8, <1>9 DEF Unmoved

LEMMA GatewayCharges ==
  ASSUME Typed(db, asaas), TasksFit, ChargeInv, Gateway
  PROVE  ChargeInv'
<1>0. task' = task /\ Untouched(db, db')
  BY SelfUntouched DEF Gateway
<1>1. CASE \E x \in DOMAIN asaas.subs : BillCycle(x)
  <2>1. PICK x : asaas' = [asaas EXCEPT !.bills = Append(@, Bill("cycle", x, None))]
    BY <1>1 DEF BillCycle
  <2>2. PICK bills : bills = Append(asaas.bills, Bill("cycle", x, None))
    OBVIOUS
  <2>3. PICK h : h = asaas'
    OBVIOUS
  <2>4. h = [asaas EXCEPT !.bills = bills]
    BY ONLY <2>1, <2>2, <2>3, Zenon
  <2>5. asaas = [subs |-> asaas.subs, bills |-> asaas.bills, post |-> asaas.post]
    BY TypedLens
  <2>6. h.subs = asaas.subs /\ h.post = asaas.post
    BY ONLY <2>4, <2>5
  <2> QED
    BY <1>0, <2>3, <2>6, StillCharges DEF Unmoved
<1>2. CASE \E x \in DOMAIN asaas.subs : EndExt(x)
  <2>1. PICK x \in DOMAIN asaas.subs :
               asaas' = [asaas EXCEPT !.subs[x] = FALSE, !.post = @ \cup {Message("SUBSCRIPTION_DELETED", x)}]
    BY <1>2 DEF EndExt
  <2>2. /\ \A y : Over(y, asaas) => Over(y, asaas')
        /\ \A y : Charged(y, asaas') => Charged(y, asaas)
        /\ \A m \in asaas'.post : m.event = "SUBSCRIPTION_DELETED" => Over(m.of, asaas')
    BY <2>1, EndedGate
  <2>3. "expireAddOnPurchases" \in Slot
    BY DEF Slot, Cron
  <2>4. Rows /\ \A t \in Slot : Lives(t) /\ AtGate(t)
    BY <1>0, <2>2, <2>3, UntouchedRows DEF AtGate
  <2> QED
    BY <1>0, <2>4, IdlyCharges
<1>3. ASSUME NEW b \in DOMAIN asaas.bills, NEW events \in {{"PAYMENT_RECEIVED"}, {"PAYMENT_CONFIRMED", "PAYMENT_RECEIVED"}},
             PayBill(b, events)
      PROVE  ChargeInv'
  <2>1. events \subseteq OfPayment
    BY DEF OfPayment
  <2>2. Unmoved(asaas, asaas')
    BY <1>3, <2>1, BillsMoved DEF PayBill
  <2> QED
    BY <1>0, <2>2, StillCharges
<1>4. ASSUME NEW b \in DOMAIN asaas.bills, MissBill(b) PROVE ChargeInv'
  <2>1. PICK E : E = {"PAYMENT_OVERDUE"}
    OBVIOUS
  <2>2. E \subseteq OfPayment /\ {Message(e, b) : e \in E} = {Message("PAYMENT_OVERDUE", b)}
    BY <2>1 DEF OfPayment
  <2>3. asaas' = [asaas EXCEPT !.bills[b].status = "missed", !.post = @ \cup {Message("PAYMENT_OVERDUE", b)}]
    BY <1>4 DEF MissBill
  <2>4. asaas' = [asaas EXCEPT !.bills[b].status = "missed", !.post = @ \cup {Message(e, b) : e \in E}]
    BY <2>2, <2>3
  <2>5. Unmoved(asaas, asaas')
    BY <2>2, <2>4, BillsMoved
  <2> QED
    BY <1>0, <2>5, StillCharges
<1> QED
  BY <1>1, <1>2, <1>3, <1>4 DEF Gateway

----------------------------------------------------------------------------
(* The invariant.                                                          *)

LEMMA NoSlips ==
  ASSUME Slip = {}
  PROVE  ~Revived /\ ~UpgradedAgain /\ ~PlanRace /\ ~SubscribedAgain /\ ~Mislinked
  BY DEF Slip

LEMMA InitCharges == Init => ChargeInv
<1> SUFFICES ASSUME Init PROVE ChargeInv
  OBVIOUS
<1>1. PICK s \in FirstStates : db = s.db /\ asaas = s.asaas
  BY DEF Init
<1>2. Sound(db, asaas)
  BY <1>1, FirstStatesAssumption
<1>3. Typed(db, asaas)
  BY <1>2 DEF Sound
<1>4. \A i, j \in Live(db) : i = j
  BY <1>2 DEF Sound, Live
<1>5. \A t \in Slot : task[t] = Idle
  BY DEF Init
<1>6. \A t \in Slot : /\ Charges(task[t], db, asaas) /\ Announces(task[t], db, InFlight)
                      /\ ~Applies(task[t]) /\ ~Makes(task[t])
  BY <1>5, IdleSpent, SpentIs
<1>7. ASSUME NEW x, Charged(x, asaas) PROVE Billed(x, db, InFlight)
  BY <1>2, <1>7 DEF Sound, Charged, Billed, Live
<1>8. ASSUME NEW m \in asaas.post, m.event = "SUBSCRIPTION_DELETED" PROVE Over(m.of, asaas)
  <2>1. m.of \in DOMAIN asaas.subs
    BY <1>3, <1>8 DEF Typed, MessageTyped, OfSubscription
  <2> QED
    BY <1>2, <1>8, <2>1 DEF Sound, Over
<1> QED
  BY <1>4, <1>6, <1>7, <1>8 DEF ChargeInv

OnceInv == TypeInv /\ (slips = {} => ChargeInv)

LEMMA NextCharges == OnceInv /\ [Next]_billingVars => OnceInv'
<1> SUFFICES ASSUME OnceInv, [Next]_billingVars PROVE OnceInv'
  OBVIOUS
<1>0. TypeInv /\ TypeInv' /\ Typed(db, asaas) /\ (slips = {} => TasksFit /\ ChargeInv)
  BY NextTyped DEF OnceInv, TypeInv
<1>1. SUFFICES ASSUME slips' = {} PROVE ChargeInv'
  BY <1>0 DEF OnceInv
<1>2. TasksFit'
  BY <1>0, <1>1 DEF TypeInv
<1>3. CASE UNCHANGED billingVars
  <2>1. db' = db /\ task' = task /\ asaas' = asaas /\ slips = {}
    BY <1>1, <1>3 DEF billingVars, vars
  <2> QED
    BY <2>1, <1>0, SelfUntouched, SelfUnmoved, StillCharges
<1>4. ASSUME NEW t \in Request, Go(Handle(t)) PROVE ChargeInv'
  <2>1. slips = {} /\ Handle(t) /\ Slip = {} /\ t \in Slot
    BY <1>1, <1>4 DEF Go, Slot
  <2> QED
    BY <2>1, <1>0, <1>2, NoSlips, HandleCharges
<1>5. CASE Go(CheckOverdue) \/ Go(ApplyPending) \/ Go(ExpireAddOns)
  BY <1>0, <1>2, <1>5, JobCharges DEF Go
<1>6. ASSUME NEW t \in Slot, Go(Step(t)) PROVE ChargeInv'
  <2>1. slips = {} /\ Step(t) /\ Slip = {}
    BY <1>1, <1>6 DEF Go
  <2> QED
    BY <2>1, <1>0, <1>2, NoSlips, StepCharges
<1>7. \A t \in Slot : ~Halt(t)
  BY <1>1 DEF Halt
<1>8. CASE Go(Gateway)
  BY <1>0, <1>8, GatewayCharges DEF Go
<1>9. CASE Go(Time)
  BY <1>0, <1>9, TimeCharges DEF Go
<1> QED
  BY <1>3, <1>4, <1>5, <1>6, <1>7, <1>8, <1>9 DEF Next

(* A tenant is charged once when nothing is in flight: it has one active   *)
(* subscription, and the gateway charges none that is cancelled here,      *)
(* whichever of applyUpgrade's calls, the gateway's webhooks and its panel *)
(* ended and opened the ones before, in any order.                         *)
THEOREM ChargesOnce == Spec => []ChargedOnce
<1>1. OnceInv => ChargedOnce
  <2> SUFFICES ASSUME OnceInv, AtRest, slips = {}
               PROVE  /\ Cardinality(ActiveSubs) <= 1
                      /\ \A x \in DOMAIN asaas.subs :
                           asaas.subs[x] => \E i \in Linked(x) : db.subs[i].status # "CANCELLED"
    BY DEF ChargedOnce, Explained
  <2>1. ChargeInv
    BY DEF OnceInv
  <2>2. \A t \in Slot : ~Holds(task[t])
    BY IdleSpent, SpentIs DEF AtRest, Busy
  <2>3. Cardinality(ActiveSubs) <= 1
    <3>1. \A i, j \in ActiveSubs : i = j
      BY <2>1 DEF ChargeInv, Live, ActiveSubs
    <3>2. CASE ActiveSubs = {}
      BY <3>2, FS_EmptySet
    <3>3. CASE ActiveSubs # {}
      <4>1. PICK i : ActiveSubs = {i}
        BY <3>1, <3>3
      <4>2. Cardinality(ActiveSubs) = 1
        BY <4>1, FS_Singleton
      <4> QED
        BY <4>2
    <3> QED
      BY <3>2, <3>3
  <2>4. ASSUME NEW x \in DOMAIN asaas.subs, asaas.subs[x] PROVE \E i \in Linked(x) : db.subs[i].status # "CANCELLED"
    <3>1. Billed(x, db, InFlight)
      BY <2>1, <2>4 DEF ChargeInv, Charged
    <3> QED
      BY <2>2, <3>1 DEF Billed, InFlight, Live, Linked
  <2> QED
    BY <2>3, <2>4
<1>2. Init => OnceInv
  BY InitTyped, InitCharges DEF OnceInv
<1> QED
  BY <1>1, <1>2, NextCharges, PTL DEF Spec
=============================================================================
