---------------------------- MODULE QuotesProofs ----------------------------
(***************************************************************************)
(* Proofs about Quotes, for every number of requests, every quota, price,  *)
(* validity and calendar, and all tables a behaviour may start with.  The  *)
(* invariant IInv says of every request in flight which queries it has     *)
(* left, and what its handler has read that still holds; the slips are the *)
(* ways of losing it, so that it need only hold while there is none.       *)
(***************************************************************************)
EXTENDS Quotes, FiniteSetTheorems, TLAPS

(* The writes are records that differ in their kind.                       *)
USE DEF None, Count, Code, Check, Highest, Correct, AddQuote, AddOrder, AddItems, Link, SetQuote, Reread,
        DeleteOrder, Unlink

----------------------------------------------------------------------------
(* The tables *)

TypedTables == [quotes : Seq(QuoteRows), orders : Seq(OrderRows), next : [Tables -> Nat]]

(* Rows stay; what identifies them, and what is done once, stays in them.  *)
Grows(d, e) ==
  /\ d \in TypedTables /\ e \in TypedTables
  /\ DOMAIN d.quotes \subseteq DOMAIN e.quotes /\ DOMAIN d.orders \subseteq DOMAIN e.orders
  /\ \A o \in DOMAIN d.orders : /\ e.orders[o].quote = d.orders[o].quote /\ e.orders[o].code = d.orders[o].code
                                /\ d.orders[o].deleted => e.orders[o].deleted
  /\ \A q \in DOMAIN d.quotes : /\ e.quotes[q].code = d.quotes[q].code
                                /\ d.quotes[q].link # None => e.quotes[q].link # None

LEMMA AppendedQuote ==
  ASSUME NEW d \in TypedTables, NEW row \in QuoteRows
  PROVE  LET e == [d EXCEPT !["quotes"] = Append(@, row)]
         IN  /\ e \in TypedTables /\ Grows(d, e) /\ e.orders = d.orders /\ e.next = d.next
             /\ DOMAIN e.quotes = DOMAIN d.quotes \cup {Len(d.quotes) + 1} /\ Len(d.quotes) + 1 \notin DOMAIN d.quotes
             /\ e.quotes[Len(d.quotes) + 1] = row /\ Len(d.quotes) \in Nat
             /\ \A q \in DOMAIN d.quotes : e.quotes[q] = d.quotes[q]
<1> DEFINE e == [d EXCEPT !["quotes"] = Append(@, row)]
<1>1. d.quotes \in Seq(QuoteRows) /\ d.orders \in Seq(OrderRows) /\ d.next \in [Tables -> Nat]
  BY DEF TypedTables
<1>2. e.quotes = Append(d.quotes, row) /\ e.orders = d.orders /\ e.next = d.next
  BY DEF TypedTables
<1>3. Append(d.quotes, row) \in Seq(QuoteRows)
  BY <1>1
<1>4. e \in TypedTables
  BY <1>1, <1>2, <1>3 DEF TypedTables
<1>5. /\ DOMAIN e.quotes = DOMAIN d.quotes \cup {Len(d.quotes) + 1} /\ Len(d.quotes) + 1 \notin DOMAIN d.quotes
      /\ e.quotes[Len(d.quotes) + 1] = row /\ Len(d.quotes) \in Nat
      /\ \A q \in DOMAIN d.quotes : e.quotes[q] = d.quotes[q]
  BY <1>1, <1>2
<1> QED
  BY <1>2, <1>4, <1>5 DEF Grows

LEMMA AppendedOrder ==
  ASSUME NEW d \in TypedTables, NEW row \in OrderRows
  PROVE  LET e == [d EXCEPT !["orders"] = Append(@, row)]
         IN  /\ e \in TypedTables /\ Grows(d, e) /\ e.quotes = d.quotes /\ e.next = d.next
             /\ DOMAIN e.orders = DOMAIN d.orders \cup {Len(d.orders) + 1} /\ Len(d.orders) + 1 \notin DOMAIN d.orders
             /\ e.orders[Len(d.orders) + 1] = row /\ Len(d.orders) \in Nat
             /\ \A o \in DOMAIN d.orders : e.orders[o] = d.orders[o]
<1> DEFINE e == [d EXCEPT !["orders"] = Append(@, row)]
<1>1. d.quotes \in Seq(QuoteRows) /\ d.orders \in Seq(OrderRows) /\ d.next \in [Tables -> Nat]
  BY DEF TypedTables
<1>2. e.orders = Append(d.orders, row) /\ e.quotes = d.quotes /\ e.next = d.next
  BY DEF TypedTables
<1>3. Append(d.orders, row) \in Seq(OrderRows)
  BY <1>1
<1>4. e \in TypedTables
  BY <1>1, <1>2, <1>3 DEF TypedTables
<1>5. /\ DOMAIN e.orders = DOMAIN d.orders \cup {Len(d.orders) + 1} /\ Len(d.orders) + 1 \notin DOMAIN d.orders
      /\ e.orders[Len(d.orders) + 1] = row /\ Len(d.orders) \in Nat
      /\ \A o \in DOMAIN d.orders : e.orders[o] = d.orders[o]
  BY <1>1, <1>2
<1> QED
  BY <1>2, <1>4, <1>5 DEF Grows

LEMMA WrittenQuotes ==
  ASSUME NEW d \in TypedTables, NEW rows, DOMAIN rows = DOMAIN d.quotes, rows = [q \in DOMAIN rows |-> rows[q]],
         \A q \in DOMAIN d.quotes : /\ rows[q] \in QuoteRows /\ rows[q].code = d.quotes[q].code
                                    /\ d.quotes[q].link # None => rows[q].link # None
  PROVE  LET e == [d EXCEPT !.quotes = rows]
         IN  e \in TypedTables /\ Grows(d, e) /\ e.orders = d.orders /\ e.next = d.next /\ e.quotes = rows
<1> DEFINE e == [d EXCEPT !.quotes = rows]
<1>1. d.quotes \in Seq(QuoteRows) /\ d.orders \in Seq(OrderRows) /\ d.next \in [Tables -> Nat]
  BY DEF TypedTables
<1>2. e.quotes = rows /\ e.orders = d.orders /\ e.next = d.next
  BY DEF TypedTables
<1>3. rows \in Seq(QuoteRows)
  <2>1. Len(d.quotes) \in Nat /\ DOMAIN rows = 1 .. Len(d.quotes)
    BY <1>1
  <2>2. \A q \in DOMAIN d.quotes : rows[q] \in QuoteRows
    OBVIOUS
  <2>3. rows \in [1 .. Len(d.quotes) -> QuoteRows]
    BY <2>1, <2>2
  <2> QED
    BY <2>1, <2>3
<1>4. e \in TypedTables
  BY <1>1, <1>2, <1>3 DEF TypedTables
<1>5. Grows(d, e)
  BY <1>2, <1>4 DEF Grows
<1> QED
  BY <1>2, <1>4, <1>5

LEMMA WrittenQuote ==
  ASSUME NEW d \in TypedTables, NEW q \in DOMAIN d.quotes, NEW row \in QuoteRows,
         row.code = d.quotes[q].code, d.quotes[q].link # None => row.link # None
  PROVE  LET e == [d EXCEPT !.quotes[q] = row]
         IN  /\ e \in TypedTables /\ Grows(d, e) /\ e.orders = d.orders /\ e.next = d.next
             /\ DOMAIN e.quotes = DOMAIN d.quotes
             /\ e.quotes[q] = row /\ \A p \in DOMAIN d.quotes \ {q} : e.quotes[p] = d.quotes[p]
<1> DEFINE e == [d EXCEPT !.quotes[q] = row]
<1>1. d.quotes \in Seq(QuoteRows) /\ d.orders \in Seq(OrderRows) /\ d.next \in [Tables -> Nat]
  BY DEF TypedTables
<1>2. e.quotes = [d.quotes EXCEPT ![q] = row] /\ e.orders = d.orders /\ e.next = d.next
  BY DEF TypedTables
<1>3. e.quotes \in Seq(QuoteRows)
  BY <1>1, <1>2
<1>4. e \in TypedTables
  BY <1>1, <1>2, <1>3 DEF TypedTables
<1> QED
  BY <1>1, <1>2, <1>4 DEF Grows

LEMMA WrittenOrder ==
  ASSUME NEW d \in TypedTables, NEW o \in DOMAIN d.orders, NEW row \in OrderRows,
         row.quote = d.orders[o].quote, row.code = d.orders[o].code,
         d.orders[o].deleted => row.deleted
  PROVE  LET e == [d EXCEPT !.orders[o] = row]
         IN  /\ e \in TypedTables /\ Grows(d, e) /\ e.quotes = d.quotes /\ e.next = d.next /\ DOMAIN e.orders = DOMAIN d.orders
             /\ e.orders[o] = row /\ \A p \in DOMAIN d.orders \ {o} : e.orders[p] = d.orders[p]
<1> DEFINE e == [d EXCEPT !.orders[o] = row]
<1>1. d.quotes \in Seq(QuoteRows) /\ d.orders \in Seq(OrderRows) /\ d.next \in [Tables -> Nat]
  BY DEF TypedTables
<1>2. e.orders = [d.orders EXCEPT ![o] = row] /\ e.quotes = d.quotes /\ e.next = d.next
  BY DEF TypedTables
<1>3. e.orders \in Seq(OrderRows)
  BY <1>1, <1>2
<1>4. e \in TypedTables
  BY <1>1, <1>2, <1>3 DEF TypedTables
<1> QED
  BY <1>1, <1>2, <1>4 DEF Grows

----------------------------------------------------------------------------
(* What a request in flight has left to do.  The code of a row is drawn    *)
(* before the row is inserted; the order of a quote is followed by its     *)
(* items and its link.                                                     *)

Table(x) == IF x.op \in {"create", "duplicate"} THEN "quotes" ELSE "orders"

IsGen(w, t) ==
  w \in {Code(t), Check(t), Highest(t)} \/ (w.kind = "correct" /\ w = Correct(t, w.next) /\ w.next \in Nat)
IsQuote(d, w) ==
  /\ w.kind = "quote" /\ w = AddQuote(w.row) /\ w.row \in QuoteRows
  /\ w.row.status = "RASCUNHO" /\ w.row.order \in DOMAIN d.orders \cup {None}
IsOrder(w, q) ==
  /\ w.kind = "order" /\ w = AddOrder(w.row) /\ w.row \in OrderRows
  /\ w.row.quote = q /\ ~w.row.deleted /\ w.row.items = (q = None)
IsSet(w, q) == w.kind = "set" /\ w = SetQuote(w.q, w.set) /\ w.q = q
IsReread(w, q) ==
  /\ w.kind = "reread" /\ w = Reread(w.q, w.set) /\ w.q = q
  /\ w.set \in [product : Int, total : Int, validity : Nat]

Linkers == {"update", "linkQuoteToOs"}
Setters == Linkers \cup {"remove", "send", "approve", "reject", "cancel", "approvePublic", "rejectPublic"}

Inserts(d, x) ==
  /\ x.op \in {"create", "duplicate"}
  /\ \E g, w : /\ IsQuote(d, w) /\ (x.op = "create" => w.row.total = computeTotals(w.row.items, w.row.product))
               /\ \/ x.todo = <<w>>
                  \/ IsGen(g, "quotes") /\ x.todo = <<g, w>>
Sets(x) ==
  x.op \in Setters /\ \E w : (IsSet(w, x.on) \/ (x.op = "update" /\ IsReread(w, x.on))) /\ x.todo = <<w>>
Converts(x) ==
  /\ x.op = "createOs"
  /\ \E g, w : /\ IsOrder(w, x.on)
               /\ \/ x.todo = <<Count("month"), Code("orders"), w, AddItems, Link(x.on)>>
                  \/ IsGen(g, "orders") /\ x.todo = <<g, w, AddItems, Link(x.on)>>
                  \/ x.todo = <<w, AddItems, Link(x.on)>>
Finishes(d, x) ==
  /\ x.op = "createOs" /\ (x.todo = <<AddItems, Link(x.on)>> \/ x.todo = <<Link(x.on)>>)
  /\ x.number = None /\ x.order \in DOMAIN d.orders /\ d.orders[x.order].quote = x.on
Orders(x) ==
  /\ x.op \in {"createOrder", "duplicateOrder"}
  /\ \E g, w : /\ IsOrder(w, None)
               /\ \/ x.op = "createOrder" /\ x.todo = <<Count("cycle"), Code("orders"), w>>
                  \/ x.op = "createOrder" /\ IsGen(g, "orders") /\ x.todo = <<g, w>>
                  \/ x.op = "duplicateOrder" /\ x.number = None /\ x.todo = <<Count("month"), w>>
                  \/ x.todo = <<w>>
Removes(d, x) ==
  /\ x.op = "removeOrder" /\ x.number = None
  /\ \E o \in DOMAIN d.orders : \/ x.todo = <<DeleteOrder(o), Unlink(o)>>
                                \/ x.todo = <<Unlink(o)>> /\ d.orders[o].deleted

IsRequest(d, x) ==
  /\ x = [op |-> x.op, todo |-> x.todo, number |-> x.number, tries |-> x.tries, order |-> x.order,
          on |-> x.on, stale |-> x.stale]
  /\ x.number \in Nat /\ x.tries \in Nat /\ x.stale \in BOOLEAN
  /\ x.on \in DOMAIN d.quotes \cup {None} /\ (x.op \in Setters \cup {"createOs"} => x.on # None)
  /\ \/ x.todo = <<>> /\ x.op = "idle" /\ x.number = None
     \/ Inserts(d, x) \/ Sets(x) \/ Converts(x) \/ Finishes(d, x) \/ Orders(x) \/ Removes(d, x)

(* The columns a write gives have values of their types, and a quote that  *)
(* it shows to clients has its link.                                       *)
IsChange(d, x, s) ==
  /\ \A f \in DOMAIN s \cap {"items", "product", "total"} : s[f] \in Int
  /\ "validity" \in DOMAIN s => s.validity \in Nat
  /\ "deleted" \in DOMAIN s => s.deleted \in BOOLEAN
  /\ "order" \in DOMAIN s => s.order \in DOMAIN d.orders \cup {None} /\ x.op \in Linkers
  /\ "link" \in DOMAIN s => s.link \in Nat \ {0}
  /\ "status" \in DOMAIN s => /\ s.status \in Status
                              /\ s.status \in ShownToClients => "link" \in DOMAIN s \/ d.quotes[x.on].link # None
  /\ {"code", "created"} \cap DOMAIN s = {}

CodesIn(d, t) == {d[t][i].code : i \in DOMAIN d[t]} \ {None}
IsTyped(d, x) ==
  /\ IsRequest(d, x)
  /\ \A w : IsSet(w, x.on) /\ x.todo = <<w>> => IsChange(d, x, w.set)
  /\ x.todo # <<>> /\ Head(x.todo).kind = "highest" => CodesIn(d, Table(x)) # {}

TypeInv ==
  /\ db \in TypedTables
  /\ clock \in [day : Nat, from : Int, to : Int]
  /\ req = [r \in Request |-> req[r]]
  /\ \A r \in Request : IsTyped(db, req[r])

(* What is left, by the query that comes next.                             *)
LEMMA CountNext ==
  ASSUME NEW d, NEW x, IsRequest(d, x), x.todo # <<>>, Head(x.todo).kind = "count"
  PROVE  \E w : \/ x.op = "createOs" /\ IsOrder(w, x.on)
                     /\ x.todo = <<Count("month"), Code("orders"), w, AddItems, Link(x.on)>>
                \/ x.op = "createOrder" /\ IsOrder(w, None) /\ x.todo = <<Count("cycle"), Code("orders"), w>>
                \/ x.op = "duplicateOrder" /\ IsOrder(w, None) /\ x.number = None /\ x.todo = <<Count("month"), w>>
BY DEF IsRequest, Inserts, Sets, Converts, Finishes, Orders, Removes, IsGen, IsQuote, IsOrder, IsSet, IsReread

LEMMA GenNext ==
  ASSUME NEW d, NEW x, IsRequest(d, x), x.todo # <<>>, Head(x.todo).kind \in {"code", "check", "highest", "correct"}
  PROVE  \E g, w :
           \/ /\ x.op \in {"create", "duplicate"} /\ IsQuote(d, w) /\ IsGen(g, "quotes") /\ x.todo = <<g, w>>
              /\ x.op = "create" => w.row.total = computeTotals(w.row.items, w.row.product)
           \/ x.op = "createOs" /\ IsOrder(w, x.on) /\ IsGen(g, "orders") /\ x.todo = <<g, w, AddItems, Link(x.on)>>
           \/ x.op = "createOrder" /\ IsOrder(w, None) /\ IsGen(g, "orders") /\ x.todo = <<g, w>>
BY DEF IsRequest, Inserts, Sets, Converts, Finishes, Orders, Removes, IsGen, IsQuote, IsOrder, IsSet, IsReread

LEMMA InsertNext ==
  ASSUME NEW d, NEW x, IsRequest(d, x), x.todo # <<>>, Head(x.todo).kind \in {"quote", "order"}
  PROVE  \E w :
           \/ /\ x.op \in {"create", "duplicate"} /\ IsQuote(d, w) /\ x.todo = <<w>>
              /\ x.op = "create" => w.row.total = computeTotals(w.row.items, w.row.product)
           \/ x.op = "createOs" /\ IsOrder(w, x.on) /\ x.todo = <<w, AddItems, Link(x.on)>>
           \/ x.op \in {"createOrder", "duplicateOrder"} /\ IsOrder(w, None) /\ x.todo = <<w>>
BY DEF IsRequest, Inserts, Sets, Converts, Finishes, Orders, Removes, IsGen, IsQuote, IsOrder, IsSet, IsReread

LEMMA InsertTable ==
  ASSUME NEW d, NEW x, IsRequest(d, x), x.todo # <<>>
  PROVE  /\ Head(x.todo).kind = "quote" => Table(x) = "quotes"
         /\ Head(x.todo).kind = "order" => Table(x) = "orders"
<1> SUFFICES ASSUME Head(x.todo).kind \in {"quote", "order"}
             PROVE  /\ Head(x.todo).kind = "quote" => Table(x) = "quotes"
                    /\ Head(x.todo).kind = "order" => Table(x) = "orders"
  OBVIOUS
<1>1. PICK w :
           \/ /\ x.op \in {"create", "duplicate"} /\ IsQuote(d, w) /\ x.todo = <<w>>
              /\ x.op = "create" => w.row.total = computeTotals(w.row.items, w.row.product)
           \/ x.op = "createOs" /\ IsOrder(w, x.on) /\ x.todo = <<w, AddItems, Link(x.on)>>
           \/ x.op \in {"createOrder", "duplicateOrder"} /\ IsOrder(w, None) /\ x.todo = <<w>>
  BY InsertNext
<1>2. Head(x.todo) = w
  BY <1>1
<1> QED
  BY <1>1, <1>2 DEF Table, IsQuote, IsOrder

LEMMA LinkNext ==
  ASSUME NEW d, NEW x, IsRequest(d, x), x.todo # <<>>, Head(x.todo).kind \in {"items", "link"}
  PROVE  /\ Finishes(d, x) /\ x.op = "createOs" /\ x.on # None
         /\ Head(x.todo).kind = "items" => x.todo = <<AddItems, Link(x.on)>>
         /\ Head(x.todo).kind = "link" => x.todo = <<Link(x.on)>>
BY DEF IsRequest, Inserts, Sets, Converts, Finishes, Orders, Removes, IsGen, IsQuote, IsOrder, IsSet, IsReread

LEMMA RemoveNext ==
  ASSUME NEW d, NEW x, IsRequest(d, x), x.todo # <<>>, Head(x.todo).kind \in {"delete", "unlink"}
  PROVE  /\ x.op = "removeOrder" /\ x.number = None
         /\ \E o \in DOMAIN d.orders :
              \/ x.todo = <<DeleteOrder(o), Unlink(o)>>
              \/ x.todo = <<Unlink(o)>> /\ d.orders[o].deleted
BY DEF IsRequest, Inserts, Sets, Converts, Finishes, Orders, Removes, IsGen, IsQuote, IsOrder, IsSet, IsReread

LEMMA SetNext ==
  ASSUME NEW d, NEW x, IsRequest(d, x), x.todo # <<>>, Head(x.todo).kind \in {"set", "reread"}
  PROVE  /\ x.op \in Setters /\ x.on \in DOMAIN d.quotes /\ x.on # None
         /\ \E w : /\ x.todo = <<w>> /\ Head(x.todo) = w /\ w.q = x.on
                   /\ w.kind = "set" => IsSet(w, x.on)
                   /\ w.kind = "reread" => IsReread(w, x.on) /\ x.op = "update"
BY DEF IsRequest, Inserts, Sets, Converts, Finishes, Orders, Removes, IsGen, IsQuote, IsOrder, IsSet, IsReread

LEMMA IdleOK ==
  ASSUME NEW d
  PROVE  IsTyped(d, Idle)
BY DEF IsTyped, IsRequest, IsSet, Idle, Setters, Linkers

(* Rows that grow leave a request what it has left to do, stale or not.    *)
LEMMA GrowsKeeps ==
  ASSUME NEW d, NEW e, Grows(d, e), NEW x, IsRequest(d, x), NEW b \in BOOLEAN
  PROVE  LET y == [x EXCEPT !.stale = b]
         IN /\ IsRequest(e, y) /\ IsRequest(d, y)
            /\ y.op = x.op /\ y.todo = x.todo /\ y.number = x.number /\ y.order = x.order /\ y.on = x.on
            /\ y.stale = b
            /\ IsTyped(d, x) => IsTyped(e, y)
<1> DEFINE y == [x EXCEPT !.stale = b]
<1>1. y = [op |-> x.op, todo |-> x.todo, number |-> x.number, tries |-> x.tries, order |-> x.order,
           on |-> x.on, stale |-> b]
  BY DEF IsRequest
<1>2. Inserts(d, x) => Inserts(e, y) /\ Inserts(d, y)
  BY <1>1 DEF Inserts, IsQuote, Grows
<1>3. (Sets(x) => Sets(y)) /\ (Converts(x) => Converts(y)) /\ (Orders(x) => Orders(y))
  BY <1>1 DEF Sets, Converts, Orders
<1>4. Finishes(d, x) => Finishes(e, y) /\ Finishes(d, y)
  BY <1>1 DEF Finishes, Grows
<1>5. Removes(d, x) => Removes(e, y) /\ Removes(d, y)
  BY <1>1 DEF Removes, Grows
<1>6. IsRequest(e, y) /\ IsRequest(d, y)
  BY <1>1, <1>2, <1>3, <1>4, <1>5 DEF IsRequest, Grows
<1>7. ASSUME IsTyped(d, x)
      PROVE  IsTyped(e, y)
  <2>1. ASSUME NEW w, IsSet(w, x.on), x.todo = <<w>>
        PROVE  IsChange(e, y, w.set)
    <3>1. IsChange(d, x, w.set)
      BY <1>7, <2>1 DEF IsTyped
    <3>2. x.on \in DOMAIN d.quotes
      BY <2>1, SetNext DEF IsSet
    <3> QED
      BY <1>1, <3>1, <3>2 DEF IsChange, Grows
  <2>2. CodesIn(d, Table(x)) \subseteq CodesIn(e, Table(x)) /\ Table(x) = Table(y)
    BY <1>1 DEF CodesIn, Grows, Table
  <2> QED
    BY <1>1, <1>6, <1>7, <2>1, <2>2 DEF IsTyped
<1> QED
  BY <1>1, <1>6, <1>7

LEMMA GrowsTyped ==
  ASSUME NEW d, NEW e, Grows(d, e), NEW x, IsTyped(d, x)
  PROVE  IsTyped(e, x)
<1>1. x = [x EXCEPT !.stale = x.stale] /\ x.stale \in BOOLEAN /\ IsRequest(d, x)
  BY DEF IsTyped, IsRequest
<1> QED
  BY <1>1, GrowsKeeps

----------------------------------------------------------------------------
(* Steps.  What a request does to itself, and to what the others know.     *)

Fresh(r, s) ==
  /\ req'[s] = [req[s] EXCEPT !.stale = req'[s].stale] /\ req'[s].stale \in BOOLEAN
  /\ ~req'[s].stale => /\ ~req[s].stale
                       /\ req[s].on \in DOMAIN db.quotes => db'.quotes[req[s].on] = db.quotes[req[s].on]

LEMMA SaveEffect ==
  ASSUME TypeInv, NEW r \in Request, NEW tables, NEW rest, Save(r, tables, rest)
  PROVE  /\ db' = tables /\ req'[r] = rest /\ clock' = clock
         /\ req' = [s \in Request |-> req'[s]]
         /\ \A s \in Request \ {r} : Fresh(r, s)
<1>1. db' = tables /\ req'[r] = rest /\ clock' = clock /\ req' = [s \in Request |-> req'[s]]
  BY DEF Save
<1>2. ASSUME NEW s \in Request \ {r}
      PROVE  Fresh(r, s)
  <2>1. req'[s] = [req[s] EXCEPT !.stale = @ \/ Written(tables, req[s].on)]
    BY DEF Save
  <2>2. req'[s].stale = (req[s].stale \/ Written(tables, req[s].on))
    BY <2>1 DEF TypeInv, IsTyped, IsRequest
  <2>3. req[s].stale \in BOOLEAN /\ Written(tables, req[s].on) \in BOOLEAN
    BY DEF TypeInv, IsTyped, IsRequest, Written
  <2> QED
    BY <1>1, <2>1, <2>2, <2>3 DEF Fresh, Written
<1> QED
  BY <1>1, <1>2


(* The request that moves, and the others, still have what IsTyped says.   *)
Kept(r) ==
  /\ Grows(db, db')
  /\ req' = [s \in Request |-> req'[s]]
  /\ IsTyped(db', req'[r])
  /\ \A s \in Request \ {r} : Fresh(r, s)

LEMMA SameTables ==
  ASSUME TypeInv
  PROVE  Grows(db, db)
BY DEF TypeInv, Grows

LEMMA Typed ==
  ASSUME TypeInv, NEW r \in Request
  PROVE  IsTyped(db, req[r]) /\ IsRequest(db, req[r]) /\ db \in TypedTables
BY DEF TypeInv, IsTyped

(* The code of a row is being drawn, or the row is inserted next.          *)
Drawing(x) == x.todo # <<>> /\ Head(x.todo).kind \in {"code", "check", "highest", "correct", "quote", "order"}

LEMMA DrawingShape ==
  ASSUME NEW d, NEW x, IsRequest(d, x), Drawing(x)
  PROVE  /\ x.op \notin Setters \cup {"idle", "removeOrder"} /\ ~Finishes(d, x) /\ ~Sets(x) /\ ~Removes(d, x)
         /\ x.op = "createOs" <=> Converts(x)
         /\ x.op \in {"createOrder", "duplicateOrder"} <=> Orders(x)
         /\ x.op \in {"create", "duplicate"} <=> Inserts(d, x)
BY DEF Drawing, Setters, Linkers, IsRequest, Inserts, Sets, Converts, Finishes, Orders, Removes, IsGen, IsQuote,
       IsOrder, IsSet, IsReread

(* The quota is counted: the request is given up, or goes on.              *)
LEMMA CountTail ==
  ASSUME NEW d, NEW x, IsRequest(d, x), x.todo # <<>>, Head(x.todo).kind = "count"
  PROVE  LET rest == [x EXCEPT !.todo = Tail(x.todo)]
         IN  /\ IsTyped(d, rest) /\ Drawing(rest)
             /\ rest.op = x.op /\ rest.on = x.on /\ rest.stale = x.stale /\ rest.number = x.number
             /\ Tail(x.todo) # <<>>
             /\ Head(rest.todo).kind # "quote" /\ (Head(rest.todo).kind = "order" => x.number = None)
<1>0. PICK rest : rest = [x EXCEPT !.todo = Tail(x.todo)]
  OBVIOUS
<1>1. PICK w : \/ /\ x.op = "createOs" /\ IsOrder(w, x.on)
                  /\ x.todo = <<Count("month"), Code("orders"), w, AddItems, Link(x.on)>>
               \/ x.op = "createOrder" /\ IsOrder(w, None) /\ x.todo = <<Count("cycle"), Code("orders"), w>>
               \/ x.op = "duplicateOrder" /\ IsOrder(w, None) /\ x.number = None /\ x.todo = <<Count("month"), w>>
  BY CountNext
<1>2. rest = [op |-> x.op, todo |-> Tail(x.todo), number |-> x.number, tries |-> x.tries, order |-> x.order,
              on |-> x.on, stale |-> x.stale]
  BY <1>0 DEF IsRequest
<1>a. /\ x.todo = <<Count("month"), Code("orders"), w, AddItems, Link(x.on)>>
           => rest.todo = <<Code("orders"), w, AddItems, Link(x.on)>>
      /\ x.todo = <<Count("cycle"), Code("orders"), w>> => rest.todo = <<Code("orders"), w>>
      /\ x.todo = <<Count("month"), w>> => rest.todo = <<w>>
  <2>1. rest.todo = Tail(x.todo)
    BY <1>2
  <2>2. x.todo = <<Count("month"), Code("orders"), w, AddItems, Link(x.on)>>
           => rest.todo = <<Code("orders"), w, AddItems, Link(x.on)>>
    BY <2>1
  <2>3. x.todo = <<Count("cycle"), Code("orders"), w>> => rest.todo = <<Code("orders"), w>>
    BY <2>1
  <2>4. x.todo = <<Count("month"), w>> => rest.todo = <<w>>
    BY <2>1
  <2> QED
    BY <2>2, <2>3, <2>4
<1>b. IsGen(Code("orders"), "orders")
  BY DEF IsGen
<1>3. Converts(rest) \/ Orders(rest)
  BY <1>1, <1>2, <1>a, <1>b DEF Converts, Orders
<1>4. IsRequest(d, rest)
  BY <1>2, <1>3 DEF IsRequest
<1>5. rest.todo # <<>> /\ \A v : rest.todo = <<v>> => ~IsSet(v, rest.on)
  <2>1. CASE rest.todo = <<w>>
    BY <1>1, <2>1 DEF IsOrder, IsSet
  <2>2. CASE rest.todo = <<Code("orders"), w>> \/ rest.todo = <<Code("orders"), w, AddItems, Link(x.on)>>
    BY <2>2
  <2> QED
    BY <1>1, <1>a, <2>1, <2>2
<1>6. Head(rest.todo) \in {Code("orders"), w} /\ (Head(rest.todo) = w => w.kind = "order")
  BY <1>1, <1>a DEF IsOrder
<1>c. Head(rest.todo).kind # "quote" /\ (Head(rest.todo).kind = "order" => x.number = None)
  <2>1. CASE x.number = None
    BY <1>6, <2>1
  <2>2. CASE x.number # None
    <3>1. Head(rest.todo) = Code("orders")
      BY <1>1, <1>a, <2>2
    <3> QED
      BY <3>1
  <2> QED
    BY <2>1, <2>2
<1>7. Drawing(rest) /\ Tail(x.todo) # <<>>
  <2>1. rest.todo # <<>>
    BY <1>5
  <2>2. Head(rest.todo).kind \in {"code", "order"}
    BY <1>6
  <2> QED
    BY <1>2, <2>1, <2>2 DEF Drawing
<1> QED
  BY <1>0, <1>2, <1>4, <1>5, <1>6, <1>7, <1>c DEF IsTyped

Goes(r) == /\ Drawing(req'[r]) /\ req'[r].op = req[r].op /\ req'[r].on = req[r].on
           /\ req'[r].stale = req[r].stale /\ req'[r].number = req[r].number
           /\ ~Has(r, "quote")' /\ (Has(r, "order")' => req[r].number = None)

LEMMA CountStep ==
  ASSUME TypeInv, NEW r \in Request, CountOrders(r)
  PROVE  /\ Kept(r) /\ clock' = clock /\ db' = db
         /\ req'[r] = Idle \/ Goes(r)
<1>1. PICK rest : Save(r, db, rest) /\ rest \in {Idle, Then(r, Tail(Todo(r)))}
  BY DEF CountOrders
<1>2. /\ db' = db /\ clock' = clock /\ req' = [s \in Request |-> req'[s]] /\ req'[r] = rest
      /\ \A s \in Request \ {r} : Fresh(r, s)
  BY <1>1, SaveEffect
<1>3. req[r].todo # <<>> /\ Head(req[r].todo).kind = "count"
  BY DEF CountOrders, Has, Busy, Todo
<1>4. CASE rest = Idle
  BY <1>2, <1>4, SameTables, IdleOK DEF Kept
<1>5. CASE rest = Then(r, Tail(req[r].todo))
  <2>1. Tail(req[r].todo) # <<>>
    BY <1>3, CountTail, Typed
  <2>2. rest = [req[r] EXCEPT !.todo = Tail(req[r].todo)]
    BY <1>5, <2>1 DEF Then
  <2>3. /\ IsTyped(db, rest) /\ Drawing(rest) /\ rest.op = req[r].op /\ rest.on = req[r].on
        /\ rest.stale = req[r].stale /\ rest.number = req[r].number
        /\ Head(rest.todo).kind # "quote" /\ (Head(rest.todo).kind = "order" => req[r].number = None)
    BY <1>3, <2>2, CountTail, Typed
  <2> QED
    BY <1>2, <2>3, SameTables DEF Kept, Goes, Has, Todo
<1> QED
  BY <1>1, <1>4, <1>5 DEF Todo

(* A code is drawn: g comes in the place of the query at the head.         *)
Redrawn(x, n, k, g) == [x EXCEPT !.number = n, !.tries = k, !.todo[1] = g]

LEMMA GenRest ==
  ASSUME NEW d, NEW x, IsRequest(d, x), x.todo # <<>>,
         Head(x.todo).kind \in {"code", "check", "highest", "correct"},
         NEW g, IsGen(g, Head(x.todo).table), g.kind = "highest" => CodesIn(d, Table(x)) # {}, NEW n \in Nat, NEW k \in Nat
  PROVE  LET rest == Redrawn(x, n, k, g)
         IN  /\ IsTyped(d, rest) /\ Drawing(rest) /\ Table(rest) = Table(x) /\ Head(rest.todo) = g
             /\ rest.op = x.op /\ rest.on = x.on /\ rest.stale = x.stale /\ rest.number = n
<1>0. PICK rest : rest = [x EXCEPT !.number = n, !.tries = k, !.todo[1] = g] /\ rest = Redrawn(x, n, k, g)
  BY DEF Redrawn
<1>1. PICK h, w :
           \/ /\ x.op \in {"create", "duplicate"} /\ IsQuote(d, w) /\ IsGen(h, "quotes") /\ x.todo = <<h, w>>
              /\ x.op = "create" => w.row.total = computeTotals(w.row.items, w.row.product)
           \/ /\ x.op = "createOs" /\ IsOrder(w, x.on) /\ IsGen(h, "orders")
              /\ x.todo = <<h, w, AddItems, Link(x.on)>>
           \/ x.op = "createOrder" /\ IsOrder(w, None) /\ IsGen(h, "orders") /\ x.todo = <<h, w>>
  BY GenNext
<1>2. Head(x.todo) = h /\ h.table = Table(x) /\ IsGen(h, Table(x)) /\ Table(x) \in Tables
  BY <1>1 DEF IsGen, Table, Tables
<1>3. rest = [op |-> x.op, todo |-> [x.todo EXCEPT ![1] = g], number |-> n, tries |-> k, order |-> x.order,
              on |-> x.on, stale |-> x.stale]
  BY <1>0 DEF IsRequest
<1>4. /\ x.todo = <<h, w>> => rest.todo = <<g, w>>
      /\ x.todo = <<h, w, AddItems, Link(x.on)>> => rest.todo = <<g, w, AddItems, Link(x.on)>>
  BY <1>0 DEF IsRequest
<1>5. Inserts(d, rest) \/ Converts(rest) \/ Orders(rest)
  BY <1>1, <1>2, <1>3, <1>4 DEF Inserts, Converts, Orders, Table
<1>6. IsRequest(d, rest)
  BY <1>3, <1>5 DEF IsRequest
<1>7. \A v : rest.todo = <<v>> => ~IsSet(v, rest.on)
  <2>1. rest.todo = <<g, w>> \/ rest.todo = <<g, w, AddItems, Link(x.on)>>
    BY <1>1, <1>4
  <2>2. \A v : <<g, w>> # <<v>> /\ <<g, w, AddItems, Link(x.on)>> # <<v>>
    OBVIOUS
  <2> QED
    BY <2>1, <2>2
<1>8. Head(rest.todo) = g /\ rest.todo # <<>> /\ Table(rest) = Table(x)
  BY <1>1, <1>3, <1>4 DEF Table
<1>9. Drawing(rest)
  BY <1>2, <1>8 DEF Drawing, IsGen
<1> QED
  BY <1>0, <1>2, <1>3, <1>6, <1>7, <1>8, <1>9 DEF IsTyped

LEMMA GenHead ==
  ASSUME NEW d, NEW x, IsRequest(d, x), x.todo # <<>>,
         Head(x.todo).kind \in {"code", "check", "highest", "correct"}
  PROVE  IsGen(Head(x.todo), Table(x)) /\ Head(x.todo).table = Table(x) /\ Table(x) \in Tables
<1>1. PICK h, w :
           \/ /\ x.op \in {"create", "duplicate"} /\ IsQuote(d, w) /\ IsGen(h, "quotes") /\ x.todo = <<h, w>>
              /\ x.op = "create" => w.row.total = computeTotals(w.row.items, w.row.product)
           \/ /\ x.op = "createOs" /\ IsOrder(w, x.on) /\ IsGen(h, "orders")
              /\ x.todo = <<h, w, AddItems, Link(x.on)>>
           \/ x.op = "createOrder" /\ IsOrder(w, None) /\ IsGen(h, "orders") /\ x.todo = <<h, w>>
  BY GenNext
<1>2. Head(x.todo) = h /\ IsGen(h, Table(x)) /\ Table(x) \in Tables
  BY <1>1 DEF Table, Tables
<1> QED
  BY <1>2 DEF IsGen

LEMMA GenTail ==
  ASSUME NEW d, NEW x, IsRequest(d, x), x.todo # <<>>, Head(x.todo).kind = "check"
  PROVE  LET rest == [x EXCEPT !.todo = Tail(x.todo)]
         IN  /\ IsTyped(d, rest) /\ Drawing(rest) /\ Table(rest) = Table(x)
             /\ rest.op = x.op /\ rest.on = x.on /\ rest.stale = x.stale /\ rest.number = x.number
             /\ Tail(x.todo) # <<>>
<1>0. PICK rest : rest = [x EXCEPT !.todo = Tail(x.todo)]
  OBVIOUS
<1>1. PICK h, w :
           \/ /\ x.op \in {"create", "duplicate"} /\ IsQuote(d, w) /\ IsGen(h, "quotes") /\ x.todo = <<h, w>>
              /\ x.op = "create" => w.row.total = computeTotals(w.row.items, w.row.product)
           \/ /\ x.op = "createOs" /\ IsOrder(w, x.on) /\ IsGen(h, "orders")
              /\ x.todo = <<h, w, AddItems, Link(x.on)>>
           \/ x.op = "createOrder" /\ IsOrder(w, None) /\ IsGen(h, "orders") /\ x.todo = <<h, w>>
  BY GenNext
<1>2. rest = [op |-> x.op, todo |-> Tail(x.todo), number |-> x.number, tries |-> x.tries, order |-> x.order,
              on |-> x.on, stale |-> x.stale]
  BY <1>0 DEF IsRequest
<1>3. /\ x.todo = <<h, w>> => rest.todo = <<w>>
      /\ x.todo = <<h, w, AddItems, Link(x.on)>> => rest.todo = <<w, AddItems, Link(x.on)>>
  <2>1. rest.todo = Tail(x.todo)
    BY <1>2
  <2>2. x.todo = <<h, w>> => rest.todo = <<w>>
    BY <2>1
  <2>3. x.todo = <<h, w, AddItems, Link(x.on)>> => rest.todo = <<w, AddItems, Link(x.on)>>
    BY <2>1
  <2> QED
    BY <2>2, <2>3
<1>4. Inserts(d, rest) \/ Converts(rest) \/ Orders(rest)
  BY <1>1, <1>2, <1>3 DEF Inserts, Converts, Orders
<1>5. IsRequest(d, rest)
  BY <1>2, <1>4 DEF IsRequest
<1>6. Head(rest.todo) = w /\ rest.todo # <<>> /\ Table(rest) = Table(x)
  BY <1>1, <1>2, <1>3 DEF Table
<1>7. w.kind \in {"quote", "order"}
  BY <1>1 DEF IsQuote, IsOrder
<1>8. \A v : rest.todo = <<v>> => ~IsSet(v, rest.on)
  <2>1. ASSUME NEW v, rest.todo = <<v>>
        PROVE  v = w
    <3>1. Head(<<v>>) = v
      OBVIOUS
    <3> QED
      BY <1>6, <2>1, <3>1
  <2> QED
    BY <1>7, <2>1 DEF IsSet
<1> QED
  BY <1>0, <1>2, <1>5, <1>6, <1>7, <1>8 DEF IsTyped, Drawing

(* The code of a row that is there is one of finitely many numbers: Max    *)
(* chooses the highest.                                                    *)
LEMMA MaxIn ==
  ASSUME NEW S \in SUBSET Int, IsFiniteSet(S), S # {}
  PROVE  Max(S) \in S /\ \A y \in S : Max(S) >= y
<1> DEFINE Upto(x) == {y \in S : y <= x}
           n == Cardinality(S)
<1>1. n \in Nat /\ IsFiniteSet(1 .. n) /\ Cardinality(1 .. n) = n
  <2>1. n \in Nat
    BY FS_CardinalityType
  <2> QED
    BY <2>1, FS_Interval
<1>2. ASSUME NEW x \in S
      PROVE  /\ IsFiniteSet(Upto(x)) /\ Cardinality(Upto(x)) \in 1 .. n
             /\ Cardinality(Upto(x)) = n => Upto(x) = S
  <2>1. Upto(x) \in SUBSET S /\ x \in Upto(x)
    OBVIOUS
  <2>2. /\ IsFiniteSet(Upto(x)) /\ Cardinality(Upto(x)) <= n
        /\ Cardinality(S) = Cardinality(Upto(x)) => S = Upto(x)
    BY <2>1, FS_Subset
  <2>3. Upto(x) # {}
    BY <2>1
  <2> HIDE DEF Upto
  <2>4. Cardinality(Upto(x)) \in Nat
    BY <2>2, FS_CardinalityType
  <2>5. Cardinality(Upto(x)) # 0
    BY <2>2, <2>3, FS_EmptySet
  <2> HIDE DEF n
  <2> QED
    BY <1>1, <2>2, <2>4, <2>5 DEF n
<1>3. ASSUME NEW x \in S, NEW y \in S, x < y
      PROVE  Cardinality(Upto(x)) # Cardinality(Upto(y))
  <2>a. x \in Int /\ y \in Int
    OBVIOUS
  <2>b. ASSUME NEW z \in S, z <= x
        PROVE  z <= y
    <3>1. z \in Int
      OBVIOUS
    <3> QED
      BY <1>3, <2>a, <2>b, <3>1
  <2>c. Upto(x) \in SUBSET Upto(y)
    BY <2>b
  <2>d. y \in Upto(y) /\ (y \in Upto(x) => y <= x)
    BY <2>a
  <2>1. Upto(x) \in SUBSET Upto(y) /\ y \in Upto(y) /\ y \notin Upto(x)
    BY <1>3, <2>a, <2>c, <2>d
  <2> HIDE DEF Upto
  <2>2. Cardinality(Upto(y)) = Cardinality(Upto(x)) => Upto(y) = Upto(x)
    BY <1>2, <2>1, FS_Subset
  <2> QED
    BY <2>1, <2>2
<1> DEFINE c == [x \in S |-> Cardinality(Upto(x))]
<1>4. c \in Injection(S, 1 .. n)
  <2>1. c \in [S -> 1 .. n]
    BY <1>2
  <2>2. \A x, y \in S : c[x] = c[y] => x = y
    <3>1. ASSUME NEW x \in S, NEW y \in S, x # y
          PROVE  c[x] # c[y]
      <4>1. x < y \/ y < x
        BY <3>1
      <4> QED
        BY <1>3, <4>1
    <3> QED
      BY <3>1
  <2> QED
    BY <2>1, <2>2 DEF Injection, IsInjective
<1>5. c \in Surjection(S, 1 .. n)
  BY <1>1, <1>4, FS_Injection
<1>6. n \in 1 .. n
  BY <1>1, FS_EmptySet
<1>7. PICK x \in S : c[x] = n
  BY <1>5, <1>6 DEF Surjection
<1>8. Upto(x) = S
  BY <1>2, <1>7
<1> QED
  BY <1>8 DEF Max

LEMMA MaxCodeIn ==
  ASSUME TypeInv, NEW t \in Tables
  PROVE  /\ Codes(t) = CodesIn(db, t)
         /\ Codes(t) # {} => Max(Codes(t)) \in Nat /\ \A c \in Codes(t) : c <= Max(Codes(t))
<1>1. db.quotes \in Seq(QuoteRows) /\ db.orders \in Seq(OrderRows)
  BY DEF TypeInv, TypedTables
<1>2. DOMAIN db[t] = 1 .. Len(db[t]) /\ Len(db[t]) \in Nat /\ \A i \in DOMAIN db[t] : db[t][i].code \in Nat
  <2>a. ASSUME NEW s \in Seq(QuoteRows) \cup Seq(OrderRows)
        PROVE  DOMAIN s = 1 .. Len(s) /\ Len(s) \in Nat /\ \A i \in DOMAIN s : s[i].code \in Nat
    <3>1. CASE s \in Seq(QuoteRows)
      <4>1. DOMAIN s = 1 .. Len(s) /\ Len(s) \in Nat /\ \A i \in DOMAIN s : s[i] \in QuoteRows
        BY <3>1
      <4> QED
        BY <4>1 DEF QuoteRows
    <3>2. CASE s \in Seq(OrderRows)
      <4>1. DOMAIN s = 1 .. Len(s) /\ Len(s) \in Nat /\ \A i \in DOMAIN s : s[i] \in OrderRows
        BY <3>2
      <4> QED
        BY <4>1 DEF OrderRows
    <3> QED
      BY <3>1, <3>2
  <2>1. CASE t = "quotes"
    BY <1>1, <2>a, <2>1
  <2>2. CASE t = "orders"
    BY <1>1, <2>a, <2>2
  <2> QED
    BY <2>1, <2>2 DEF Tables
<1> DEFINE S == {db[t][i].code : i \in DOMAIN db[t]}
<1>3. IsFiniteSet(DOMAIN db[t])
  BY <1>2, FS_Interval
<1>4. IsFiniteSet(S)
  <2> DEFINE f == [i \in DOMAIN db[t] |-> db[t][i].code]
  <2>1. f \in Surjection(DOMAIN db[t], S)
    BY DEF Surjection
  <2> QED
    BY <1>3, <2>1, FS_Surjection
<1>5. Codes(t) = CodesIn(db, t) /\ Codes(t) \in SUBSET S /\ S \in SUBSET Nat
  BY <1>2 DEF Codes, CodesIn
<1>6. IsFiniteSet(Codes(t)) /\ Codes(t) \in SUBSET Int /\ Codes(t) \in SUBSET Nat
  BY <1>4, <1>5, FS_Subset
<1> HIDE DEF S
<1>7. Codes(t) # {} => Max(Codes(t)) \in Codes(t) /\ \A c \in Codes(t) : Max(Codes(t)) >= c
  BY <1>6, MaxIn
<1>8. ASSUME Codes(t) # {}, NEW c \in Codes(t)
      PROVE  c <= Max(Codes(t))
  <2>1. c \in Int /\ Max(Codes(t)) \in Int /\ Max(Codes(t)) >= c
    BY <1>6, <1>7, <1>8
  <2> QED
    BY <2>1
<1> QED
  BY <1>5, <1>6, <1>7, <1>8

(* The four queries of the generator.                                      *)
LEMMA NextTables ==
  ASSUME TypeInv, NEW t \in Tables, NEW n \in Nat
  PROVE  LET e == [db EXCEPT !.next[t] = n]
         IN  Grows(db, e) /\ e.quotes = db.quotes /\ e.orders = db.orders /\ e.next = [db.next EXCEPT ![t] = n]
<1> DEFINE e == [db EXCEPT !.next[t] = n]
<1>1. db.next \in [Tables -> Nat] /\ db \in TypedTables
  BY DEF TypeInv, TypedTables
<1>2. e.quotes = db.quotes /\ e.orders = db.orders /\ e.next = [db.next EXCEPT ![t] = n]
  BY <1>1 DEF TypedTables
<1>3. [db.next EXCEPT ![t] = n] \in [Tables -> Nat]
  BY <1>1
<1>4. e \in TypedTables
  BY <1>1, <1>2, <1>3 DEF TypedTables
<1> QED
  BY <1>1, <1>2, <1>4 DEF Grows

(* A step of the generator: the request is given up, or goes on with it.   *)
Draws(r) ==
  /\ Kept(r) /\ clock' = clock /\ db'.quotes = db.quotes /\ db'.orders = db.orders /\ Drawing(req[r])
  /\ \/ req'[r] = Idle
     \/ /\ Drawing(req'[r]) /\ req'[r].op = req[r].op /\ req'[r].on = req[r].on /\ req'[r].stale = req[r].stale
        /\ Table(req'[r]) = Table(req[r])

LEMMA IncrementStep ==
  ASSUME TypeInv, NEW r \in Request, Increment(r)
  PROVE  /\ Draws(r) /\ Table(req[r]) \in Tables /\ ~Has(r, "quote")' /\ ~Has(r, "order")'
         /\ req'[r].number = db.next[Table(req[r])]
         /\ db'.next = [db.next EXCEPT ![Table(req[r])] = db.next[Table(req[r])] + 1]
<1> DEFINE t == Head(Todo(r)).table
<1>1. req[r].todo # <<>> /\ Head(req[r].todo).kind = "code" /\ t = Head(req[r].todo).table
  BY DEF Increment, Has, Busy, Todo
<1>2. IsRequest(db, req[r]) /\ req[r].tries \in Nat
  BY Typed DEF IsRequest
<1>3. PICK rest : /\ Save(r, [db EXCEPT !.next[t] = @ + 1], rest)
                  /\ rest = [req[r] EXCEPT !.number = db.next[t], !.todo[1] = Check(t)]
  BY DEF Increment
<1>4. t = Table(req[r]) /\ t \in Tables /\ db.next[t] \in Nat /\ db.next[t] + 1 \in Nat
  BY <1>1, <1>2, GenHead DEF TypeInv, TypedTables
<1>5. /\ IsGen(Check(t), Head(req[r].todo).table) /\ Check(t).kind = "check"
      /\ Head(req[r].todo).kind \in {"code", "check", "highest", "correct"}
  BY <1>1 DEF IsGen
<1> HIDE DEF t
<1>6. rest = Redrawn(req[r], db.next[t], req[r].tries, Check(t))
  BY <1>2, <1>3 DEF IsRequest, Redrawn
<1>7. /\ IsTyped(db, rest) /\ Drawing(rest) /\ Table(rest) = Table(req[r]) /\ Head(rest.todo) = Check(t)
      /\ rest.op = req[r].op /\ rest.on = req[r].on /\ rest.stale = req[r].stale /\ rest.number = db.next[t]
  BY <1>1, <1>2, <1>4, <1>5, <1>6, GenRest
<1>8. /\ db' = [db EXCEPT !.next[t] = db.next[t] + 1] /\ clock' = clock /\ req' = [s \in Request |-> req'[s]]
      /\ req'[r] = rest /\ \A s \in Request \ {r} : Fresh(r, s)
  BY <1>3, SaveEffect
<1>9. /\ Grows(db, db') /\ db'.quotes = db.quotes /\ db'.orders = db.orders
      /\ db'.next = [db.next EXCEPT ![t] = db.next[t] + 1]
  BY <1>4, <1>8, NextTables
<1>10. IsTyped(db', rest)
  BY <1>7, <1>9, GrowsTyped
<1>11. Drawing(req[r]) /\ Head(rest.todo).kind = "check"
  BY <1>1, <1>7 DEF Drawing
<1> QED
  BY <1>4, <1>7, <1>8, <1>9, <1>10, <1>11 DEF Kept, Draws, Has, Todo

(* A code that is taken is looked for; one that is free goes with its row. *)
LEMMA CheckStep ==
  ASSUME TypeInv, NEW r \in Request, CheckCode(r)
  PROVE  /\ Draws(r) /\ db' = db
         /\ req'[r] # Idle /\ req'[r].number = req[r].number
         /\ Has(r, "quote")' \/ Has(r, "order")' => req[r].number \notin Codes(Table(req[r]))
<1> DEFINE t == Head(Todo(r)).table
<1>1. req[r].todo # <<>> /\ Head(req[r].todo).kind = "check" /\ t = Head(req[r].todo).table
  BY DEF CheckCode, Has, Busy, Todo
<1>2. IsRequest(db, req[r]) /\ req[r].tries + 1 \in Nat /\ req[r].number \in Nat
  BY Typed DEF IsRequest
<1>3. t = Table(req[r]) /\ t \in Tables
  BY <1>1, <1>2, GenHead
<1>4. PICK rest : /\ Save(r, db, rest)
                  /\ \/ /\ req[r].number \in Codes(t)
                        /\ rest = [req[r] EXCEPT !.tries = @ + 1, !.todo[1] = Highest(t)]
                     \/ req[r].number \notin Codes(t) /\ rest = Then(r, Tail(Todo(r)))
  BY DEF CheckCode, Write
<1>5. /\ db' = db /\ clock' = clock /\ req' = [s \in Request |-> req'[s]] /\ req'[r] = rest
      /\ \A s \in Request \ {r} : Fresh(r, s)
  BY <1>4, SaveEffect
<1>a. Drawing(req[r]) /\ (\A x : Drawing(x) => x # Idle)
  BY <1>1 DEF Drawing, Idle
<1>6. CASE req[r].number \in Codes(t)
  <2>1. rest = Redrawn(req[r], req[r].number, req[r].tries + 1, Highest(t))
    BY <1>2, <1>4, <1>6 DEF IsRequest, Redrawn
  <2>2. CodesIn(db, Table(req[r])) # {}
    <3> HIDE DEF t
    <3> QED
      BY <1>3, <1>6, MaxCodeIn
  <2>3. IsGen(Highest(t), Head(req[r].todo).table) /\ Head(req[r].todo).kind \in {"code", "check", "highest", "correct"}
    BY <1>1 DEF IsGen
  <2>4. /\ IsTyped(db, rest) /\ Drawing(rest) /\ Table(rest) = Table(req[r]) /\ Head(rest.todo) = Highest(t)
        /\ rest.op = req[r].op /\ rest.on = req[r].on /\ rest.stale = req[r].stale /\ rest.number = req[r].number
    <3> HIDE DEF t
    <3> QED
      BY <1>1, <1>2, <2>1, <2>2, <2>3, GenRest
  <2>5. Head(rest.todo).kind = "highest"
    BY <2>4
  <2> QED
    BY <1>a, <1>5, <2>4, <2>5, SameTables DEF Draws, Kept, Has, Todo
<1>7. CASE req[r].number \notin Codes(t)
  <2>1. rest = Then(r, Tail(req[r].todo))
    BY <1>4, <1>7 DEF Todo
  <2>2. Tail(req[r].todo) # <<>>
    BY <1>1, <1>2, GenTail
  <2>3. rest = [req[r] EXCEPT !.todo = Tail(req[r].todo)]
    BY <2>1, <2>2 DEF Then
  <2>4. /\ IsTyped(db, rest) /\ Drawing(rest) /\ Table(rest) = Table(req[r])
        /\ rest.op = req[r].op /\ rest.on = req[r].on /\ rest.stale = req[r].stale /\ rest.number = req[r].number
    BY <1>1, <1>2, <2>3, GenTail
  <2> QED
    BY <1>a, <1>3, <1>5, <1>7, <2>4, SameTables DEF Draws, Kept
<1> QED
  BY <1>6, <1>7

LEMMA ReadHighestStep ==
  ASSUME TypeInv, NEW r \in Request, ReadHighest(r)
  PROVE  /\ Draws(r) /\ db' = db /\ ~Has(r, "quote")' /\ ~Has(r, "order")'
         /\ req'[r] # Idle /\ req'[r].number = req[r].number
<1> DEFINE t == Head(Todo(r)).table
           m == Max(Codes(t)) + 2
<1>1. req[r].todo # <<>> /\ Head(req[r].todo).kind = "highest" /\ t = Head(req[r].todo).table
  BY DEF ReadHighest, Has, Busy, Todo
<1>2. IsTyped(db, req[r]) /\ IsRequest(db, req[r]) /\ req[r].tries \in Nat /\ req[r].number \in Nat
  BY Typed DEF IsRequest
<1>3. t = Table(req[r]) /\ t \in Tables /\ CodesIn(db, t) # {}
  BY <1>1, <1>2, GenHead DEF IsTyped
<1>4. m \in Nat
  <2> HIDE DEF t
  <2>1. Max(Codes(t)) \in Nat
    BY <1>3, MaxCodeIn
  <2> QED
    BY <2>1
<1> HIDE DEF m
<1>5. PICK rest : Save(r, db, rest) /\ rest = [req[r] EXCEPT !.todo[1] = Correct(t, m)]
  BY DEF ReadHighest, m
<1>6. /\ db' = db /\ clock' = clock /\ req' = [s \in Request |-> req'[s]] /\ req'[r] = rest
      /\ \A s \in Request \ {r} : Fresh(r, s)
  BY <1>5, SaveEffect
<1>7. rest = Redrawn(req[r], req[r].number, req[r].tries, Correct(t, m))
  BY <1>2, <1>5 DEF IsRequest, Redrawn
<1>8. /\ IsGen(Correct(t, m), Head(req[r].todo).table) /\ Correct(t, m).kind = "correct"
      /\ Head(req[r].todo).kind \in {"code", "check", "highest", "correct"}
  BY <1>1, <1>4 DEF IsGen
<1>9. /\ IsTyped(db, rest) /\ Drawing(rest) /\ Table(rest) = Table(req[r]) /\ Head(rest.todo) = Correct(t, m)
      /\ rest.op = req[r].op /\ rest.on = req[r].on /\ rest.stale = req[r].stale /\ rest.number = req[r].number
  <2> HIDE DEF t
  <2> QED
    BY <1>1, <1>2, <1>7, <1>8, GenRest
<1>10. Drawing(req[r]) /\ (\A x : Drawing(x) => x # Idle)
  BY <1>1 DEF Drawing, Idle
<1>11. Head(rest.todo).kind = "correct"
  BY <1>9
<1> QED
  BY <1>6, <1>9, <1>10, <1>11, SameTables DEF Draws, Kept, Has, Todo

LEMMA CorrectStep ==
  ASSUME TypeInv, NEW r \in Request, CorrectCounter(r)
  PROVE  /\ Draws(r) /\ Table(req[r]) \in Tables /\ ~Has(r, "quote")' /\ ~Has(r, "order")'
         /\ req'[r] = Idle \/ req'[r].number = req[r].number
         /\ \E n \in Nat : /\ db'.next = [db.next EXCEPT ![Table(req[r])] = n]
                           /\ n < db.next[Table(req[r])] => Rewound
<1> DEFINE w == Head(Todo(r))
           n == w.next
<1>1. req[r].todo # <<>> /\ w.kind = "correct" /\ w = Head(req[r].todo)
  BY DEF CorrectCounter, Has, Busy, Todo
<1>2. IsTyped(db, req[r]) /\ IsRequest(db, req[r]) /\ req[r].tries \in Nat /\ req[r].number \in Nat
  BY Typed DEF IsRequest
<1>3. w.table = Table(req[r]) /\ w.table \in Tables /\ n \in Nat
  <2> HIDE DEF w
  <2>1. IsGen(w, Table(req[r])) /\ w.table = Table(req[r]) /\ Table(req[r]) \in Tables
    BY <1>1, <1>2, GenHead
  <2> QED
    BY <1>1, <2>1 DEF IsGen
<1>4. PICK rest : /\ Save(r, [db EXCEPT !.next[w.table] = n], rest)
                  /\ rest = Idle \/ rest = [req[r] EXCEPT !.todo[1] = Code(w.table)]
  BY DEF CorrectCounter
<1>5. n < db.next[w.table] => Rewound
  BY DEF Rewound
<1> HIDE DEF n, w
<1>6. /\ db' = [db EXCEPT !.next[w.table] = n] /\ clock' = clock /\ req' = [s \in Request |-> req'[s]]
      /\ req'[r] = rest /\ \A s \in Request \ {r} : Fresh(r, s)
  BY <1>4, SaveEffect
<1>7. /\ Grows(db, db') /\ db'.quotes = db.quotes /\ db'.orders = db.orders
      /\ db'.next = [db.next EXCEPT ![w.table] = n]
  BY <1>3, <1>6, NextTables
<1>8. Drawing(req[r])
  BY <1>1 DEF Drawing
<1>9. CASE rest = Idle
  BY <1>3, <1>5, <1>6, <1>7, <1>8, <1>9, IdleOK DEF Draws, Kept, Has, Busy, Todo, Idle
<1>10. CASE rest = [req[r] EXCEPT !.todo[1] = Code(w.table)]
  <2>1. rest = Redrawn(req[r], req[r].number, req[r].tries, Code(w.table))
    BY <1>2, <1>10 DEF IsRequest, Redrawn
  <2>2. /\ IsGen(Code(w.table), Head(req[r].todo).table) /\ Code(w.table).kind = "code"
        /\ Head(req[r].todo).kind \in {"code", "check", "highest", "correct"}
    BY <1>1 DEF IsGen
  <2>3. /\ IsTyped(db, rest) /\ Drawing(rest) /\ Table(rest) = Table(req[r]) /\ Head(rest.todo) = Code(w.table)
        /\ rest.op = req[r].op /\ rest.on = req[r].on /\ rest.stale = req[r].stale /\ rest.number = req[r].number
    BY <1>1, <1>2, <2>1, <2>2, GenRest
  <2>4. Head(rest.todo).kind = "code"
    BY <2>3
  <2>5. IsTyped(db', rest)
    BY <1>7, <2>3, GrowsTyped
  <2> QED
    BY <1>3, <1>5, <1>6, <1>7, <1>8, <2>3, <2>4, <2>5 DEF Draws, Kept, Has, Todo
<1> QED
  BY <1>4, <1>9, <1>10

----------------------------------------------------------------------------
(* The writes of rows.  What each of them leaves is named, to be told from *)
(* the others where an invariant is kept.                                  *)

Refused(r) == db' = db /\ req'[r] = Idle

NewQuote(r, row) ==
  /\ Has(r, "quote") /\ req[r].op \in {"create", "duplicate"} /\ req'[r] = Idle
  /\ row \in QuoteRows /\ row.code = req[r].number /\ req[r].number \notin Codes("quotes")
  /\ row.status = "RASCUNHO" /\ row.order \in DOMAIN db.orders \cup {None}
  /\ req[r].op = "create" => row.total = computeTotals(row.items, row.product)
  /\ row.total = Head(Todo(r)).row.total
  /\ row.items = Head(Todo(r)).row.items /\ row.product = Head(Todo(r)).row.product
  /\ row.deleted = Head(Todo(r)).row.deleted /\ row.order = Head(Todo(r)).row.order
  /\ db' = [db EXCEPT !["quotes"] = Append(@, row)]

NewOrder(r, row) ==
  /\ Has(r, "order") /\ row \in OrderRows /\ row.code = req[r].number /\ req[r].number \notin Codes("orders")
  /\ row.day = clock.day /\ ~row.deleted /\ row.items = (row.quote = None)
  /\ db' = [db EXCEPT !["orders"] = Append(@, row)]
  /\ \/ /\ req[r].op = "createOs" /\ row.quote = req[r].on /\ Finishes(db', req'[r])
        /\ req'[r].on = req[r].on /\ req'[r].stale = req[r].stale /\ req'[r].order = Len(db.orders) + 1
     \/ req[r].op \in {"createOrder", "duplicateOrder"} /\ row.quote = None /\ req'[r] = Idle

LEMMA InsertStep ==
  ASSUME TypeInv, NEW r \in Request, Insert(r)
  PROVE  /\ Kept(r) /\ clock' = clock /\ Drawing(req[r])
         /\ Refused(r) \/ (\E row : NewQuote(r, row)) \/ (\E row : NewOrder(r, row))
<1>0. PICK x, w : x = req[r] /\ w = Head(x.todo)
  OBVIOUS
<1>1. x.todo # <<>> /\ w.kind \in {"quote", "order"} /\ IsRequest(db, x) /\ x.number \in Nat /\ db \in TypedTables
  BY <1>0, Typed DEF Insert, Has, Busy, Todo, IsRequest
<1>2. Drawing(x)
  BY <1>0, <1>1 DEF Drawing
<1>3. \/ /\ x.op \in {"create", "duplicate"} /\ IsQuote(db, w) /\ x.todo = <<w>>
         /\ x.op = "create" => w.row.total = computeTotals(w.row.items, w.row.product)
      \/ x.op = "createOs" /\ IsOrder(w, x.on) /\ x.todo = <<w, AddItems, Link(x.on)>>
      \/ x.op \in {"createOrder", "duplicateOrder"} /\ IsOrder(w, None) /\ x.todo = <<w>>
  <2>1. PICK v :
           \/ /\ x.op \in {"create", "duplicate"} /\ IsQuote(db, v) /\ x.todo = <<v>>
              /\ x.op = "create" => v.row.total = computeTotals(v.row.items, v.row.product)
           \/ x.op = "createOs" /\ IsOrder(v, x.on) /\ x.todo = <<v, AddItems, Link(x.on)>>
           \/ x.op \in {"createOrder", "duplicateOrder"} /\ IsOrder(v, None) /\ x.todo = <<v>>
    BY <1>0, <1>1, InsertNext
  <2>2. w = v
    BY <1>0, <2>1
  <2> QED
    BY <2>1, <2>2
<1>a. (\A a : Tail(<<a>>) = <<>>) /\ (\A a, b, c : Tail(<<a, b, c>>) = <<b, c>> /\ Tail(<<a, b, c>>) # <<>>)
  OBVIOUS
<1>4. PICK t, row, rest :
         /\ t = IF w.kind = "quote" THEN "quotes" ELSE "orders"
         /\ row = IF w.kind = "quote" THEN [w.row EXCEPT !.code = x.number]
                  ELSE [w.row EXCEPT !.code = x.number, !.day = clock.day]
         /\ rest = IF Tail(x.todo) = <<>> THEN Idle
                   ELSE [Idle EXCEPT !.op = x.op, !.on = x.on, !.stale = x.stale,
                                     !.todo = Tail(x.todo), !.order = Len(db[t]) + 1]
         /\ \/ x.number \in Codes(t) /\ Save(r, db, Idle)
            \/ x.number \notin Codes(t) /\ Save(r, [db EXCEPT ![t] = Append(@, row)], rest)
  BY <1>0 DEF Insert, Todo
<1>5. CASE x.number \in Codes(t) /\ Save(r, db, Idle)
  <2>1. /\ db' = db /\ clock' = clock /\ req' = [s \in Request |-> req'[s]] /\ req'[r] = Idle
        /\ \A s \in Request \ {r} : Fresh(r, s)
    BY <1>5, SaveEffect
  <2> QED
    BY <1>0, <1>2, <2>1, IdleOK, SameTables DEF Kept, Refused
<1>6. CASE x.number \notin Codes(t) /\ Save(r, [db EXCEPT ![t] = Append(@, row)], rest)
  <2>2. /\ db' = [db EXCEPT ![t] = Append(@, row)] /\ clock' = clock /\ req' = [s \in Request |-> req'[s]]
        /\ req'[r] = rest /\ \A s \in Request \ {r} : Fresh(r, s)
    BY <1>6, SaveEffect
  <2>3. CASE /\ x.op \in {"create", "duplicate"} /\ IsQuote(db, w) /\ x.todo = <<w>>
             /\ x.op = "create" => w.row.total = computeTotals(w.row.items, w.row.product)
    <3>1. t = "quotes" /\ w.row \in QuoteRows /\ row = [w.row EXCEPT !.code = x.number] /\ w.kind = "quote"
      BY <1>4, <2>3 DEF IsQuote
    <3>2. /\ row \in QuoteRows /\ row.code = x.number /\ row.status = w.row.status /\ row.order = w.row.order
          /\ row.total = w.row.total /\ row.items = w.row.items /\ row.product = w.row.product
          /\ row.deleted = w.row.deleted
      BY <1>1, <3>1 DEF QuoteRows
    <3>3. rest = Idle
      BY <1>4, <1>a, <2>3
    <3>4. Grows(db, db')
      BY <1>1, <2>2, <3>1, <3>2, AppendedQuote
    <3>5. Kept(r) /\ clock' = clock
      BY <2>2, <3>3, <3>4, IdleOK DEF Kept
    <3>6. NewQuote(r, row)
      BY <1>0, <1>1, <1>6, <2>2, <2>3, <3>1, <3>2, <3>3 DEF NewQuote, Has, Busy, Todo, IsQuote
    <3> QED
      BY <1>0, <1>2, <3>5, <3>6
  <2>4. CASE \/ x.op = "createOs" /\ IsOrder(w, x.on) /\ x.todo = <<w, AddItems, Link(x.on)>>
             \/ x.op \in {"createOrder", "duplicateOrder"} /\ IsOrder(w, None) /\ x.todo = <<w>>
    <3>1. t = "orders" /\ w.row \in OrderRows /\ row = [w.row EXCEPT !.code = x.number, !.day = clock.day]
      BY <1>4, <2>4 DEF IsOrder
    <3>2. clock.day \in Int
      BY DEF TypeInv
    <3>3. /\ row \in OrderRows /\ row.code = x.number /\ row.day = clock.day /\ row.quote = w.row.quote
          /\ row.deleted = w.row.deleted /\ row.items = w.row.items
      BY <1>1, <3>1, <3>2 DEF OrderRows
    <3>4. ~row.deleted /\ row.items = (row.quote = None) /\ row.quote = (IF x.op = "createOs" THEN x.on ELSE None)
      BY <2>4, <3>3 DEF IsOrder
    <3>5. /\ Grows(db, db') /\ Len(db.orders) + 1 \in DOMAIN db'.orders /\ db'.orders[Len(db.orders) + 1] = row
          /\ Len(db.orders) \in Nat
      <4>1. db' = [db EXCEPT !["orders"] = Append(@, row)]
        BY <2>2, <3>1
      <4> QED
        BY <1>1, <3>3, <4>1, AppendedOrder
    <3>6. CASE x.op = "createOs"
      <4>1. Tail(x.todo) = <<AddItems, Link(x.on)>>
        BY <1>a, <2>4, <3>6
      <4>2. rest = [Idle EXCEPT !.op = x.op, !.on = x.on, !.stale = x.stale,
                                !.todo = <<AddItems, Link(x.on)>>, !.order = Len(db.orders) + 1]
        <5>1. Tail(x.todo) # <<>> /\ db[t] = db.orders
          BY <3>1, <4>1
        <5> QED
          BY <1>4, <4>1, <5>1
      <4>3. rest = [op |-> x.op, todo |-> <<AddItems, Link(x.on)>>, number |-> None, tries |-> 0,
                    order |-> Len(db.orders) + 1, on |-> x.on, stale |-> x.stale]
        BY <4>2 DEF Idle
      <4>4. Finishes(db', rest)
        BY <3>4, <3>5, <3>6, <4>3 DEF Finishes
      <4>5. x.on \in DOMAIN db'.quotes /\ x.on # None /\ x.stale \in BOOLEAN
        BY <1>1, <3>5, <3>6 DEF IsRequest, Grows
      <4>6. IsRequest(db', rest)
        BY <3>6, <4>3, <4>4, <4>5 DEF IsRequest
      <4>7. (\A v : rest.todo # <<v>>) /\ Head(rest.todo).kind = "items"
        BY <4>3
      <4>8. IsTyped(db', rest)
        BY <4>6, <4>7 DEF IsTyped
      <4>9. NewOrder(r, row)
        BY <1>0, <1>1, <1>6, <2>2, <2>4, <3>1, <3>3, <3>4, <3>6, <4>3, <4>4 DEF NewOrder, Has, Busy, Todo, IsOrder
      <4> QED
        BY <1>0, <1>2, <2>2, <3>5, <4>8, <4>9 DEF Kept
    <3>7. CASE x.op # "createOs"
      <4>1. rest = Idle
        BY <1>4, <1>a, <2>4, <3>7
      <4>2. Kept(r)
        BY <2>2, <3>5, <4>1, IdleOK DEF Kept
      <4>3. NewOrder(r, row)
        BY <1>0, <1>1, <1>6, <2>2, <2>4, <3>1, <3>3, <3>4, <3>7, <4>1 DEF NewOrder, Has, Busy, Todo, IsOrder
      <4> QED
        BY <1>0, <1>2, <2>2, <4>2, <4>3
    <3> QED
      BY <3>6, <3>7
  <2> QED
    BY <1>3, <2>3, <2>4
<1> QED
  BY <1>4, <1>5, <1>6

(* An order that is made of a quote gets its items, then the quote gets it.*)
ItemsIn(r) ==
  LET o == req[r].order
  IN /\ Finishes(db, req[r]) /\ req[r].todo = <<AddItems, Link(req[r].on)>>
     /\ db'.quotes = db.quotes /\ db'.next = db.next /\ DOMAIN db'.orders = DOMAIN db.orders
     /\ db'.orders[o] = [db.orders[o] EXCEPT !.items = TRUE]
     /\ \A p \in DOMAIN db.orders \ {o} : db'.orders[p] = db.orders[p]
     /\ Finishes(db', req'[r]) /\ req'[r].todo = <<Link(req[r].on)>>
     /\ req'[r].on = req[r].on /\ req'[r].order = o /\ req'[r].stale = req[r].stale

LEMMA ItemsStep ==
  ASSUME TypeInv, NEW r \in Request, InsertItems(r)
  PROVE  Kept(r) /\ clock' = clock /\ ItemsIn(r)
<1>0. PICK x, o : x = req[r] /\ o = x.order
  OBVIOUS
<1>1. x.todo # <<>> /\ Head(x.todo).kind = "items" /\ IsRequest(db, x) /\ db \in TypedTables
  BY <1>0, Typed DEF InsertItems, Has, Busy, Todo
<1>2. Finishes(db, x) /\ x.todo = <<AddItems, Link(x.on)>> /\ x.op = "createOs" /\ x.on # None
  BY <1>1, LinkNext
<1>3. o \in DOMAIN db.orders /\ db.orders[o].quote = x.on /\ x.number = None
  BY <1>0, <1>2 DEF Finishes
<1>4. PICK rest : rest = [x EXCEPT !.todo = <<Link(x.on)>>] /\ Save(r, [db EXCEPT !.orders[o].items = TRUE], rest)
  <2>1. Tail(x.todo) = <<Link(x.on)>> /\ <<Link(x.on)>> # <<>>
    BY <1>2
  <2> QED
    BY <1>0, <2>1 DEF InsertItems, Write, Then, Todo
<1>5. PICK row : row = [db.orders[o] EXCEPT !.items = TRUE]
  OBVIOUS
<1>6. db.orders[o] \in OrderRows
  BY <1>1, <1>3 DEF TypedTables
<1>7. /\ row \in OrderRows /\ row.quote = db.orders[o].quote /\ row.code = db.orders[o].code
      /\ row.deleted = db.orders[o].deleted
  BY <1>5, <1>6 DEF OrderRows
<1>8. /\ db' = [db EXCEPT !.orders[o] = row] /\ clock' = clock /\ req' = [s \in Request |-> req'[s]]
      /\ req'[r] = rest /\ \A s \in Request \ {r} : Fresh(r, s)
  BY <1>4, <1>5, SaveEffect
<1>9. /\ Grows(db, db') /\ db'.quotes = db.quotes /\ db'.next = db.next /\ DOMAIN db'.orders = DOMAIN db.orders
      /\ db'.orders[o] = row /\ \A p \in DOMAIN db.orders \ {o} : db'.orders[p] = db.orders[p]
  BY <1>1, <1>3, <1>7, <1>8, WrittenOrder
<1>10. rest = [op |-> x.op, todo |-> <<Link(x.on)>>, number |-> x.number, tries |-> x.tries, order |-> x.order,
               on |-> x.on, stale |-> x.stale]
  BY <1>1, <1>4 DEF IsRequest
<1>11. Finishes(db', rest)
  BY <1>0, <1>2, <1>3, <1>7, <1>9, <1>10 DEF Finishes
<1>12. IsRequest(db', rest)
  BY <1>1, <1>2, <1>9, <1>10, <1>11 DEF IsRequest
<1>13. (\A v : rest.todo = <<v>> => ~IsSet(v, rest.on)) /\ Head(rest.todo).kind = "link"
  BY <1>10 DEF IsSet
<1>14. IsTyped(db', rest)
  BY <1>12, <1>13 DEF IsTyped
<1>15. ItemsIn(r)
  <2>1. rest.todo = <<Link(x.on)>> /\ rest.on = x.on /\ rest.order = o /\ rest.stale = x.stale
    BY <1>0, <1>10
  <2> QED
    BY <1>0, <1>2, <1>5, <1>8, <1>9, <1>11, <2>1 DEF ItemsIn
<1> QED
  BY <1>8, <1>9, <1>14, <1>15 DEF Kept

LinkIn(r) ==
  LET q == req[r].on
      o == req[r].order
  IN /\ Finishes(db, req[r]) /\ q \in DOMAIN db.quotes /\ Has(r, "link") /\ req[r].todo = <<Link(q)>>
     /\ db'.orders = db.orders /\ db'.next = db.next /\ DOMAIN db'.quotes = DOMAIN db.quotes
     /\ db'.quotes[q] = [db.quotes[q] EXCEPT !.order = o]
     /\ \A p \in DOMAIN db.quotes \ {q} : db'.quotes[p] = db.quotes[p]
     /\ req'[r] = Idle

LEMMA LinkStep ==
  ASSUME TypeInv, NEW r \in Request, WriteLink(r)
  PROVE  Kept(r) /\ clock' = clock /\ LinkIn(r)
<1>0. PICK x, o, q : x = req[r] /\ o = x.order /\ q = x.on
  OBVIOUS
<1>1. x.todo # <<>> /\ Head(x.todo).kind = "link" /\ IsRequest(db, x) /\ db \in TypedTables /\ Has(r, "link")
  BY <1>0, Typed DEF WriteLink, Has, Busy, Todo
<1>2. Finishes(db, x) /\ x.todo = <<Link(q)>> /\ x.op = "createOs" /\ x.on # None
  BY <1>0, <1>1, LinkNext
<1>3. o \in DOMAIN db.orders /\ q \in DOMAIN db.quotes /\ o \in Nat
  <2>1. o \in DOMAIN db.orders /\ q \in DOMAIN db.quotes
    BY <1>0, <1>1, <1>2 DEF Finishes, IsRequest
  <2>2. db.orders \in Seq(OrderRows)
    BY <1>1 DEF TypedTables
  <2> QED
    BY <2>1, <2>2
<1>4. Save(r, [db EXCEPT !.quotes[q].order = o], Idle)
  <2>1. Tail(x.todo) = <<>> /\ Head(x.todo).q = q
    BY <1>2
  <2> QED
    BY <1>0, <2>1 DEF WriteLink, Write, Then, Todo
<1>5. PICK row : row = [db.quotes[q] EXCEPT !.order = o]
  OBVIOUS
<1>6. db.quotes[q] \in QuoteRows
  BY <1>1, <1>3 DEF TypedTables
<1>7. row \in QuoteRows /\ row.code = db.quotes[q].code /\ row.link = db.quotes[q].link
  BY <1>3, <1>5, <1>6 DEF QuoteRows
<1>8. /\ db' = [db EXCEPT !.quotes[q] = row] /\ clock' = clock /\ req' = [s \in Request |-> req'[s]]
      /\ req'[r] = Idle /\ \A s \in Request \ {r} : Fresh(r, s)
  BY <1>4, <1>5, SaveEffect
<1>9. /\ Grows(db, db') /\ db'.orders = db.orders /\ db'.next = db.next /\ DOMAIN db'.quotes = DOMAIN db.quotes
      /\ db'.quotes[q] = row /\ \A p \in DOMAIN db.quotes \ {q} : db'.quotes[p] = db.quotes[p]
  BY <1>1, <1>3, <1>7, <1>8, WrittenQuote
<1>10. LinkIn(r)
  BY <1>0, <1>1, <1>2, <1>3, <1>5, <1>8, <1>9 DEF LinkIn
<1> QED
  BY <1>8, <1>9, <1>10, IdleOK DEF Kept

(* An order is deleted first, and leaves its quotes after.                 *)
Deleted(r, o) ==
  /\ o \in DOMAIN db.orders /\ req[r].todo = <<DeleteOrder(o), Unlink(o)>> /\ Has(r, "delete")
  /\ db'.quotes = db.quotes /\ db'.next = db.next /\ DOMAIN db'.orders = DOMAIN db.orders
  /\ db'.orders[o] = [db.orders[o] EXCEPT !.deleted = TRUE]
  /\ \A p \in DOMAIN db.orders \ {o} : db'.orders[p] = db.orders[p]
  /\ req'[r].todo = <<Unlink(o)>> /\ req'[r].op = "removeOrder" /\ req'[r].number = None

LEMMA DeleteStep ==
  ASSUME TypeInv, NEW r \in Request, WriteDelete(r)
  PROVE  Kept(r) /\ clock' = clock /\ \E o : Deleted(r, o)
<1>0. PICK x : x = req[r]
  OBVIOUS
<1>1. x.todo # <<>> /\ Head(x.todo).kind = "delete" /\ IsRequest(db, x) /\ db \in TypedTables /\ Has(r, "delete")
  BY <1>0, Typed DEF WriteDelete, Has, Busy, Todo
<1>2. PICK o \in DOMAIN db.orders : x.todo = <<DeleteOrder(o), Unlink(o)>>
  <2>1. PICK o \in DOMAIN db.orders : x.todo = <<DeleteOrder(o), Unlink(o)>> \/ x.todo = <<Unlink(o)>>
    BY <1>1, RemoveNext
  <2> QED
    BY <1>1, <2>1
<1>3. x.op = "removeOrder" /\ x.number = None
  BY <1>1, RemoveNext
<1>4. PICK rest : rest = [x EXCEPT !.todo = <<Unlink(o)>>] /\ Save(r, [db EXCEPT !.orders[o].deleted = TRUE], rest)
  <2>1. Tail(x.todo) = <<Unlink(o)>> /\ <<Unlink(o)>> # <<>> /\ Head(x.todo).o = o
    BY <1>2
  <2> QED
    BY <1>0, <2>1 DEF WriteDelete, Write, Then, Todo
<1>5. PICK row : row = [db.orders[o] EXCEPT !.deleted = TRUE]
  OBVIOUS
<1>6. db.orders[o] \in OrderRows
  BY <1>1, <1>2 DEF TypedTables
<1>7. /\ row \in OrderRows /\ row.quote = db.orders[o].quote /\ row.code = db.orders[o].code
      /\ row.deleted
  BY <1>5, <1>6 DEF OrderRows
<1>8. /\ db' = [db EXCEPT !.orders[o] = row] /\ clock' = clock /\ req' = [s \in Request |-> req'[s]]
      /\ req'[r] = rest /\ \A s \in Request \ {r} : Fresh(r, s)
  BY <1>4, <1>5, SaveEffect
<1>9. /\ Grows(db, db') /\ db'.quotes = db.quotes /\ db'.next = db.next /\ DOMAIN db'.orders = DOMAIN db.orders
      /\ db'.orders[o] = row /\ \A p \in DOMAIN db.orders \ {o} : db'.orders[p] = db.orders[p]
  BY <1>1, <1>2, <1>7, <1>8, WrittenOrder
<1>10. rest = [op |-> x.op, todo |-> <<Unlink(o)>>, number |-> x.number, tries |-> x.tries, order |-> x.order,
               on |-> x.on, stale |-> x.stale]
  BY <1>1, <1>4 DEF IsRequest
<1>11. Removes(db', rest)
  BY <1>2, <1>3, <1>7, <1>9, <1>10 DEF Removes
<1>12. IsRequest(db', rest)
  <2>1. x.on \in DOMAIN db'.quotes \cup {None} /\ x.tries \in Nat /\ x.number \in Nat /\ x.stale \in BOOLEAN
    BY <1>1, <1>9 DEF IsRequest
  <2>2. x.op \notin Setters \cup {"createOs"}
    BY <1>3 DEF Setters, Linkers
  <2> QED
    BY <1>10, <1>11, <2>1, <2>2 DEF IsRequest
<1>13. (\A v : rest.todo = <<v>> => ~IsSet(v, rest.on)) /\ Head(rest.todo).kind = "unlink"
  BY <1>10 DEF IsSet
<1>14. IsTyped(db', rest)
  BY <1>12, <1>13 DEF IsTyped
<1>15. Deleted(r, o)
  <2>1. rest.todo = <<Unlink(o)>> /\ rest.op = "removeOrder" /\ rest.number = None
    BY <1>3, <1>10
  <2> QED
    BY <1>0, <1>1, <1>2, <1>5, <1>8, <1>9, <2>1 DEF Deleted
<1> QED
  BY <1>8, <1>9, <1>14, <1>15 DEF Kept

Unlinked(r, o) ==
  /\ o \in DOMAIN db.orders /\ db.orders[o].deleted /\ req[r].todo = <<Unlink(o)>> /\ Has(r, "unlink")
  /\ db'.orders = db.orders /\ db'.next = db.next /\ DOMAIN db'.quotes = DOMAIN db.quotes
  /\ \A q \in DOMAIN db.quotes :
       db'.quotes[q] = IF db.quotes[q].order = o THEN [db.quotes[q] EXCEPT !.order = None] ELSE db.quotes[q]
  /\ req'[r] = Idle

LEMMA UnlinkStep ==
  ASSUME TypeInv, NEW r \in Request, WriteUnlink(r)
  PROVE  Kept(r) /\ clock' = clock /\ \E o : Unlinked(r, o)
<1>0. PICK x : x = req[r]
  OBVIOUS
<1>1. x.todo # <<>> /\ Head(x.todo).kind = "unlink" /\ IsRequest(db, x) /\ db \in TypedTables /\ Has(r, "unlink")
  BY <1>0, Typed DEF WriteUnlink, Has, Busy, Todo
<1>2. PICK o \in DOMAIN db.orders : x.todo = <<Unlink(o)>> /\ db.orders[o].deleted
  <2>1. PICK o \in DOMAIN db.orders : \/ x.todo = <<DeleteOrder(o), Unlink(o)>>
                                      \/ x.todo = <<Unlink(o)>> /\ db.orders[o].deleted
    BY <1>1, RemoveNext
  <2> QED
    BY <1>1, <2>1
<1>3. PICK rows :
        /\ rows = [q \in DOMAIN db.quotes |->
                     IF db.quotes[q].order = o THEN [db.quotes[q] EXCEPT !.order = None] ELSE db.quotes[q]]
        /\ Save(r, [db EXCEPT !.quotes = rows], Idle)
  <2>1. Tail(x.todo) = <<>> /\ Head(x.todo).o = o
    BY <1>2
  <2> QED
    BY <1>0, <2>1 DEF WriteUnlink, Write, Then, Todo
<1>4. ASSUME NEW q \in DOMAIN db.quotes
      PROVE  /\ rows[q] \in QuoteRows /\ rows[q].code = db.quotes[q].code
             /\ db.quotes[q].link # None => rows[q].link # None
  <2>1. db.quotes[q] \in QuoteRows
    BY <1>1 DEF TypedTables
  <2>2. rows[q] \in {db.quotes[q], [db.quotes[q] EXCEPT !.order = None]}
    BY <1>3
  <2> QED
    BY <2>1, <2>2 DEF QuoteRows
<1>5. DOMAIN rows = DOMAIN db.quotes /\ rows = [q \in DOMAIN rows |-> rows[q]]
  BY <1>3
<1>6. /\ db' = [db EXCEPT !.quotes = rows] /\ clock' = clock /\ req' = [s \in Request |-> req'[s]]
      /\ req'[r] = Idle /\ \A s \in Request \ {r} : Fresh(r, s)
  BY <1>3, SaveEffect
<1>7. Grows(db, db') /\ db'.orders = db.orders /\ db'.next = db.next /\ db'.quotes = rows
  BY <1>1, <1>4, <1>5, <1>6, WrittenQuotes
<1>8. Unlinked(r, o)
  BY <1>0, <1>1, <1>2, <1>3, <1>5, <1>6, <1>7 DEF Unlinked
<1> QED
  BY <1>6, <1>7, <1>8, IdleOK DEF Kept

(* A quote is written.                                                     *)
WrittenBy(r, set) ==
  LET q == req[r].on
      row == db.quotes[q]
  IN /\ q \in DOMAIN db.quotes /\ req[r].op \in Setters /\ Has(r, "set") /\ Head(Todo(r)).q = q
     /\ set = Head(Todo(r)).set /\ IsChange(db, req[r], set)
     /\ db'.orders = db.orders /\ db'.next = db.next /\ DOMAIN db'.quotes = DOMAIN db.quotes
     /\ db'.quotes[q] = Patched(row, set)
     /\ \A p \in DOMAIN db.quotes \ {q} : db'.quotes[p] = db.quotes[p]
     /\ req'[r] = Idle

LEMMA PatchedRow ==
  ASSUME NEW d \in TypedTables, NEW x, x.on \in DOMAIN d.quotes, NEW set, IsChange(d, x, set)
  PROVE  LET row == d.quotes[x.on]
             new == Patched(row, set)
         IN  /\ new \in QuoteRows /\ new.code = row.code /\ (row.link # None => new.link # None)
             /\ \A f \in {"status", "items", "product", "total", "order", "created", "validity", "link", "deleted", "code"} :
                  new[f] = IF f \in DOMAIN set THEN set[f] ELSE row[f]
<1> DEFINE row == d.quotes[x.on]
           new == Patched(row, set)
           fields == {"status", "items", "product", "total", "order", "created", "validity", "link", "deleted", "code"}
<1>1. row \in QuoteRows
  BY DEF TypedTables
<1>2. DOMAIN row = fields
  BY <1>1 DEF QuoteRows
<1>3. DOMAIN new = fields /\ \A f \in fields : new[f] = IF f \in DOMAIN set THEN set[f] ELSE row[f]
  BY <1>2 DEF Patched
<1>4. new = [status |-> new["status"], items |-> new["items"], product |-> new["product"], total |-> new["total"],
             order |-> new["order"], created |-> new["created"], validity |-> new["validity"], link |-> new["link"],
             deleted |-> new["deleted"], code |-> new["code"]]
  BY <1>2 DEF Patched
<1>5. DOMAIN d.orders \subseteq Nat
  <2>1. d.orders \in Seq(OrderRows)
    BY DEF TypedTables
  <2> QED
    BY <2>1
<1>6. /\ row.status \in Status /\ row.items \in Int /\ row.product \in Int /\ row.total \in Int /\ row.order \in Nat
      /\ row.created \in Nat /\ row.validity \in Nat /\ row.link \in Nat /\ row.deleted \in BOOLEAN /\ row.code \in Nat
  BY <1>1 DEF QuoteRows
<1> HIDE DEF new, row
<1>7. new["items"] \in Int /\ new["product"] \in Int /\ new["total"] \in Int
  BY <1>3, <1>6 DEF IsChange
<1>8. new["status"] \in Status /\ new["validity"] \in Nat /\ new["link"] \in Nat /\ new["deleted"] \in BOOLEAN
  BY <1>3, <1>6 DEF IsChange
<1>9. new["order"] \in Nat
  BY <1>3, <1>5, <1>6 DEF IsChange
<1>10. new["created"] = row.created /\ new["code"] = row.code /\ (row.link # None => new["link"] # None)
  BY <1>3, <1>6 DEF IsChange
<1>11. new \in QuoteRows
  BY <1>4, <1>6, <1>7, <1>8, <1>9, <1>10 DEF QuoteRows
<1> QED
  BY <1>3, <1>10, <1>11 DEF new, row

LEMMA WriteStep ==
  ASSUME TypeInv, NEW r \in Request, WriteQuote(r)
  PROVE  Kept(r) /\ clock' = clock /\ \E set : WrittenBy(r, set)
<1>0. PICK x, w, q, set : x = req[r] /\ w = Head(x.todo) /\ q = x.on /\ set = w.set
  OBVIOUS
<1>1. x.todo # <<>> /\ w.kind = "set" /\ IsRequest(db, x) /\ IsTyped(db, x) /\ db \in TypedTables /\ Has(r, "set")
  BY <1>0, Typed DEF WriteQuote, Has, Busy, Todo
<1>2. x.op \in Setters /\ q \in DOMAIN db.quotes /\ x.todo = <<w>> /\ IsSet(w, x.on) /\ w.q = q
  <2>1. /\ x.op \in Setters /\ x.on \in DOMAIN db.quotes
        /\ \E v : x.todo = <<v>> /\ Head(x.todo) = v /\ v.q = x.on /\ (v.kind = "set" => IsSet(v, x.on))
    BY <1>0, <1>1, SetNext
  <2> QED
    BY <1>0, <1>1, <2>1
<1>3. IsChange(db, x, set)
  BY <1>0, <1>1, <1>2 DEF IsTyped
<1>4. Save(r, [db EXCEPT !.quotes[q] = Patched(db.quotes[q], set)], Idle)
  <2>1. Tail(x.todo) = <<>>
    BY <1>2
  <2> QED
    BY <1>0, <1>2, <2>1 DEF WriteQuote, Write, Then, Todo
<1>5. PICK row : row = Patched(db.quotes[q], set)
  OBVIOUS
<1>6. row \in QuoteRows /\ row.code = db.quotes[q].code /\ (db.quotes[q].link # None => row.link # None)
  BY <1>0, <1>1, <1>2, <1>3, <1>5, PatchedRow
<1>7. /\ db' = [db EXCEPT !.quotes[q] = row] /\ clock' = clock /\ req' = [s \in Request |-> req'[s]]
      /\ req'[r] = Idle /\ \A s \in Request \ {r} : Fresh(r, s)
  BY <1>4, <1>5, SaveEffect
<1>8. /\ Grows(db, db') /\ db'.orders = db.orders /\ db'.next = db.next /\ DOMAIN db'.quotes = DOMAIN db.quotes
      /\ db'.quotes[q] = row /\ \A p \in DOMAIN db.quotes \ {q} : db'.quotes[p] = db.quotes[p]
  BY <1>1, <1>2, <1>6, <1>7, WrittenQuote
<1>9. WrittenBy(r, set)
  BY <1>0, <1>1, <1>2, <1>3, <1>5, <1>7, <1>8 DEF WrittenBy, Todo
<1> QED
  BY <1>7, <1>8, <1>9, IdleOK DEF Kept

(* The items are read, and the total with them.                            *)
ReadBy(r, set) ==
  LET x == req[r]
  IN /\ x.op = "update" /\ x.on \in DOMAIN db.quotes /\ Has(r, "reread") /\ set = Head(Todo(r)).set
     /\ set \in [product : Int, total : Int, validity : Nat]
     /\ db' = db
     /\ req'[r] = [x EXCEPT !.todo =
                     <<SetQuote(x.on, [set EXCEPT !.total = computeTotals(db.quotes[x.on].items, set.product)])>>]

LEMMA ReadStep ==
  ASSUME TypeInv, NEW r \in Request, ReadItems(r)
  PROVE  Kept(r) /\ clock' = clock /\ \E set : ReadBy(r, set)
<1>0. PICK x, w, q, set : x = req[r] /\ w = Head(x.todo) /\ q = x.on /\ set = w.set
  OBVIOUS
<1>1. x.todo # <<>> /\ w.kind = "reread" /\ IsRequest(db, x) /\ db \in TypedTables /\ Has(r, "reread")
  BY <1>0, Typed DEF ReadItems, Has, Busy, Todo
<1>2. /\ x.op = "update" /\ q \in DOMAIN db.quotes /\ x.todo = <<w>> /\ w.q = q /\ x.on # None
      /\ set \in [product : Int, total : Int, validity : Nat]
  <2>1. /\ x.op \in Setters /\ x.on \in DOMAIN db.quotes /\ x.on # None
        /\ \E v : /\ x.todo = <<v>> /\ Head(x.todo) = v /\ v.q = x.on
                  /\ v.kind = "reread" => IsReread(v, x.on) /\ x.op = "update"
    BY <1>0, <1>1, SetNext
  <2> QED
    BY <1>0, <1>1, <2>1 DEF IsReread
<1>3. PICK new : new = [set EXCEPT !.total = computeTotals(db.quotes[q].items, set.product)]
  OBVIOUS
<1>4. new \in [product : Int, total : Int, validity : Nat]
  <2>1. db.quotes[q] \in QuoteRows
    BY <1>1, <1>2 DEF TypedTables
  <2>2. db.quotes[q].items \in Int /\ set.product \in Int
    BY <1>2, <2>1 DEF QuoteRows
  <2>3. computeTotals(db.quotes[q].items, set.product) \in Int
    BY <2>2 DEF computeTotals
  <2> QED
    BY <1>2, <1>3, <2>3
<1>5. PICK rest : rest = [x EXCEPT !.todo = <<SetQuote(q, new)>>] /\ Save(r, db, rest)
  <2>1. [x.todo EXCEPT ![1] = SetQuote(q, new)] = <<SetQuote(q, new)>>
    BY <1>2
  <2>2. ReadItems(r) => Save(r, db, [x EXCEPT !.todo = [x.todo EXCEPT ![1] = SetQuote(q, new)]])
    BY <1>0, <1>2, <1>3 DEF ReadItems, Todo
  <2> QED
    BY <2>1, <2>2
<1>6. /\ db' = db /\ clock' = clock /\ req' = [s \in Request |-> req'[s]]
      /\ req'[r] = rest /\ \A s \in Request \ {r} : Fresh(r, s)
  BY <1>5, SaveEffect
<1>7. rest = [op |-> x.op, todo |-> <<SetQuote(q, new)>>, number |-> x.number, tries |-> x.tries, order |-> x.order,
              on |-> x.on, stale |-> x.stale]
  BY <1>1, <1>5 DEF IsRequest
<1>8. IsSet(SetQuote(q, new), x.on) /\ Sets(rest)
  <2>1. IsSet(SetQuote(q, new), x.on)
    BY <1>0 DEF IsSet
  <2> QED
    BY <1>2, <1>7, <2>1 DEF Sets, Setters, Linkers
<1>9. IsRequest(db, rest)
  BY <1>1, <1>7, <1>8 DEF IsRequest
<1>10. IsChange(db, rest, new)
  <2>1. DOMAIN new = {"product", "total", "validity"} /\ new["product"] \in Int /\ new["total"] \in Int /\ new["validity"] \in Nat
    BY <1>4
  <2> QED
    BY <2>1 DEF IsChange
<1>11. IsTyped(db, rest)
  <2>1. \A v : rest.todo = <<v>> => v.set = new
    BY <1>7
  <2>2. Head(rest.todo).kind # "highest"
    BY <1>7
  <2> QED
    BY <1>9, <1>10, <2>1, <2>2 DEF IsTyped
<1>12. ReadBy(r, set)
  BY <1>0, <1>1, <1>2, <1>3, <1>5, <1>6 DEF ReadBy, Todo
<1> QED
  BY <1>6, <1>11, <1>12, SameTables DEF Kept

----------------------------------------------------------------------------
(* A request begins.                                                       *)

Keeps(row, new) ==
  row.status \in Decided =>
    /\ new.status = row.status \/ (row.status # "APROVADO" /\ new.status = "CANCELADO")
    /\ row.status = "APROVADO" => new.total = row.total
    /\ new.deleted => row.deleted
SumOK(row) == row.total = computeTotals(row.items, row.product)
Fits(row, set) ==
  LET new == Patched(row, set)
  IN (SumOK(row) => SumOK(new)) /\ Keeps(row, new) /\ (new.deleted => row.deleted \/ new.status \notin Decided)

Begun(r) ==
  /\ Kept(r) /\ db' = db /\ clock' = clock /\ req[r].todo = <<>>
  /\ \A s \in Request \ {r} : req'[s] = req[s]
  /\ req'[r].number = None /\ req'[r].stale = FALSE /\ req'[r].todo # <<>>

LEMMA AskEffect ==
  ASSUME TypeInv, NEW r \in Request, NEW op, NEW todo, NEW on, Ask(r, op, todo, on), todo # <<>>,
         NEW x, x = [op |-> op, todo |-> todo, number |-> None, tries |-> 0, order |-> None, on |-> on, stale |-> FALSE]
  PROVE  req'[r] = x /\ (IsTyped(db, x) => Begun(r))
<1>1. /\ db' = db /\ clock' = clock /\ req[r].todo = <<>>
      /\ req' = [req EXCEPT ![r] = [Idle EXCEPT !.op = op, !.todo = todo, !.on = on]]
  BY DEF Ask, Busy
<1>2. [Idle EXCEPT !.op = op, !.todo = todo, !.on = on] = x
  <2>1. PICK y : y = [Idle EXCEPT !.op = op, !.todo = todo, !.on = on]
    OBVIOUS
  <2>2. y = [op |-> op, todo |-> todo, number |-> None, tries |-> 0, order |-> None, on |-> on, stale |-> FALSE]
    BY <2>1 DEF Idle
  <2> HIDE DEF Idle
  <2> QED
    BY <2>1, <2>2
<1>3. req = [s \in Request |-> req[s]]
  BY DEF TypeInv
<1>4. req'[r] = x /\ (\A s \in Request \ {r} : req'[s] = req[s]) /\ req' = [s \in Request |-> req'[s]]
  BY <1>1, <1>2, <1>3
<1>5. ASSUME NEW s \in Request \ {r}
      PROVE  Fresh(r, s)
  <2>1. IsRequest(db, req[s])
    BY Typed
  <2>2. req[s] = [req[s] EXCEPT !.stale = req[s].stale] /\ req[s].stale \in BOOLEAN
    BY <2>1 DEF IsRequest
  <2> QED
    BY <1>1, <1>4, <2>2 DEF Fresh
<1>6. x.number = None /\ x.stale = FALSE /\ x.todo = todo
  OBVIOUS
<1> HIDE DEF Idle
<1>7. IsTyped(db, x) => Kept(r)
  BY <1>1, <1>4, <1>5, SameTables DEF Kept
<1> QED
  BY <1>1, <1>4, <1>6, <1>7 DEF Begun

AsksSet(r, set) ==
  LET q == req'[r].on
  IN /\ Begun(r) /\ req'[r].op \in Setters /\ q \in DOMAIN db.quotes
     /\ req'[r].todo = <<SetQuote(q, set)>> /\ IsChange(db, req'[r], set)
     /\ Fits(db.quotes[q], set) /\ ~db.quotes[q].deleted
AsksReread(r) ==
  LET q == req'[r].on
  IN /\ Begun(r) /\ req'[r].op = "update" /\ q \in DOMAIN db.quotes
     /\ (\E set : req'[r].todo = <<Reread(q, set)>>)
     /\ db.quotes[q].status \notin Decided /\ ~db.quotes[q].deleted
AsksQuote(r) == Begun(r) /\ req'[r].op \in {"create", "duplicate"} /\ Drawing(req'[r]) /\ ~Has(r, "quote")'
AsksOrder(r) ==
  /\ Begun(r) /\ req'[r].op \in {"createOs", "createOrder", "duplicateOrder"} /\ Has(r, "count")'
  /\ req'[r].op = "createOs" => /\ Converts(req'[r]) /\ req'[r].on \in DOMAIN db.quotes
                                /\ db.quotes[req'[r].on].order = None
AsksRemoval(r) == Begun(r) /\ req'[r].op = "removeOrder" /\ \E o \in DOMAIN db.orders : req'[r].todo = <<DeleteOrder(o), Unlink(o)>>

LEMMA QuoteIds ==
  ASSUME TypeInv
  PROVE  /\ \A q \in DOMAIN db.quotes : q \in Nat \ {0} /\ db.quotes[q] \in QuoteRows
         /\ \A o \in DOMAIN db.orders : o \in Nat \ {0} /\ db.orders[o] \in OrderRows
<1>1. db.quotes \in Seq(QuoteRows) /\ db.orders \in Seq(OrderRows)
  BY DEF TypeInv, TypedTables
<1> QED
  BY <1>1

LEMMA SetAsked ==
  ASSUME TypeInv, NEW r \in Request, NEW op \in Setters, NEW q \in DOMAIN db.quotes, NEW set,
         Ask(r, op, <<SetQuote(q, set)>>, q), IsChange(db, [op |-> op, on |-> q], set), Fits(db.quotes[q], set),
         ~db.quotes[q].deleted
  PROVE  AsksSet(r, set)
<1>1. PICK x : x = [op |-> op, todo |-> <<SetQuote(q, set)>>, number |-> None, tries |-> 0, order |-> None, on |-> q, stale |-> FALSE]
  OBVIOUS
<1>2. req'[r] = x /\ (IsTyped(db, x) => Begun(r))
  <2>1. <<SetQuote(q, set)>> # <<>>
    OBVIOUS
  <2> QED
    BY <1>1, <2>1, AskEffect
<1>3. q # None
  BY QuoteIds
<1>4. Sets(x)
  BY <1>1 DEF Sets, IsSet
<1>5. IsRequest(db, x)
  BY <1>1, <1>3, <1>4 DEF IsRequest
<1>6. IsChange(db, x, set)
  BY <1>1 DEF IsChange
<1>7. \A v : x.todo = <<v>> => v.set = set
  BY <1>1
<1>8. Head(x.todo).kind # "highest"
  BY <1>1
<1>9. IsTyped(db, x)
  BY <1>5, <1>6, <1>7, <1>8 DEF IsTyped
<1> QED
  BY <1>1, <1>2, <1>6, <1>9 DEF AsksSet

LEMMA OrderAsked ==
  ASSUME TypeInv, NEW r \in Request, NEW op \in {"createOs", "createOrder", "duplicateOrder"}, NEW q, NEW todo,
         Ask(r, op, todo, q),
         \/ /\ op = "createOs" /\ q \in DOMAIN db.quotes /\ db.quotes[q].order = None
            /\ todo = <<Count("month"), Code("orders"), AddOrder(OrderRow(q)), AddItems, Link(q)>>
         \/ op = "createOrder" /\ q = None /\ todo = <<Count("cycle"), Code("orders"), AddOrder(OrderRow(None))>>
         \/ op = "duplicateOrder" /\ q = None /\ todo = <<Count("month"), AddOrder(OrderRow(None))>>
  PROVE  AsksOrder(r)
<1>1. PICK x, w : /\ x = [op |-> op, todo |-> todo, number |-> None, tries |-> 0, order |-> None, on |-> q, stale |-> FALSE]
                  /\ w = AddOrder(OrderRow(q))
  OBVIOUS
<1>2. todo # <<>> /\ Head(todo).kind = "count" /\ (\A v : todo # <<v>>)
  <2>1. \A v, a, b, c, d, e : <<a, b, c, d, e>> # <<v>> /\ <<a, b, c>> # <<v>> /\ <<a, b>> # <<v>>
    OBVIOUS
  <2>2. todo # <<>> /\ Head(todo).kind = "count"
    OBVIOUS
  <2> QED
    BY <2>1, <2>2
<1>3. req'[r] = x /\ (IsTyped(db, x) => Begun(r))
  BY <1>1, <1>2, AskEffect
<1>4. q \in Nat /\ q \in DOMAIN db.quotes \cup {None} /\ (op = "createOs" => q # None)
  BY QuoteIds
<1>5. clock.day \in Int
  BY DEF TypeInv
<1>6. IsOrder(w, q)
  BY <1>1, <1>4, <1>5 DEF IsOrder, OrderRow, OrderRows
<1>7. (op = "createOs" => Converts(x)) /\ (op # "createOs" => Orders(x))
  BY <1>1, <1>6 DEF Converts, Orders
<1>8. op \notin Setters
  BY DEF Setters, Linkers
<1>9. IsRequest(db, x)
  BY <1>1, <1>4, <1>7, <1>8 DEF IsRequest
<1>10. IsTyped(db, x)
  BY <1>1, <1>2, <1>9 DEF IsTyped
<1> QED
  BY <1>1, <1>2, <1>3, <1>7, <1>10 DEF AsksOrder, Has, Busy, Todo

LEMMA QuoteAsked ==
  ASSUME TypeInv, NEW r \in Request, NEW op \in {"create", "duplicate"}, NEW on \in DOMAIN db.quotes \cup {None}, NEW row \in QuoteRows,
         Ask(r, op, <<Code("quotes"), AddQuote(row)>>, on),
         row.status = "RASCUNHO", row.order \in DOMAIN db.orders \cup {None},
         op = "create" => row.total = computeTotals(row.items, row.product)
  PROVE  AsksQuote(r)
<1>1. PICK x : x = [op |-> op, todo |-> <<Code("quotes"), AddQuote(row)>>, number |-> None, tries |-> 0, order |-> None,
                    on |-> on, stale |-> FALSE]
  OBVIOUS
<1>2. x.todo # <<>> /\ Head(x.todo).kind = "code" /\ (\A v : x.todo # <<v>>)
  BY <1>1
<1>3. req'[r] = x /\ (IsTyped(db, x) => Begun(r))
  BY <1>1, <1>2, AskEffect
<1>4. IsQuote(db, AddQuote(row)) /\ IsGen(Code("quotes"), "quotes") /\ AddQuote(row).row = row
  BY DEF IsQuote, IsGen
<1>5. Inserts(db, x)
  BY <1>1, <1>4 DEF Inserts
<1>6. op \notin Setters \cup {"createOs"}
  BY DEF Setters, Linkers
<1>7. IsRequest(db, x)
  BY <1>1, <1>5, <1>6 DEF IsRequest
<1>8. IsTyped(db, x)
  BY <1>2, <1>7 DEF IsTyped
<1> QED
  BY <1>1, <1>2, <1>3, <1>8 DEF AsksQuote, Drawing, Has, Todo

(* The handlers of a quote.                                                *)
LEMMA SetFields ==
  ASSUME TypeInv, NEW q \in DOMAIN db.quotes, NEW op \in Setters, NEW set, IsChange(db, [op |-> op, on |-> q], set)
  PROVE  LET row == db.quotes[q]
             new == Patched(row, set)
         IN  /\ row \in QuoteRows
             /\ new.status = IF "status" \in DOMAIN set THEN set.status ELSE row.status
             /\ new.items = IF "items" \in DOMAIN set THEN set.items ELSE row.items
             /\ new.product = IF "product" \in DOMAIN set THEN set.product ELSE row.product
             /\ new.total = IF "total" \in DOMAIN set THEN set.total ELSE row.total
             /\ new.deleted = IF "deleted" \in DOMAIN set THEN set.deleted ELSE row.deleted
             /\ new.order = IF "order" \in DOMAIN set THEN set.order ELSE row.order
<1>1. db \in TypedTables /\ db.quotes[q] \in QuoteRows
  BY QuoteIds DEF TypeInv
<1> DEFINE x == [op |-> op, on |-> q]
<1>2. x.on = q
  OBVIOUS
<1> HIDE DEF x
<1>3. IsChange(db, x, set)
  BY DEF x
<1> QED
  BY <1>1, <1>2, <1>3, PatchedRow

LEMMA UpdateStep ==
  ASSUME TypeInv, NEW r \in Request, NEW q \in DOMAIN db.quotes, ~db.quotes[q].deleted, Update(r, q)
  PROVE  AsksReread(r) \/ \E set : AsksSet(r, set)
<1>1. PICK row : row = db.quotes[q] /\ row \in QuoteRows /\ q \in Nat \ {0}
  BY QuoteIds
<1>2. /\ row.items \in Int /\ row.product \in Int /\ row.total \in Int /\ row.validity \in Nat
      /\ row.status \notin Decided /\ "update" \in Setters /\ "update" \in Linkers
  BY <1>1 DEF Update, Is, Decided, QuoteRows, Setters, Linkers
<1>3. PICK change \in Changes(q) : Ask(r, "update", <<change>>, q)
  BY DEF Update
<1>4. ASSUME NEW set, change = SetQuote(q, set), IsChange(db, [op |-> "update", on |-> q], set),
             SumOK(row) => SumOK(Patched(row, set)), "deleted" \notin DOMAIN set
      PROVE  AsksSet(r, set)
  BY <1>1, <1>2, <1>3, <1>4, SetAsked, SetFields DEF Fits, Keeps
<1>5. CASE \E p \in Price : change = SetQuote(q, [items |-> p, total |-> computeTotals(p, row.product), validity |-> row.validity])
  <2>1. PICK p \in Price : change = SetQuote(q, [items |-> p, total |-> computeTotals(p, row.product), validity |-> row.validity])
    BY <1>5
  <2>2. PICK set : set = [items |-> p, total |-> computeTotals(p, row.product), validity |-> row.validity]
    OBVIOUS
  <2>3. p \in Int /\ computeTotals(p, row.product) \in Int
    BY <1>2, ValueAssumption DEF computeTotals
  <2>4. IsChange(db, [op |-> "update", on |-> q], set)
    BY <1>2, <2>2, <2>3 DEF IsChange
  <2>5. SumOK(Patched(row, set))
    BY <1>1, <1>2, <2>2, <2>4, SetFields DEF SumOK
  <2> QED
    BY <1>4, <2>1, <2>2, <2>4, <2>5
<1>6. CASE \E v \in Validity : change = SetQuote(q, [total |-> row.total, validity |-> v])
  <2>1. PICK v \in Validity : change = SetQuote(q, [total |-> row.total, validity |-> v])
    BY <1>6
  <2>2. PICK set : set = [total |-> row.total, validity |-> v]
    OBVIOUS
  <2>3. IsChange(db, [op |-> "update", on |-> q], set)
    BY <1>2, <2>2, ValueAssumption DEF IsChange
  <2>4. SumOK(row) => SumOK(Patched(row, set))
    BY <1>1, <1>2, <2>2, <2>3, SetFields DEF SumOK
  <2> QED
    BY <1>4, <2>1, <2>2, <2>3, <2>4
<1>7. CASE \E o \in {None} \cup DOMAIN db.orders :
             change = SetQuote(q, [order |-> o, total |-> row.total, validity |-> row.validity])
  <2>1. PICK o \in {None} \cup DOMAIN db.orders :
          change = SetQuote(q, [order |-> o, total |-> row.total, validity |-> row.validity])
    BY <1>7
  <2>2. PICK set : set = [order |-> o, total |-> row.total, validity |-> row.validity]
    OBVIOUS
  <2>3. IsChange(db, [op |-> "update", on |-> q], set)
    BY <1>2, <2>2 DEF IsChange
  <2>4. SumOK(row) => SumOK(Patched(row, set))
    BY <1>1, <1>2, <2>2, <2>3, SetFields DEF SumOK
  <2> QED
    BY <1>4, <2>1, <2>2, <2>3, <2>4
<1>8. CASE \E p \in Product : change = Reread(q, [product |-> p, total |-> row.total, validity |-> row.validity])
  <2>1. PICK set : \E p \in Product : /\ change = Reread(q, set)
                                      /\ set = [product |-> p, total |-> row.total, validity |-> row.validity]
    BY <1>8
  <2>2. set \in [product : Int, total : Int, validity : Nat]
    BY <1>2, <2>1, ValueAssumption
  <2>3. PICK x : x = [op |-> "update", todo |-> <<change>>, number |-> None, tries |-> 0, order |-> None, on |-> q, stale |-> FALSE]
    OBVIOUS
  <2>4. <<change>> # <<>>
    OBVIOUS
  <2>5. req'[r] = x /\ (IsTyped(db, x) => Begun(r))
    BY <1>3, <2>3, <2>4, AskEffect
  <2>6. IsReread(change, q)
    BY <2>1, <2>2 DEF IsReread
  <2>7. Sets(x)
    BY <1>2, <2>3, <2>6 DEF Sets
  <2>8. IsRequest(db, x)
    BY <1>1, <2>3, <2>7 DEF IsRequest
  <2>9. change.kind = "reread" /\ Head(x.todo) = change /\ \A v : x.todo = <<v>> => v = change
    BY <2>1, <2>3
  <2>10. IsTyped(db, x)
    BY <2>8, <2>9 DEF IsTyped, IsSet
  <2>11. x.op = "update" /\ x.on = q /\ x.todo = <<Reread(q, set)>>
    BY <2>1, <2>3
  <2> QED
    BY <1>1, <1>2, <2>5, <2>10, <2>11 DEF AsksReread
<1> QED
  BY <1>1, <1>3, <1>5, <1>6, <1>7, <1>8 DEF Changes

LEMMA DecideStep ==
  ASSUME TypeInv, NEW r \in Request, NEW q \in DOMAIN db.quotes, ~db.quotes[q].deleted, NEW op \in Setters, NEW status \in Status,
         Decide(r, op, q, status), status \in ShownToClients => db.quotes[q].link # None,
         db.quotes[q].status \notin Decided \/ (db.quotes[q].status # "APROVADO" /\ status = "CANCELADO")
  PROVE  \E set : AsksSet(r, set)
<1>1. PICK set : set = [status |-> status] /\ Ask(r, op, <<SetQuote(q, set)>>, q)
  BY DEF Decide
<1>2. IsChange(db, [op |-> op, on |-> q], set)
  BY <1>1 DEF IsChange
<1>3. Fits(db.quotes[q], set)
  BY <1>1, <1>2, SetFields DEF Fits, Keeps, SumOK
<1> QED
  BY <1>1, <1>2, <1>3, SetAsked

LEMMA QuoteSetStep ==
  ASSUME TypeInv, IntakeTypeOK, NEW r \in Request, NEW q \in DOMAIN db.quotes, ~db.quotes[q].deleted,
         \/ RemoveQuote(r, q) \/ Send(r, q) \/ Approve(r, q) \/ Reject(r, q) \/ Cancel(r, q)
         \/ (\E o \in DOMAIN db.orders : LinkQuoteToOs(r, q, o)) \/ ApprovePublic(r, q) \/ RejectPublic(r, q)
  PROVE  \E set : AsksSet(r, set)
<1>0. /\ {"remove", "send", "approve", "reject", "cancel", "linkQuoteToOs", "approvePublic", "rejectPublic"} \subseteq Setters
      /\ "linkQuoteToOs" \in Linkers
  BY DEF Setters, Linkers
<1>1. /\ db.quotes[q] \in QuoteRows /\ db.quotes[q].created \in Nat /\ db.quotes[q].validity \in Nat
      /\ db.quotes[q].status \in Status
  BY QuoteIds DEF QuoteRows
<1>2. db.quotes[q].status \in ShownToClients => db.quotes[q].link # None
  BY DEF IntakeTypeOK
<1>3. CASE RemoveQuote(r, q)
  <2>1. PICK set : set = [deleted |-> TRUE] /\ Ask(r, "remove", <<SetQuote(q, set)>>, q)
    BY <1>3 DEF RemoveQuote
  <2>2. IsChange(db, [op |-> "remove", on |-> q], set)
    BY <2>1 DEF IsChange
  <2>3. Fits(db.quotes[q], set)
    BY <1>0, <1>3, <2>1, <2>2, SetFields DEF Fits, Keeps, SumOK, RemoveQuote, Is, Decided
  <2> QED
    BY <1>0, <2>1, <2>2, <2>3, SetAsked
<1>4. CASE Send(r, q)
  <2>1. PICK set : /\ set = [status |-> "ENVIADO", link |-> ExpiresAt(q) + LinkDays]
                   /\ Ask(r, "send", <<SetQuote(q, set)>>, q)
    BY <1>4 DEF Send
  <2>2. ExpiresAt(q) + LinkDays \in Nat \ {0}
    BY <1>1, ValueAssumption DEF ExpiresAt
  <2>3. IsChange(db, [op |-> "send", on |-> q], set)
    BY <2>1, <2>2 DEF IsChange, Status
  <2>4. Fits(db.quotes[q], set)
    BY <1>0, <1>4, <2>1, <2>3, SetFields DEF Fits, Keeps, SumOK, Send, Is, Decided
  <2> QED
    BY <1>0, <2>1, <2>3, <2>4, SetAsked
<1>5. CASE \E o \in DOMAIN db.orders : LinkQuoteToOs(r, q, o)
  <2>1. PICK set : \E o \in DOMAIN db.orders : set = [order |-> o] /\ Ask(r, "linkQuoteToOs", <<SetQuote(q, set)>>, q)
    BY <1>5 DEF LinkQuoteToOs
  <2>2. IsChange(db, [op |-> "linkQuoteToOs", on |-> q], set)
    BY <1>0, <2>1 DEF IsChange
  <2>3. Fits(db.quotes[q], set)
    BY <1>0, <1>5, <2>1, <2>2, SetFields DEF Fits, Keeps, SumOK
  <2> QED
    BY <1>0, <2>1, <2>2, <2>3, SetAsked
<1>6. CASE Approve(r, q) \/ Reject(r, q) \/ Cancel(r, q) \/ ApprovePublic(r, q) \/ RejectPublic(r, q)
  <2>1. CASE Cancel(r, q)
    BY <1>0, <1>1, <2>1, DecideStep DEF Cancel, Is, Decided, Status, ShownToClients
  <2>2. CASE Approve(r, q) \/ Reject(r, q) \/ ApprovePublic(r, q) \/ RejectPublic(r, q)
    <3>1. db.quotes[q].status = "ENVIADO"
      BY <2>2 DEF Approve, Reject, ApprovePublic, RejectPublic, Is
    <3>2. db.quotes[q].link # None /\ db.quotes[q].status \notin Decided
      BY <1>2, <3>1 DEF ShownToClients, Decided
    <3>3. PICK op \in Setters, status \in Status : Decide(r, op, q, status)
      BY <1>0, <2>2 DEF Approve, Reject, ApprovePublic, RejectPublic, Status
    <3> QED
      BY <3>2, <3>3, DecideStep
  <2> QED
    BY <1>6, <2>1, <2>2
<1> QED
  BY <1>3, <1>4, <1>5, <1>6

LEMMA HandleStep ==
  ASSUME TypeInv, IntakeTypeOK, NEW r \in Request, Handle(r)
  PROVE  AsksQuote(r) \/ (\E set : AsksSet(r, set)) \/ AsksReread(r) \/ AsksOrder(r) \/ AsksRemoval(r)
<1>1. clock.day \in Nat
  BY DEF TypeInv
<1>2. CASE \E items \in Price, product \in Product, validity \in Validity : Create(r, items, product, validity)
  <2>1. PICK items \in Price, product \in Product, validity \in Validity : Create(r, items, product, validity)
    BY <1>2
  <2>2. PICK row : row = QuoteRow(items, product, None, validity)
    OBVIOUS
  <2>3. items \in Int /\ product \in Int /\ validity \in Nat /\ items + product \in Int
    BY ValueAssumption
  <2>4. row \in QuoteRows /\ row.status = "RASCUNHO" /\ row.order = None /\ row.total = computeTotals(row.items, row.product)
    BY <1>1, <2>2, <2>3 DEF QuoteRow, QuoteRows, Status, computeTotals
  <2>5. Ask(r, "create", <<Code("quotes"), AddQuote(row)>>, None)
    BY <2>1, <2>2 DEF Create
  <2> QED
    BY <2>4, <2>5, QuoteAsked
<1>3. CASE \E q \in Live("quotes") : OnQuote(r, q)
  <2>1. PICK q \in DOMAIN db.quotes : OnQuote(r, q) /\ ~db.quotes[q].deleted
    BY <1>3 DEF Live
  <2>2. db.quotes[q] \in QuoteRows
    BY QuoteIds
  <2>3. CASE Duplicate(r, q)
    <3>1. PICK row : row = Copy(q)
      OBVIOUS
    <3>2. /\ db.quotes[q].items \in Int /\ db.quotes[q].order \in Nat /\ db.quotes[q].validity \in Nat /\ db.quotes[q].total \in Int
          /\ computeTotals(db.quotes[q].items, 0) \in Int
      BY <2>2 DEF QuoteRows, computeTotals
    <3>3. row \in QuoteRows /\ row.status = "RASCUNHO" /\ row.order = db.quotes[q].order
      <4>1. PICK base : /\ base = QuoteRow(db.quotes[q].items, 0, db.quotes[q].order, db.quotes[q].validity)
                        /\ row = [base EXCEPT !.total = db.quotes[q].total]
        BY <3>1 DEF Copy
      <4>2. base \in QuoteRows /\ base.status = "RASCUNHO" /\ base.order = db.quotes[q].order
        BY <1>1, <3>2, <4>1 DEF QuoteRow, QuoteRows, Status
      <4> QED
        BY <3>2, <4>1, <4>2 DEF QuoteRows
    <3>4. row.order \in DOMAIN db.orders \cup {None}
      BY <3>3 DEF IntakeTypeOK
    <3>5. Ask(r, "duplicate", <<Code("quotes"), AddQuote(row)>>, q)
      BY <2>3, <3>1 DEF Duplicate
    <3> QED
      BY <3>3, <3>4, <3>5, QuoteAsked
  <2>4. CASE CreateOs(r, q)
    BY <2>4, OrderAsked DEF CreateOs
  <2>5. CASE Update(r, q)
    BY <2>1, <2>5, UpdateStep
  <2>6. CASE \/ RemoveQuote(r, q) \/ Send(r, q) \/ Approve(r, q) \/ Reject(r, q) \/ Cancel(r, q)
             \/ (\E o \in DOMAIN db.orders : LinkQuoteToOs(r, q, o)) \/ ApprovePublic(r, q) \/ RejectPublic(r, q)
    BY <2>1, <2>6, QuoteSetStep
  <2> QED
    BY <2>1, <2>3, <2>4, <2>5, <2>6 DEF OnQuote
<1>4. CASE CreateOrder(r)
  BY <1>4, OrderAsked DEF CreateOrder
<1>5. CASE \E o \in Live("orders") : DuplicateOrder(r, o)
  BY <1>5, OrderAsked DEF DuplicateOrder
<1>6. CASE \E o \in Live("orders") : RemoveOrder(r, o)
  <2>1. PICK o \in DOMAIN db.orders : Ask(r, "removeOrder", <<DeleteOrder(o), Unlink(o)>>, None)
    BY <1>6 DEF RemoveOrder, Live
  <2>2. PICK x : x = [op |-> "removeOrder", todo |-> <<DeleteOrder(o), Unlink(o)>>, number |-> None, tries |-> 0,
                      order |-> None, on |-> None, stale |-> FALSE]
    OBVIOUS
  <2>3. <<DeleteOrder(o), Unlink(o)>> # <<>> /\ Head(x.todo).kind = "delete" /\ \A v : x.todo # <<v>>
    BY <2>2
  <2>4. req'[r] = x /\ (IsTyped(db, x) => Begun(r))
    BY <2>1, <2>2, <2>3, AskEffect
  <2>5. Removes(db, x)
    BY <2>2 DEF Removes
  <2>6. IsRequest(db, x)
    BY <2>2, <2>5 DEF IsRequest, Setters, Linkers
  <2>7. IsTyped(db, x)
    BY <2>3, <2>6 DEF IsTyped
  <2> QED
    BY <2>2, <2>4, <2>7 DEF AsksRemoval
<1> QED
  BY <1>2, <1>3, <1>4, <1>5, <1>6 DEF Handle

(* A request that fails leaves the tables as they are.                     *)
Failed(r) == Kept(r) /\ db' = db /\ clock' = clock /\ req'[r] = Idle /\ \A s \in Request \ {r} : req'[s] = req[s]

LEMMA FailStep ==
  ASSUME TypeInv, NEW r \in Request, Fail(r)
  PROVE  Failed(r)
<1>1. db' = db /\ clock' = clock /\ req' = [req EXCEPT ![r] = Idle]
  BY DEF Fail
<1>2. req = [s \in Request |-> req[s]]
  BY DEF TypeInv
<1>3. req'[r] = Idle /\ (\A s \in Request \ {r} : req'[s] = req[s]) /\ req' = [s \in Request |-> req'[s]]
  BY <1>1, <1>2
<1>4. ASSUME NEW s \in Request \ {r}
      PROVE  Fresh(r, s)
  <2>1. IsRequest(db, req[s])
    BY Typed
  <2>2. req[s] = [req[s] EXCEPT !.stale = req[s].stale] /\ req[s].stale \in BOOLEAN
    BY <2>1 DEF IsRequest
  <2> QED
    BY <1>1, <1>3, <2>2 DEF Fresh
<1> QED
  BY <1>1, <1>3, <1>4, IdleOK, SameTables DEF Failed, Kept

(* The daily job writes every quote that is overdue.                       *)
Expired ==
  /\ Grows(db, db') /\ clock' = clock /\ db'.orders = db.orders /\ db'.next = db.next
  /\ DOMAIN db'.quotes = DOMAIN db.quotes
  /\ \A q \in DOMAIN db.quotes :
       \/ db'.quotes[q] = db.quotes[q]
       \/ /\ db.quotes[q].status = "ENVIADO" /\ ~db.quotes[q].deleted
          /\ db'.quotes[q] = [db.quotes[q] EXCEPT !.status = "EXPIRADO"]
          /\ \A s \in Request : req[s].on = q => req'[s].stale
  /\ req' = [s \in Request |-> req'[s]]
  /\ \A s \in Request : /\ req'[s] = [req[s] EXCEPT !.stale = req'[s].stale] /\ req'[s].stale \in BOOLEAN
                        /\ req[s].stale => req'[s].stale

LEMMA ExpireStep ==
  ASSUME TypeInv, ExpireQuotes
  PROVE  Expired
<1>1. PICK rows :
        /\ rows = [q \in DOMAIN db.quotes |->
                     IF Overdue(q) THEN [db.quotes[q] EXCEPT !.status = "EXPIRADO"] ELSE db.quotes[q]]
        /\ db' = [db EXCEPT !.quotes = rows]
  BY DEF ExpireQuotes
<1>2. clock' = clock /\ req' = [s \in Request |-> IF req[s].on \in DOMAIN db.quotes /\ Overdue(req[s].on)
                                                   THEN [req[s] EXCEPT !.stale = TRUE] ELSE req[s]]
  BY DEF ExpireQuotes
<1>3. ASSUME NEW q \in DOMAIN db.quotes
      PROVE  /\ rows[q] \in QuoteRows /\ rows[q].code = db.quotes[q].code
             /\ db.quotes[q].link # None => rows[q].link # None
             /\ \/ rows[q] = db.quotes[q]
                \/ /\ Overdue(q) /\ db.quotes[q].status = "ENVIADO" /\ ~db.quotes[q].deleted
                   /\ rows[q] = [db.quotes[q] EXCEPT !.status = "EXPIRADO"]
  <2>1. db.quotes[q] \in QuoteRows
    BY QuoteIds
  <2>2. Overdue(q) => db.quotes[q].status = "ENVIADO" /\ ~db.quotes[q].deleted
    BY DEF Overdue, Is, Live
  <2>3. IF Overdue(q) THEN rows[q] = [db.quotes[q] EXCEPT !.status = "EXPIRADO"] ELSE rows[q] = db.quotes[q]
    BY <1>1
  <2>4. [db.quotes[q] EXCEPT !.status = "EXPIRADO"] \in QuoteRows
    BY <2>1 DEF QuoteRows, Status
  <2> QED
    BY <2>1, <2>2, <2>3, <2>4 DEF QuoteRows
<1>4. DOMAIN rows = DOMAIN db.quotes /\ rows = [q \in DOMAIN rows |-> rows[q]] /\ db \in TypedTables
  BY <1>1 DEF TypeInv
<1>5. Grows(db, db') /\ db'.orders = db.orders /\ db'.next = db.next /\ db'.quotes = rows
  <2>1. \A q \in DOMAIN db.quotes : /\ rows[q] \in QuoteRows /\ rows[q].code = db.quotes[q].code
                                    /\ db.quotes[q].link # None => rows[q].link # None
    BY <1>3
  <2>2. db' = [db EXCEPT !.quotes = rows]
    BY <1>1
  <2> QED
    BY <2>2, <1>4, <2>1, WrittenQuotes
<1>6. ASSUME NEW s \in Request
      PROVE  /\ req'[s] = [req[s] EXCEPT !.stale = req'[s].stale] /\ req'[s].stale \in BOOLEAN
             /\ req[s].stale => req'[s].stale
             /\ req[s].on \in DOMAIN db.quotes /\ Overdue(req[s].on) => req'[s].stale
  <2>1. IsRequest(db, req[s])
    BY Typed
  <2>2. /\ req[s] = [req[s] EXCEPT !.stale = req[s].stale] /\ req[s].stale \in BOOLEAN
        /\ [req[s] EXCEPT !.stale = TRUE].stale = TRUE
    BY <2>1 DEF IsRequest
  <2>3. req'[s] = IF req[s].on \in DOMAIN db.quotes /\ Overdue(req[s].on) THEN [req[s] EXCEPT !.stale = TRUE] ELSE req[s]
    BY <1>2
  <2> QED
    BY <2>2, <2>3
<1> QED
  BY <1>2, <1>3, <1>4, <1>5, <1>6 DEF Expired

----------------------------------------------------------------------------
(* Types.  Every action keeps what the requests are, and what IntakeTypeOK *)
(* says; what the invariants say of losses does not matter to them.        *)

TypesOK == TypeInv /\ IntakeTypeOK

LEMMA KeptTypes ==
  ASSUME TypeInv, NEW r \in Request, Kept(r), clock' = clock
  PROVE  TypeInv'
<1>1. ASSUME NEW s \in Request
      PROVE  IsTyped(db', req'[s])
  <2>1. CASE s = r
    BY <2>1 DEF Kept
  <2>2. CASE s # r
    <3>1. PICK b \in BOOLEAN : req'[s] = [req[s] EXCEPT !.stale = b]
      BY <2>2 DEF Kept, Fresh
    <3>2. IsTyped(db, req[s]) /\ IsRequest(db, req[s]) /\ Grows(db, db')
      BY Typed DEF Kept
    <3> QED
      BY <3>1, <3>2, GrowsKeeps
  <2> QED
    BY <2>1, <2>2
<1>2. db' \in TypedTables /\ req' = [s \in Request |-> req'[s]] /\ clock' \in [day : Nat, from : Int, to : Int]
  BY DEF Kept, Grows, TypeInv
<1> QED
  BY <1>1, <1>2 DEF TypeInv

(* Every step of a request, by what it does.                               *)
Draw(r) ==
  \/ CountOrders(r) \/ Increment(r) \/ CheckCode(r) \/ ReadHighest(r) \/ CorrectCounter(r)
LEMMA StepKinds ==
  ASSUME TypeInv, NEW r \in Request, Step(r)
  PROVE  /\ Kept(r) /\ clock' = clock
         /\ \/ Draw(r) /\ db'.quotes = db.quotes /\ db'.orders = db.orders
            \/ Insert(r) /\ (Refused(r) \/ (\E row : NewQuote(r, row)) \/ (\E row : NewOrder(r, row)))
            \/ ItemsIn(r) \/ (WriteLink(r) /\ LinkIn(r))
            \/ (\E o : Deleted(r, o)) \/ (\E o : Unlinked(r, o))
            \/ (WriteQuote(r) /\ \E set : WrittenBy(r, set)) \/ (\E set : ReadBy(r, set))
<1>1. CASE CountOrders(r)
  BY <1>1, CountStep DEF Draw
<1>2. CASE Increment(r)
  BY <1>2, IncrementStep DEF Draw, Draws
<1>3. CASE CheckCode(r)
  BY <1>3, CheckStep DEF Draw, Draws
<1>4. CASE ReadHighest(r)
  BY <1>4, ReadHighestStep DEF Draw, Draws
<1>5. CASE CorrectCounter(r)
  BY <1>5, CorrectStep DEF Draw, Draws
<1>6. CASE Insert(r)
  BY <1>6, InsertStep
<1>7. CASE InsertItems(r)
  BY <1>7, ItemsStep
<1>8. CASE WriteLink(r)
  BY <1>8, LinkStep
<1>9. CASE WriteDelete(r)
  BY <1>9, DeleteStep
<1>10. CASE WriteUnlink(r)
  BY <1>10, UnlinkStep
<1>11. CASE WriteQuote(r)
  BY <1>11, WriteStep
<1>12. CASE ReadItems(r)
  BY <1>12, ReadStep
<1> QED
  BY <1>1, <1>2, <1>3, <1>4, <1>5, <1>6, <1>7, <1>8, <1>9, <1>10, <1>11, <1>12 DEF Step

LEMMA HandleKept ==
  ASSUME TypeInv, IntakeTypeOK, NEW r \in Request, Handle(r) \/ Fail(r)
  PROVE  Kept(r) /\ clock' = clock /\ db' = db
BY HandleStep, FailStep DEF AsksQuote, AsksSet, AsksReread, AsksOrder, AsksRemoval, Begun, Failed

(* IntakeTypeOK in parts, of any tables.                                   *)
DistinctCodes(d) ==
  /\ \A i, j \in DOMAIN d.quotes : d.quotes[i].code # None /\ d.quotes[i].code = d.quotes[j].code => i = j
  /\ \A i, j \in DOMAIN d.orders : d.orders[i].code # None /\ d.orders[i].code = d.orders[j].code => i = j
SoundLink(d, q) ==
  /\ d.quotes[q].status \in ShownToClients => d.quotes[q].link # None
  /\ d.quotes[q].order \in DOMAIN d.orders \cup {None}
SoundMaker(d, o) == d.orders[o].quote \in DOMAIN d.quotes \cup {None}
DayInCycle == clock.from < clock.to /\ clock.from < clock.day

RowsOK(d) ==
  /\ \A t \in Tables : \A i, j \in DOMAIN d[t] : d[t][i].code # None /\ d[t][i].code = d[t][j].code => i = j
  /\ \A q \in DOMAIN d.quotes :
       LET row == d.quotes[q]
       IN /\ row.status \in Status
          /\ row.status \in ShownToClients => row.link # None
          /\ row.order \in DOMAIN d.orders \cup {None}
  /\ \A o \in DOMAIN d.orders : d.orders[o].quote \in DOMAIN d.quotes \cup {None}
SoundRows(d) ==
  DistinctCodes(d) /\ (\A q \in DOMAIN d.quotes : SoundLink(d, q)) /\ (\A o \in DOMAIN d.orders : SoundMaker(d, o))

LEMMA RowParts ==
  ASSUME NEW d \in TypedTables
  PROVE  RowsOK(d) <=> SoundRows(d)
<1>1. d.quotes \in Seq(QuoteRows)
  BY DEF TypedTables
<1>2. \A q \in DOMAIN d.quotes : d.quotes[q] \in QuoteRows
  BY <1>1
<1>3. \A q \in DOMAIN d.quotes : d.quotes[q].status \in Status
  BY <1>2 DEF QuoteRows
<1>4. Tables = {"quotes", "orders"} /\ d["quotes"] = d.quotes /\ d["orders"] = d.orders
  BY DEF Tables
<1>5. (\A t \in Tables : \A i, j \in DOMAIN d[t] : d[t][i].code # None /\ d[t][i].code = d[t][j].code => i = j)
        <=> DistinctCodes(d)
  BY <1>4 DEF DistinctCodes
<1> QED
  BY <1>3, <1>5 DEF RowsOK, SoundRows, SoundLink, SoundMaker

LEMMA TypeParts ==
  /\ TypeInv => (IntakeTypeOK <=> SoundRows(db) /\ DayInCycle)
  /\ TypeInv' => (IntakeTypeOK' <=> SoundRows(db') /\ DayInCycle')
<1>1. TypeInv => db \in TypedTables
  BY DEF TypeInv
<1>2. TypeInv' => db' \in TypedTables
  BY DEF TypeInv
<1>3. (IntakeTypeOK <=> RowsOK(db) /\ DayInCycle) /\ (IntakeTypeOK' <=> RowsOK(db') /\ DayInCycle')
  BY DEF IntakeTypeOK, RowsOK, DayInCycle
<1> QED
  BY <1>1, <1>2, <1>3, RowParts

(* Tables that grow without a new row: codes, makers and links stay.       *)
SameIds(d, e) ==
  /\ Grows(d, e) /\ DOMAIN e.quotes = DOMAIN d.quotes /\ DOMAIN e.orders = DOMAIN d.orders
  /\ \A q \in DOMAIN d.quotes : /\ e.quotes[q].status = d.quotes[q].status \/ e.quotes[q].status \notin ShownToClients \/ e.quotes[q].link # None
                                /\ e.quotes[q].order \in DOMAIN d.orders \cup {None}

LEMMA SameIdsKeep ==
  ASSUME NEW d, NEW e, SameIds(d, e), DistinctCodes(d), \A q \in DOMAIN d.quotes : SoundLink(d, q),
         \A o \in DOMAIN d.orders : SoundMaker(d, o)
  PROVE  DistinctCodes(e) /\ (\A q \in DOMAIN e.quotes : SoundLink(e, q)) /\ (\A o \in DOMAIN e.orders : SoundMaker(e, o))
<1>1. DistinctCodes(e)
  BY DEF SameIds, Grows, DistinctCodes
<1>2. \A q \in DOMAIN e.quotes : SoundLink(e, q)
  BY DEF SameIds, Grows, SoundLink
<1>3. \A o \in DOMAIN e.orders : SoundMaker(e, o)
  BY DEF SameIds, Grows, SoundMaker
<1> QED
  BY <1>1, <1>2, <1>3

LEMMA NewQuoteKeeps ==
  ASSUME NEW d \in TypedTables, NEW row \in QuoteRows, row.code = None \/ (\A i \in DOMAIN d.quotes : d.quotes[i].code # row.code),
         row.status \notin ShownToClients, row.order \in DOMAIN d.orders \cup {None},
         DistinctCodes(d), \A q \in DOMAIN d.quotes : SoundLink(d, q), \A o \in DOMAIN d.orders : SoundMaker(d, o)
  PROVE  LET e == [d EXCEPT !["quotes"] = Append(@, row)]
         IN  DistinctCodes(e) /\ (\A q \in DOMAIN e.quotes : SoundLink(e, q)) /\ (\A o \in DOMAIN e.orders : SoundMaker(e, o))
<1>1. PICK e : e = [d EXCEPT !["quotes"] = Append(@, row)]
  OBVIOUS
<1>2. /\ e.orders = d.orders /\ DOMAIN e.quotes = DOMAIN d.quotes \cup {Len(d.quotes) + 1}
      /\ e.quotes[Len(d.quotes) + 1] = row /\ \A q \in DOMAIN d.quotes : e.quotes[q] = d.quotes[q]
  BY <1>1, AppendedQuote
<1>3. DistinctCodes(e)
  BY <1>2 DEF DistinctCodes
<1>4. \A q \in DOMAIN e.quotes : SoundLink(e, q)
  BY <1>2 DEF SoundLink
<1>5. \A o \in DOMAIN e.orders : SoundMaker(e, o)
  BY <1>2 DEF SoundMaker
<1> QED
  BY <1>1, <1>3, <1>4, <1>5

LEMMA NewOrderKeeps ==
  ASSUME NEW d \in TypedTables, NEW row \in OrderRows, row.code = None \/ (\A i \in DOMAIN d.orders : d.orders[i].code # row.code),
         row.quote \in DOMAIN d.quotes \cup {None},
         DistinctCodes(d), \A q \in DOMAIN d.quotes : SoundLink(d, q), \A o \in DOMAIN d.orders : SoundMaker(d, o)
  PROVE  LET e == [d EXCEPT !["orders"] = Append(@, row)]
         IN  DistinctCodes(e) /\ (\A q \in DOMAIN e.quotes : SoundLink(e, q)) /\ (\A o \in DOMAIN e.orders : SoundMaker(e, o))
<1>1. PICK e : e = [d EXCEPT !["orders"] = Append(@, row)]
  OBVIOUS
<1>2. /\ e.quotes = d.quotes /\ DOMAIN e.orders = DOMAIN d.orders \cup {Len(d.orders) + 1}
      /\ e.orders[Len(d.orders) + 1] = row /\ \A o \in DOMAIN d.orders : e.orders[o] = d.orders[o]
  BY <1>1, AppendedOrder
<1>3. DistinctCodes(e)
  BY <1>2 DEF DistinctCodes
<1>4. \A q \in DOMAIN e.quotes : SoundLink(e, q)
  BY <1>2 DEF SoundLink
<1>5. \A o \in DOMAIN e.orders : SoundMaker(e, o)
  BY <1>2 DEF SoundMaker
<1> QED
  BY <1>1, <1>3, <1>4, <1>5

LEMMA StepRows ==
  ASSUME TypesOK, NEW r \in Request, Step(r)
  PROVE  SoundRows(db')
<1>0. TypeInv /\ IntakeTypeOK /\ SoundRows(db) /\ Kept(r) /\ Grows(db, db') /\ db \in TypedTables
  BY TypeParts, StepKinds DEF TypesOK, Kept, TypeInv
<1>1. ASSUME SameIds(db, db')
      PROVE  SoundRows(db')
  BY <1>0, <1>1, SameIdsKeep DEF SoundRows
<1>2. ASSUME db'.quotes = db.quotes /\ db'.orders = db.orders
      PROVE  SoundRows(db')
  BY <1>0, <1>2 DEF SoundRows, DistinctCodes, SoundLink, SoundMaker
<1>3. CASE \E row : NewQuote(r, row)
  <2>1. PICK row : NewQuote(r, row)
    BY <1>3
  <2>2. row.code = None \/ (\A i \in DOMAIN db.quotes : db.quotes[i].code # row.code)
    BY <2>1 DEF NewQuote, Codes
  <2>3. row.status \notin ShownToClients /\ row \in QuoteRows /\ row.order \in DOMAIN db.orders \cup {None}
    BY <2>1 DEF NewQuote, ShownToClients
  <2>4. db' = [db EXCEPT !["quotes"] = Append(@, row)]
    BY <2>1 DEF NewQuote
  <2> QED
    BY <1>0, <2>2, <2>3, <2>4, NewQuoteKeeps DEF SoundRows
<1>4. CASE \E row : NewOrder(r, row)
  <2>1. PICK row : NewOrder(r, row)
    BY <1>4
  <2>2. row.code = None \/ (\A i \in DOMAIN db.orders : db.orders[i].code # row.code)
    BY <2>1 DEF NewOrder, Codes
  <2>3. row \in OrderRows /\ row.quote \in DOMAIN db.quotes \cup {None}
    BY <1>0, <2>1, Typed DEF NewOrder, IsRequest
  <2>4. db' = [db EXCEPT !["orders"] = Append(@, row)]
    BY <2>1 DEF NewOrder
  <2> QED
    BY <1>0, <2>2, <2>3, <2>4, NewOrderKeeps DEF SoundRows
<1>5. CASE ItemsIn(r) \/ LinkIn(r) \/ (\E o : Deleted(r, o)) \/ (\E o : Unlinked(r, o)) \/ (\E set : WrittenBy(r, set))
  <2>0. \A q \in DOMAIN db.quotes : SoundLink(db, q) /\ db.quotes[q] \in QuoteRows
    BY <1>0, QuoteIds DEF SoundRows
  <2>1. CASE ItemsIn(r)
    BY <1>0, <1>1, <2>0, <2>1 DEF ItemsIn, SameIds, SoundLink
  <2>2. CASE LinkIn(r)
    <3>1. /\ req[r].on \in DOMAIN db.quotes /\ req[r].order \in DOMAIN db.orders /\ DOMAIN db'.quotes = DOMAIN db.quotes
          /\ db'.quotes[req[r].on] = [db.quotes[req[r].on] EXCEPT !.order = req[r].order] /\ db'.orders = db.orders
          /\ \A p \in DOMAIN db.quotes \ {req[r].on} : db'.quotes[p] = db.quotes[p]
      BY <2>2 DEF LinkIn, Finishes
    <3>2. /\ db'.quotes[req[r].on].status = db.quotes[req[r].on].status
          /\ db'.quotes[req[r].on].order = req[r].order
      BY <2>0, <3>1 DEF QuoteRows
    <3> QED
      BY <1>0, <1>1, <2>0, <3>1, <3>2 DEF SameIds, SoundLink
  <2>3. CASE \E o : Deleted(r, o)
    BY <1>0, <1>1, <2>0, <2>3 DEF Deleted, SameIds, SoundLink
  <2>4. CASE \E o : Unlinked(r, o)
    <3>1. PICK o : Unlinked(r, o)
      BY <2>4
    <3>2. ASSUME NEW q \in DOMAIN db.quotes
          PROVE  /\ db'.quotes[q].status = db.quotes[q].status
                 /\ db'.quotes[q].order \in {None, db.quotes[q].order}
      BY <2>0, <3>1 DEF Unlinked, QuoteRows
    <3> QED
      BY <1>0, <1>1, <2>0, <3>1, <3>2 DEF SameIds, SoundLink, Unlinked
  <2>5. CASE \E set : WrittenBy(r, set)
    <3>1. PICK set : WrittenBy(r, set)
      BY <2>5
    <3>2. PICK q, row, new : q = req[r].on /\ row = db.quotes[q] /\ new = db'.quotes[q]
      OBVIOUS
    <3>3. /\ q \in DOMAIN db.quotes /\ IsChange(db, req[r], set) /\ new = Patched(row, set)
          /\ DOMAIN db'.quotes = DOMAIN db.quotes /\ db'.orders = db.orders
          /\ \A p \in DOMAIN db.quotes \ {q} : db'.quotes[p] = db.quotes[p]
      BY <3>1, <3>2 DEF WrittenBy
    <3>4. /\ new.status = IF "status" \in DOMAIN set THEN set.status ELSE row.status
          /\ new.link = IF "link" \in DOMAIN set THEN set.link ELSE row.link
          /\ new.order = IF "order" \in DOMAIN set THEN set.order ELSE row.order
      BY <1>0, <3>2, <3>3, PatchedRow
    <3>5. new.status = row.status \/ new.status \notin ShownToClients \/ new.link # None
      BY <3>2, <3>3, <3>4 DEF IsChange
    <3>6. new.order \in DOMAIN db.orders \cup {None}
      BY <2>0, <3>2, <3>3, <3>4 DEF IsChange, SoundLink
    <3> QED
      BY <1>0, <1>1, <2>0, <3>2, <3>3, <3>5, <3>6 DEF SameIds, SoundLink
  <2> QED
    BY <1>5, <2>1, <2>2, <2>3, <2>4, <2>5
<1> QED
  BY <1>0, <1>2, <1>3, <1>4, <1>5, StepKinds DEF Refused, ReadBy

LEMMA CalendarStep ==
  ASSUME TypesOK, Midnight \/ AdvanceCycle
  PROVE  /\ db' = db /\ req' = req /\ clock' \in [day : Nat, from : Int, to : Int] /\ DayInCycle'
         /\ Midnight => clock'.day = clock.day + 1 /\ clock'.from = clock.from /\ clock'.to = clock.to
         /\ AdvanceCycle => /\ clock.to < clock.day /\ clock'.day = clock.day /\ clock'.from = clock.to
                            /\ clock'.to = clock.to + Cycle
<1>1. clock \in [day : Nat, from : Int, to : Int] /\ DayInCycle
  BY TypeParts DEF TypesOK, TypeInv
<1>2. CASE Midnight
  <2>1. clock' = [clock EXCEPT !.day = clock.day + 1] /\ db' = db /\ req' = req
    BY <1>2 DEF Midnight
  <2>2. /\ clock' \in [day : Nat, from : Int, to : Int] /\ clock'.day = clock.day + 1 /\ clock'.from = clock.from
        /\ clock'.to = clock.to
    BY <1>1, <2>1
  <2>3. DayInCycle'
    BY <1>1, <2>2 DEF DayInCycle
  <2>4. ~AdvanceCycle
    <3>1. SUFFICES ASSUME AdvanceCycle
                   PROVE  FALSE
      OBVIOUS
    <3>2. clock' = [clock EXCEPT !.from = clock.to, !.to = clock.to + Cycle]
      BY <3>1 DEF AdvanceCycle
    <3>3. clock'.day = clock.day
      BY <1>1, <3>2
    <3> QED
      BY <1>1, <2>2, <3>3
  <2> QED
    BY <2>1, <2>2, <2>3, <2>4
<1>3. CASE AdvanceCycle /\ ~Midnight
  <2>1. clock' = [clock EXCEPT !.from = clock.to, !.to = clock.to + Cycle] /\ db' = db /\ req' = req /\ clock.to < clock.day
    BY <1>3 DEF AdvanceCycle
  <2>2. Cycle \in Nat \ {0}
    BY IntakeAssumption
  <2>3. /\ clock' \in [day : Nat, from : Int, to : Int] /\ clock'.day = clock.day /\ clock'.from = clock.to
        /\ clock'.to = clock.to + Cycle
    <3>1. clock = [day |-> clock.day, from |-> clock.from, to |-> clock.to]
      BY <1>1
    <3>2. clock' = [day |-> clock.day, from |-> clock.to, to |-> clock.to + Cycle]
      BY <2>1, <3>1
    <3> QED
      BY <1>1, <2>2, <3>2
  <2>4. DayInCycle'
    BY <1>1, <2>1, <2>2, <2>3 DEF DayInCycle
  <2> QED
    BY <1>3, <2>1, <2>3, <2>4
<1> QED
  BY <1>2, <1>3

(* What a step of the system is.                                           *)
LEMMA NextKinds ==
  ASSUME Next
  PROVE  /\ slips = {} /\ slips' = Slip
         /\ \/ \E r \in Request : Handle(r) \/ Step(r) \/ Fail(r)
            \/ ExpireQuotes \/ Midnight \/ AdvanceCycle
BY DEF Next, Go

LEMMA TypesInit ==
  ASSUME Init
  PROVE  TypesOK
<1>1. PICK s \in FirstStates : db = s.db /\ clock = [day |-> 1, from |-> s.to - Cycle, to |-> s.to]
  BY DEF Init
<1>2. /\ s.db \in [quotes : Seq(QuoteRows), orders : Seq(OrderRows), next : [Tables -> Nat]]
      /\ \A t \in Tables : \A i, j \in DOMAIN s.db[t] :
           s.db[t][i].code # None /\ s.db[t][i].code = s.db[t][j].code => i = j
      /\ \A q \in DOMAIN s.db.quotes : SoundQuote(s.db, q)
      /\ \A o \in DOMAIN s.db.orders : SoundOrder(s.db, o)
      /\ s.to \in 1 .. Cycle
  BY FirstAssumption
<1>3. Cycle \in Nat \ {0}
  BY IntakeAssumption
<1>4. db \in TypedTables /\ clock \in [day : Nat, from : Int, to : Int]
  BY <1>1, <1>2, <1>3 DEF TypedTables
<1>5. req = [r \in Request |-> req[r]] /\ \A r \in Request : IsTyped(db, req[r])
  BY IdleOK DEF Init
<1>6. TypeInv
  BY <1>4, <1>5 DEF TypeInv
<1>7. DistinctCodes(db)
  <2>1. "quotes" \in Tables /\ "orders" \in Tables
    BY DEF Tables
  <2> QED
    BY <1>1, <1>2, <2>1 DEF DistinctCodes
<1>8. DayInCycle
  BY <1>1, <1>2, <1>3 DEF DayInCycle
<1>9. (\A q \in DOMAIN db.quotes : SoundLink(db, q)) /\ (\A o \in DOMAIN db.orders : SoundMaker(db, o))
  BY <1>1, <1>2 DEF SoundLink, SoundMaker, SoundQuote, SoundOrder
<1> QED
  BY <1>6, <1>7, <1>8, <1>9, TypeParts DEF TypesOK, SoundRows

LEMMA TypesNext ==
  ASSUME TypesOK, [Next]_quoteVars
  PROVE  TypesOK'
<1>0. TypeInv /\ IntakeTypeOK /\ SoundRows(db) /\ DayInCycle
  BY TypeParts DEF TypesOK
<1>1. ASSUME TypeInv', SoundRows(db'), DayInCycle'
      PROVE  TypesOK'
  BY <1>1, TypeParts DEF TypesOK
<1>2. CASE \E r \in Request : Handle(r) \/ Step(r) \/ Fail(r)
  <2>1. PICK r \in Request : Handle(r) \/ Step(r) \/ Fail(r)
    BY <1>2
  <2>2. Kept(r) /\ clock' = clock
    BY <1>0, <2>1, HandleKept, StepKinds
  <2>3. TypeInv'
    BY <1>0, <2>2, KeptTypes
  <2>4. SoundRows(db')
    BY <1>0, <2>1, HandleKept, StepRows DEF TypesOK
  <2> QED
    BY <1>0, <1>1, <2>2, <2>3, <2>4 DEF DayInCycle
<1>3. CASE ExpireQuotes
  <2>1. Expired
    BY <1>0, <1>3, ExpireStep
  <2>2. ASSUME NEW s \in Request
        PROVE  IsTyped(db', req'[s])
    <3>1. PICK b \in BOOLEAN : req'[s] = [req[s] EXCEPT !.stale = b]
      BY <2>1 DEF Expired
    <3>2. IsTyped(db, req[s]) /\ IsRequest(db, req[s]) /\ Grows(db, db')
      BY <1>0, <2>1, Typed DEF Expired
    <3> QED
      BY <3>1, <3>2, GrowsKeeps
  <2>3. TypeInv'
    BY <1>0, <2>1, <2>2 DEF TypeInv, Expired, Grows
  <2>4. ASSUME NEW q \in DOMAIN db.quotes
        PROVE  /\ db'.quotes[q].status = db.quotes[q].status \/ db.quotes[q].status \in ShownToClients
               /\ db'.quotes[q].order = db.quotes[q].order /\ db'.quotes[q].link = db.quotes[q].link
    <3>1. db.quotes[q] \in QuoteRows
      BY <1>0, QuoteIds
    <3> QED
      <4>1. CASE db'.quotes[q] = db.quotes[q]
        BY <4>1
      <4>2. CASE db.quotes[q].status = "ENVIADO" /\ db'.quotes[q] = [db.quotes[q] EXCEPT !.status = "EXPIRADO"]
        BY <3>1, <4>2 DEF QuoteRows, ShownToClients
      <4> QED
        BY <2>1, <4>1, <4>2 DEF Expired
  <2>5. SameIds(db, db')
    BY <1>0, <2>1, <2>4 DEF Expired, SameIds, SoundRows, SoundLink
  <2>6. SoundRows(db')
    BY <1>0, <2>5, SameIdsKeep DEF SoundRows
  <2> QED
    BY <1>0, <1>1, <2>1, <2>3, <2>6 DEF DayInCycle, Expired
<1>4. CASE Midnight \/ AdvanceCycle
  <2>1. db' = db /\ req' = req /\ clock' \in [day : Nat, from : Int, to : Int] /\ DayInCycle'
    BY <1>4, CalendarStep
  <2> QED
    BY <1>0, <1>1, <2>1 DEF TypeInv
<1>5. CASE UNCHANGED quoteVars
  BY <1>5 DEF quoteVars, vars, TypesOK, TypeInv, IntakeTypeOK
<1> QED
  BY <1>2, <1>3, <1>4, <1>5, NextKinds

(* The types of the tables hold in every state, whatever has been lost:    *)
(* no two rows share a code, a quote shown to clients has its link, and    *)
(* what a row refers to exists.                                            *)
THEOREM IntakeTypes == Spec => []IntakeTypeOK
<1>1. Init => TypesOK
  BY TypesInit
<1>2. TypesOK /\ [Next]_quoteVars => TypesOK'
  BY TypesNext
<1>3. TypesOK => IntakeTypeOK
  BY DEF TypesOK
<1> QED
  BY <1>1, <1>2, <1>3, PTL DEF Spec

----------------------------------------------------------------------------
(* Codes.  While no counter is set back, the codes drawn and not inserted  *)
(* yet are distinct and lower than the counter; the one whose row comes    *)
(* next has been found free.                                               *)

Drawn ==
  /\ \A r \in Request : req[r].number # None => req[r].number < db.next[Table(req[r])]
  /\ \A r, s \in Request : r # s /\ req[r].number # None /\ Table(req[r]) = Table(req[s])
                             => req[r].number # req[s].number
  /\ \A r \in Request : /\ Has(r, "quote") => req[r].number \notin Codes("quotes")
                        /\ Has(r, "order") => req[r].number \notin Codes("orders")

LEMMA FreshSame ==
  ASSUME TypeInv, NEW r \in Request, NEW s \in Request, Fresh(r, s)
  PROVE  /\ req'[s].op = req[s].op /\ req'[s].todo = req[s].todo /\ req'[s].number = req[s].number
         /\ req'[s].order = req[s].order /\ req'[s].on = req[s].on /\ Table(req'[s]) = Table(req[s])
         /\ \A k : Has(s, k)' <=> Has(s, k)
<1>1. IsRequest(db, req[s]) /\ req'[s] = [req[s] EXCEPT !.stale = req'[s].stale]
  BY Typed DEF Fresh
<1>2. /\ req'[s].op = req[s].op /\ req'[s].todo = req[s].todo /\ req'[s].number = req[s].number
      /\ req'[s].order = req[s].order /\ req'[s].on = req[s].on
  BY <1>1 DEF IsRequest
<1> QED
  BY <1>2 DEF Table, Has, Busy, Todo

LEMMA SameCodes ==
  ASSUME Grows(db, db'), DOMAIN db'.quotes = DOMAIN db.quotes, DOMAIN db'.orders = DOMAIN db.orders
  PROVE  Codes("quotes")' = Codes("quotes") /\ Codes("orders")' = Codes("orders")
BY DEF Grows, Codes

(* A request that draws nothing.                                           *)
Quiet(r) ==
  /\ db'.next = db.next /\ Codes("quotes")' = Codes("quotes") /\ Codes("orders")' = Codes("orders")
  /\ req'[r].number = None \/ (req'[r].number = req[r].number /\ Table(req'[r]) = Table(req[r]))
  /\ req'[r].number = None \/ (~Has(r, "quote")' /\ ~Has(r, "order")')

LEMMA QuietKeeps ==
  ASSUME TypeInv, Drawn, NEW r \in Request, Kept(r), Quiet(r)
  PROVE  Drawn'
<1>1. ASSUME NEW s \in Request \ {r}
      PROVE  /\ req'[s].number = req[s].number /\ Table(req'[s]) = Table(req[s])
             /\ Has(s, "quote")' <=> Has(s, "quote")
             /\ Has(s, "order")' <=> Has(s, "order")
  BY FreshSame DEF Kept
<1>2. None \notin Codes("quotes") /\ None \notin Codes("orders")
  BY DEF Codes
<1>3. ASSUME NEW s \in Request
      PROVE  /\ req'[s].number # None => req'[s].number < db'.next[Table(req'[s])]
             /\ Has(s, "quote")' => req'[s].number \notin Codes("quotes")'
             /\ Has(s, "order")' => req'[s].number \notin Codes("orders")'
  BY <1>1, <1>2 DEF Drawn, Quiet
<1>4. ASSUME NEW s \in Request, NEW p \in Request, s # p, req'[s].number # None, Table(req'[s]) = Table(req'[p])
      PROVE  req'[s].number # req'[p].number
  BY <1>1, <1>4 DEF Drawn, Quiet
<1> QED
  BY <1>3, <1>4 DEF Drawn

LEMMA DrawKeepsCodes ==
  ASSUME TypeInv, Drawn, NEW r \in Request, Draw(r), ~Rewound
  PROVE  Drawn'
<1>0. Kept(r) /\ db'.quotes = db.quotes /\ db'.orders = db.orders
  BY CountStep, IncrementStep, CheckStep, ReadHighestStep, CorrectStep DEF Draw, Draws
<1>1. Codes("quotes")' = Codes("quotes") /\ Codes("orders")' = Codes("orders")
  BY <1>0 DEF Codes
<1>2. Idle.number = None /\ None \notin Codes("quotes") /\ None \notin Codes("orders")
  BY DEF Idle, Codes
<1>3. CASE CountOrders(r)
  <2>1. db'.next = db.next /\ (req'[r] = Idle \/ Goes(r))
    BY <1>3, CountStep
  <2>2. Goes(r) => Table(req'[r]) = Table(req[r])
    BY DEF Goes, Table
  <2>3. Quiet(r)
    BY <1>1, <1>2, <2>1, <2>2 DEF Quiet, Goes
  <2> QED
    BY <1>0, <2>3, QuietKeeps
<1>4. CASE ReadHighest(r)
  <2>1. Quiet(r)
    BY <1>1, <1>2, <1>4, ReadHighestStep DEF Quiet, Draws
  <2> QED
    BY <1>0, <2>1, QuietKeeps
<1>5. ASSUME NEW s \in Request \ {r}
      PROVE  /\ req'[s].number = req[s].number /\ Table(req'[s]) = Table(req[s])
             /\ Has(s, "quote")' <=> Has(s, "quote")
             /\ Has(s, "order")' <=> Has(s, "order")
  BY <1>0, FreshSame DEF Kept
<1>6. db.next \in [Tables -> Nat] /\ (\A s \in Request : req[s].number \in Nat /\ Table(req[s]) \in Tables)
  <2>1. \A s \in Request : req[s].number \in Nat
    BY Typed DEF IsRequest
  <2> QED
    BY <2>1 DEF TypeInv, TypedTables, Table, Tables
<1>7. CASE CheckCode(r)
  <2>1. /\ Draws(r) /\ db' = db /\ req'[r].number = req[r].number /\ Table(req'[r]) = Table(req[r])
        /\ Has(r, "quote")' \/ Has(r, "order")' => req[r].number \notin Codes(Table(req[r]))
    BY <1>7, CheckStep DEF Draws
  <2>2. /\ Has(r, "quote")' => req[r].number \notin Codes("quotes")
        /\ Has(r, "order")' => req[r].number \notin Codes("orders")
    <3>1. IsRequest(db', req'[r])
      BY <1>0 DEF Kept, IsTyped
    <3>2. Has(r, "quote")' => Table(req'[r]) = "quotes"
      BY <3>1, InsertTable DEF Has, Busy, Todo
    <3>3. Has(r, "order")' => Table(req'[r]) = "orders"
      BY <3>1, InsertTable DEF Has, Busy, Todo
    <3> QED
      BY <2>1, <3>2, <3>3
  <2> QED
    BY <1>1, <1>5, <2>1, <2>2 DEF Drawn
<1>8. CASE Increment(r)
  <2>1. PICK t, n : t = Table(req[r]) /\ n = db.next[t]
    OBVIOUS
  <2>2. /\ t \in Tables /\ n \in Nat /\ ~Has(r, "quote")' /\ ~Has(r, "order")' /\ req'[r].number = n
        /\ db'.next = [db.next EXCEPT ![t] = n + 1] /\ (Table(req'[r]) = t \/ req'[r].number = None)
    BY <1>2, <1>6, <1>8, <2>1, IncrementStep DEF Draws
  <2>3. ASSUME NEW s \in Request
        PROVE  req'[s].number # None => req'[s].number < db'.next[Table(req'[s])]
    <3>1. \A u \in Tables : db.next[u] \in Nat /\ db'.next[u] \in Nat /\ db.next[u] <= db'.next[u]
      BY <1>6, <2>1, <2>2
    <3>2. ASSUME NEW u \in Request, req[u].number # None
          PROVE  req[u].number < db'.next[Table(req[u])]
      BY <1>6, <3>1, <3>2 DEF Drawn
    <3>3. n < db'.next[t]
      BY <1>6, <2>2
    <3> QED
      BY <1>5, <2>2, <3>2, <3>3
  <2>4. ASSUME NEW s \in Request, NEW p \in Request, s # p, req'[s].number # None, Table(req'[s]) = Table(req'[p])
        PROVE  req'[s].number # req'[p].number
    <3>1. ASSUME NEW u \in Request \ {r}, Table(req[u]) = t, req[u].number # None
          PROVE  req[u].number # n
      BY <1>6, <2>1, <2>2, <3>1 DEF Drawn
    <3> QED
      BY <1>5, <2>2, <2>4, <3>1 DEF Drawn
  <2> QED
    BY <1>1, <1>5, <2>2, <2>3, <2>4 DEF Drawn
<1>9. CASE CorrectCounter(r)
  <2>1. PICK t : t = Table(req[r])
    OBVIOUS
  <2>2. PICK n \in Nat : db'.next = [db.next EXCEPT ![t] = n] /\ ~(n < db.next[t])
    BY <1>9, <2>1, CorrectStep
  <2>3. /\ t \in Tables /\ ~Has(r, "quote")' /\ ~Has(r, "order")'
        /\ req'[r].number = None \/ (req'[r].number = req[r].number /\ Table(req'[r]) = Table(req[r]))
    BY <1>2, <1>9, <2>1, CorrectStep DEF Draws
  <2>4. ASSUME NEW s \in Request
        PROVE  req'[s].number # None => req'[s].number < db'.next[Table(req'[s])]
    <3>1. \A u \in Tables : db.next[u] \in Nat /\ db'.next[u] \in Nat /\ db.next[u] <= db'.next[u]
      BY <1>6, <2>2
    <3>2. ASSUME NEW u \in Request, req[u].number # None
          PROVE  req[u].number < db'.next[Table(req[u])]
      BY <1>6, <3>1, <3>2 DEF Drawn
    <3> QED
      BY <1>5, <2>3, <3>2
  <2>5. ASSUME NEW s \in Request, NEW p \in Request, s # p, req'[s].number # None, Table(req'[s]) = Table(req'[p])
        PROVE  req'[s].number # req'[p].number
    BY <1>5, <2>3, <2>5 DEF Drawn
  <2> QED
    BY <1>1, <1>5, <2>3, <2>4, <2>5 DEF Drawn
<1> QED
  BY <1>3, <1>4, <1>7, <1>8, <1>9 DEF Draw

LEMMA NewRowCodes ==
  ASSUME TypeInv, NEW r \in Request
  PROVE  /\ \A row : NewQuote(r, row) => /\ Codes("quotes")' = Codes("quotes") \cup ({req[r].number} \ {None})
                                         /\ Codes("orders")' = Codes("orders") /\ db'.next = db.next
         /\ \A row : NewOrder(r, row) => /\ Codes("orders")' = Codes("orders") \cup ({req[r].number} \ {None})
                                         /\ Codes("quotes")' = Codes("quotes") /\ db'.next = db.next
<1>1. db \in TypedTables
  BY DEF TypeInv
<1>2. ASSUME NEW row, NewQuote(r, row)
      PROVE  /\ Codes("quotes")' = Codes("quotes") \cup ({req[r].number} \ {None})
             /\ Codes("orders")' = Codes("orders") /\ db'.next = db.next
  <2>1. row \in QuoteRows /\ row.code = req[r].number /\ db' = [db EXCEPT !["quotes"] = Append(@, row)]
    BY <1>2 DEF NewQuote
  <2>2. /\ db'.orders = db.orders /\ db'.next = db.next
        /\ DOMAIN db'.quotes = DOMAIN db.quotes \cup {Len(db.quotes) + 1} /\ Len(db.quotes) + 1 \notin DOMAIN db.quotes
        /\ db'.quotes[Len(db.quotes) + 1] = row /\ \A q \in DOMAIN db.quotes : db'.quotes[q] = db.quotes[q]
    BY <1>1, <2>1, AppendedQuote
  <2>3. {db'.quotes[i].code : i \in DOMAIN db'.quotes} = {db.quotes[i].code : i \in DOMAIN db.quotes} \cup {req[r].number}
    BY <2>1, <2>2
  <2>4. /\ Codes("quotes")' = {db'.quotes[i].code : i \in DOMAIN db'.quotes} \ {None}
        /\ Codes("quotes") = {db.quotes[i].code : i \in DOMAIN db.quotes} \ {None}
    BY DEF Codes
  <2>5. Codes("orders")' = Codes("orders")
    BY <2>2 DEF Codes
  <2> HIDE DEF None
  <2> QED
    BY <2>2, <2>3, <2>4, <2>5
<1>3. ASSUME NEW row, NewOrder(r, row)
      PROVE  /\ Codes("orders")' = Codes("orders") \cup ({req[r].number} \ {None})
             /\ Codes("quotes")' = Codes("quotes") /\ db'.next = db.next
  <2>1. row \in OrderRows /\ row.code = req[r].number /\ db' = [db EXCEPT !["orders"] = Append(@, row)]
    BY <1>3 DEF NewOrder
  <2>2. /\ db'.quotes = db.quotes /\ db'.next = db.next
        /\ DOMAIN db'.orders = DOMAIN db.orders \cup {Len(db.orders) + 1} /\ Len(db.orders) + 1 \notin DOMAIN db.orders
        /\ db'.orders[Len(db.orders) + 1] = row /\ \A o \in DOMAIN db.orders : db'.orders[o] = db.orders[o]
    BY <1>1, <2>1, AppendedOrder
  <2>3. {db'.orders[i].code : i \in DOMAIN db'.orders} = {db.orders[i].code : i \in DOMAIN db.orders} \cup {req[r].number}
    BY <2>1, <2>2
  <2>4. /\ Codes("orders")' = {db'.orders[i].code : i \in DOMAIN db'.orders} \ {None}
        /\ Codes("orders") = {db.orders[i].code : i \in DOMAIN db.orders} \ {None}
    BY DEF Codes
  <2>5. Codes("quotes")' = Codes("quotes")
    BY <2>2 DEF Codes
  <2> HIDE DEF None
  <2> QED
    BY <2>2, <2>3, <2>4, <2>5
<1> QED
  BY <1>2, <1>3

LEMMA InsertKeepsCodes ==
  ASSUME TypeInv, Drawn, NEW r \in Request, Kept(r), NEW row, NewQuote(r, row) \/ NewOrder(r, row)
  PROVE  Drawn'
<1>1. ASSUME NEW s \in Request \ {r}
      PROVE  /\ req'[s].number = req[s].number /\ Table(req'[s]) = Table(req[s])
             /\ Has(s, "quote")' <=> Has(s, "quote")
             /\ Has(s, "order")' <=> Has(s, "order")
  BY FreshSame DEF Kept
<1>2. req'[r].number = None /\ db'.next = db.next /\ ~Has(r, "quote")' /\ ~Has(r, "order")'
  <2>1. Idle.number = None /\ Idle.todo = <<>>
    BY DEF Idle
  <2>2. req'[r] = Idle \/ (req'[r].number = None /\ Head(req'[r].todo).kind \in {"items", "link"})
    BY DEF NewQuote, NewOrder, Finishes
  <2>3. db'.next = db.next
    BY NewRowCodes
  <2> QED
    BY <2>1, <2>2, <2>3 DEF Has, Busy, Todo
<1>3. ASSUME NEW s \in Request
      PROVE  (Has(s, "quote") => Table(req[s]) = "quotes") /\ (Has(s, "order") => Table(req[s]) = "orders")
  BY Typed, InsertTable DEF Has, Busy, Todo
<1>4. /\ NewQuote(r, row) => Table(req[r]) = "quotes"
      /\ NewOrder(r, row) => Table(req[r]) = "orders"
  BY <1>3 DEF NewQuote, NewOrder
<1>5. ASSUME NEW s \in Request
      PROVE  /\ Has(s, "quote")' => req'[s].number \notin Codes("quotes")'
             /\ Has(s, "order")' => req'[s].number \notin Codes("orders")'
  <2>1. CASE s = r
    BY <1>2, <2>1, NewRowCodes
  <2>2. CASE s # r
    BY <1>1, <1>3, <1>4, <2>2, NewRowCodes DEF Drawn
  <2> QED
    BY <2>1, <2>2
<1>6. ASSUME NEW s \in Request
      PROVE  req'[s].number # None => req'[s].number < db'.next[Table(req'[s])]
  BY <1>1, <1>2 DEF Drawn
<1>7. ASSUME NEW s \in Request, NEW p \in Request, s # p, req'[s].number # None, Table(req'[s]) = Table(req'[p])
      PROVE  req'[s].number # req'[p].number
  BY <1>1, <1>2, <1>7 DEF Drawn
<1> QED
  BY <1>5, <1>6, <1>7 DEF Drawn

LEMMA DrawnNext ==
  ASSUME TypesOK, Drawn, Next, slips' = {}
  PROVE  Drawn'
<1>0. TypeInv /\ IntakeTypeOK /\ ~Rewound
  BY NextKinds DEF TypesOK, Slip
<1>1. Idle.number = None /\ Idle.todo = <<>>
  BY DEF Idle
<1>2. CASE \E r \in Request : Handle(r) \/ Step(r) \/ Fail(r)
  <2>1. PICK r \in Request : Handle(r) \/ Step(r) \/ Fail(r)
    BY <1>2
  <2>2. Kept(r) /\ Grows(db, db')
    BY <1>0, <2>1, HandleKept, StepKinds DEF Kept
  <2>3. CASE Handle(r) \/ Fail(r)
    <3>1. db' = db /\ req'[r].number = None
      BY <1>0, <1>1, <2>3, HandleStep, FailStep, HandleKept
         DEF AsksQuote, AsksSet, AsksReread, AsksOrder, AsksRemoval, Begun, Failed
    <3>2. Quiet(r)
      BY <3>1 DEF Quiet, Codes
    <3> QED
      BY <1>0, <2>2, <3>2, QuietKeeps
  <2>4. CASE Draw(r)
    BY <1>0, <2>4, DrawKeepsCodes
  <2>5. CASE \E row : NewQuote(r, row) \/ NewOrder(r, row)
    BY <1>0, <2>2, <2>5, InsertKeepsCodes
  <2>6. CASE Refused(r)
    <3>1. Quiet(r)
      BY <1>1, <2>6 DEF Refused, Quiet, Codes
    <3> QED
      BY <1>0, <2>2, <3>1, QuietKeeps
  <2>7. CASE \/ ItemsIn(r) \/ LinkIn(r) \/ (\E o : Deleted(r, o)) \/ (\E o : Unlinked(r, o))
             \/ (\E set : WrittenBy(r, set))
    <3>1. DOMAIN db'.quotes = DOMAIN db.quotes /\ DOMAIN db'.orders = DOMAIN db.orders /\ db'.next = db.next
      BY <2>7 DEF ItemsIn, LinkIn, Deleted, Unlinked, WrittenBy
    <3>2. req'[r].number = None
      BY <1>1, <2>7 DEF ItemsIn, LinkIn, Deleted, Unlinked, WrittenBy, Finishes
    <3>3. Quiet(r)
      BY <2>2, <3>1, <3>2, SameCodes DEF Quiet
    <3> QED
      BY <1>0, <2>2, <3>3, QuietKeeps
  <2>8. CASE \E set : ReadBy(r, set)
    <3>1. PICK set : ReadBy(r, set)
      BY <2>8
    <3>2. IsRequest(db, req[r])
      BY <1>0, Typed
    <3>3. /\ db' = db /\ req'[r].number = req[r].number /\ req'[r].op = req[r].op
          /\ Head(req'[r].todo).kind = "set"
      BY <3>1, <3>2 DEF ReadBy, IsRequest
    <3>4. Quiet(r)
      BY <3>3 DEF Quiet, Codes, Table, Has, Todo
    <3> QED
      BY <1>0, <2>2, <3>4, QuietKeeps
  <2> QED
    BY <1>0, <2>1, <2>3, <2>4, <2>5, <2>6, <2>7, <2>8, StepKinds
<1>3. CASE ExpireQuotes
  <2>1. Expired
    BY <1>0, <1>3, ExpireStep
  <2>2. Codes("quotes")' = Codes("quotes") /\ Codes("orders")' = Codes("orders") /\ db'.next = db.next
    BY <2>1, SameCodes DEF Expired
  <2>3. ASSUME NEW s \in Request
        PROVE  /\ req'[s].number = req[s].number /\ Table(req'[s]) = Table(req[s])
               /\ Has(s, "quote")' <=> Has(s, "quote")
               /\ Has(s, "order")' <=> Has(s, "order")
    <3>1. IsRequest(db, req[s]) /\ req'[s] = [req[s] EXCEPT !.stale = req'[s].stale]
      BY <1>0, <2>1, Typed DEF Expired
    <3>2. req'[s].op = req[s].op /\ req'[s].todo = req[s].todo /\ req'[s].number = req[s].number
      BY <3>1 DEF IsRequest
    <3> QED
      BY <3>2 DEF Table, Has, Busy, Todo
  <2> QED
    BY <2>2, <2>3 DEF Drawn
<1>4. CASE Midnight \/ AdvanceCycle
  BY <1>4, CalendarStep DEF Drawn, Table, Has, Busy, Todo, Codes
<1> QED
  BY <1>2, <1>3, <1>4, NextKinds

(* A code found free stays free until its row is inserted, unless a        *)
(* counter has been set back: however many requests draw codes at once,    *)
(* and whatever codes were there before the counter, none of them fails on *)
(* the unique index.                                                       *)
THEOREM CodesStayFree == Spec => []CodeStaysFree
<1>1. Init => TypesOK /\ (slips = {} => Drawn)
  <2>1. Init => Drawn
    BY DEF Init, Drawn, Idle, Has, Busy, Todo
  <2> QED
    BY <2>1, TypesInit
<1>2. TypesOK /\ (slips = {} => Drawn) /\ [Next]_quoteVars => (TypesOK /\ (slips = {} => Drawn))'
  <2>1. ASSUME TypesOK, slips = {} => Drawn, UNCHANGED quoteVars, slips' = {}
        PROVE  Drawn'
    BY <2>1 DEF quoteVars, vars, Drawn, Table, Has, Busy, Todo, Codes
  <2> QED
    BY <2>1, TypesNext, DrawnNext, NextKinds
<1>3. (slips = {} => Drawn) => CodeStaysFree
  BY DEF Drawn, CodeStaysFree, Explained, Tables
<1> QED
  BY <1>1, <1>2, <1>3, PTL DEF Spec

----------------------------------------------------------------------------
(* Totals and decisions.  While no handler writes a quote that another has *)
(* written since it read it, what a request has left to write fits the     *)
(* quote: it leaves the total its sum, and a decision what it is.          *)

Fitting(d, x) ==
  LET row == d.quotes[x.on]
      w == Head(x.todo)
  IN ~x.stale /\ x.todo # <<>> =>
       /\ w.kind \in {"set", "reread"} => ~row.deleted
       /\ w.kind = "set" => Fits(row, w.set)
       /\ w.kind = "reread" => row.status \notin Decided
RowFits(row) == SumOK(row) /\ (row.deleted => row.status \notin Decided)
FitInv ==
  /\ \A q \in DOMAIN db.quotes : RowFits(db.quotes[q])
  /\ \A r \in Request : Fitting(db, req[r])

LEMMA FreshFits ==
  ASSUME TypeInv, NEW r \in Request, NEW s \in Request, Fresh(r, s), Fitting(db, req[s])
  PROVE  Fitting(db', req'[s])
<1>1. IsRequest(db, req[s]) /\ req'[s] = [req[s] EXCEPT !.stale = req'[s].stale]
  BY Typed DEF Fresh
<1>2. req'[s].todo = req[s].todo /\ req'[s].on = req[s].on
  BY <1>1 DEF IsRequest
<1>3. req[s].todo # <<>> /\ Head(req[s].todo).kind \in {"set", "reread"} => req[s].on \in DOMAIN db.quotes
  BY <1>1, SetNext
<1>4. ~req'[s].stale /\ req[s].on \in DOMAIN db.quotes =>
        ~req[s].stale /\ db'.quotes[req[s].on] = db.quotes[req[s].on]
  BY DEF Fresh
<1> QED
  BY <1>2, <1>3, <1>4 DEF Fitting

LEMMA FitsAsked ==
  ASSUME TypesOK, FitInv, NEW r \in Request, Handle(r)
  PROVE  FitInv'
<1>1. TypeInv /\ IntakeTypeOK /\ Kept(r) /\ db' = db
  BY HandleKept DEF TypesOK
<1>2. Fitting(db', req'[r])
  <2>1. CASE \E set : AsksSet(r, set)
    BY <1>1, <2>1 DEF AsksSet, Fitting
  <2>2. CASE AsksReread(r)
    BY <1>1, <2>2 DEF AsksReread, Fitting
  <2>3. CASE AsksQuote(r) \/ AsksOrder(r) \/ AsksRemoval(r)
    <3>1. Head(req'[r].todo).kind \notin {"set", "reread"}
      <4>1. AsksQuote(r) => Head(req'[r].todo).kind \notin {"set", "reread"}
        BY DEF AsksQuote, Drawing
      <4>2. AsksOrder(r) => Head(req'[r].todo).kind = "count"
        BY DEF AsksOrder, Has, Todo
      <4>3. AsksRemoval(r) => Head(req'[r].todo).kind = "delete"
        BY DEF AsksRemoval
      <4> QED
        BY <2>3, <4>1, <4>2, <4>3
    <3> QED
      BY <3>1 DEF Fitting
  <2> QED
    BY <1>1, <2>1, <2>2, <2>3, HandleStep
<1> QED
  BY <1>1, <1>2, FreshFits DEF Kept, FitInv

(* The rows a step writes, when its request is fresh.                      *)
Changed(q) ==
  LET row == db.quotes[q]
      new == db'.quotes[q]
  IN new = row \/ (RowFits(row) => RowFits(new) /\ Keeps(row, new))

LEMMA RowChanges ==
  ASSUME TypeInv, NEW q \in DOMAIN db.quotes
  PROVE  /\ db'.quotes[q] = db.quotes[q] => Changed(q)
         /\ \A o : db'.quotes[q] = [db.quotes[q] EXCEPT !.order = o] => Changed(q)
         /\ db.quotes[q].status = "ENVIADO" /\ ~db.quotes[q].deleted
              /\ db'.quotes[q] = [db.quotes[q] EXCEPT !.status = "EXPIRADO"] => Changed(q)
<1>1. db.quotes[q] \in QuoteRows
  BY QuoteIds
<1>2. ASSUME NEW o, db'.quotes[q] = [db.quotes[q] EXCEPT !.order = o]
      PROVE  Changed(q)
  BY <1>1, <1>2 DEF Changed, RowFits, SumOK, Keeps, QuoteRows
<1>3. ASSUME db.quotes[q].status = "ENVIADO", ~db.quotes[q].deleted, db'.quotes[q] = [db.quotes[q] EXCEPT !.status = "EXPIRADO"]
      PROVE  Changed(q)
  BY <1>1, <1>3 DEF Changed, RowFits, SumOK, Keeps, QuoteRows, Decided
<1> QED
  BY <1>2, <1>3 DEF Changed

LEMMA FitsWritten ==
  ASSUME TypesOK, FitInv, NEW r \in Request, Step(r), ~Overwrites, ~CopiedShort
  PROVE  FitInv' /\ \A q \in DOMAIN db.quotes : Changed(q)
<1>1. TypeInv /\ IntakeTypeOK /\ Kept(r)
  BY StepKinds DEF TypesOK
<1>2. ASSUME Head(req'[r].todo).kind \notin {"set", "reread"} \/ req'[r].todo = <<>>,
             \A q \in DOMAIN db.quotes : Changed(q),
             \A q \in DOMAIN db'.quotes \ DOMAIN db.quotes : RowFits(db'.quotes[q])
      PROVE  FitInv' /\ \A q \in DOMAIN db.quotes : Changed(q)
  <2>1. Fitting(db', req'[r])
    BY <1>2 DEF Fitting
  <2>2. \A q \in DOMAIN db'.quotes : RowFits(db'.quotes[q])
    BY <1>2 DEF Changed, FitInv
  <2> QED
    BY <1>1, <1>2, <2>1, <2>2, FreshFits DEF Kept, FitInv
<1>3. Idle.todo = <<>>
  BY DEF Idle
<1>4. CASE Draw(r) /\ db'.quotes = db.quotes
  <2>1. req'[r] = Idle \/ Drawing(req'[r])
    BY <1>1, <1>4, CountStep, IncrementStep, CheckStep, ReadHighestStep, CorrectStep DEF Draw, Draws, Goes
  <2>2. Head(req'[r].todo).kind \notin {"set", "reread"} \/ req'[r].todo = <<>>
    BY <1>3, <2>1 DEF Drawing
  <2> QED
    BY <1>1, <1>2, <1>4, <2>2, RowChanges
<1>5. CASE Insert(r) /\ (Refused(r) \/ (\E row : NewQuote(r, row)) \/ (\E row : NewOrder(r, row)))
  <2>1. CASE Refused(r)
    BY <1>1, <1>2, <1>3, <2>1, RowChanges DEF Refused
  <2>2. CASE \E row : NewOrder(r, row)
    <3>1. PICK row : NewOrder(r, row)
      BY <2>2
    <3>2. req'[r] = Idle \/ Finishes(db', req'[r])
      BY <3>1 DEF NewOrder
    <3>3. Head(req'[r].todo).kind \notin {"set", "reread"} \/ req'[r].todo = <<>>
      BY <1>3, <3>2 DEF Finishes
    <3>4. db'.quotes = db.quotes
      BY <1>1, <3>1, AppendedOrder, Typed DEF NewOrder
    <3> QED
      BY <1>1, <1>2, <3>3, <3>4, RowChanges
  <2>3. CASE \E row : NewQuote(r, row)
    <3>1. PICK row : NewQuote(r, row)
      BY <2>3
    <3>2. /\ DOMAIN db'.quotes = DOMAIN db.quotes \cup {Len(db.quotes) + 1}
          /\ db'.quotes[Len(db.quotes) + 1] = row /\ \A q \in DOMAIN db.quotes : db'.quotes[q] = db.quotes[q]
      BY <1>1, <3>1, AppendedQuote, Typed DEF NewQuote
    <3>3. SumOK(row)
      <4>1. Head(Todo(r)).row.total = computeTotals(Head(Todo(r)).row.items, Head(Todo(r)).row.product)
              \/ req[r].op = "create"
        BY <1>5, <3>1 DEF CopiedShort, NewQuote
      <4> QED
        BY <3>1, <4>1 DEF NewQuote, SumOK
    <3>4. RowFits(row)
      BY <3>1, <3>3 DEF NewQuote, RowFits, Decided
    <3>5. req'[r].todo = <<>>
      BY <1>3, <3>1 DEF NewQuote
    <3> QED
      BY <1>1, <1>2, <3>2, <3>4, <3>5, RowChanges
  <2> QED
    BY <1>5, <2>1, <2>2, <2>3
<1>6. CASE ItemsIn(r) \/ \E o : Deleted(r, o)
  <2>1. ItemsIn(r) => db'.quotes = db.quotes /\ Head(req'[r].todo).kind = "link"
    BY DEF ItemsIn
  <2>2. (\E o : Deleted(r, o)) => db'.quotes = db.quotes /\ Head(req'[r].todo).kind = "unlink"
    BY DEF Deleted
  <2> QED
    BY <1>1, <1>2, <1>6, <2>1, <2>2, RowChanges
<1>7. CASE LinkIn(r)
  BY <1>1, <1>2, <1>3, <1>7, RowChanges DEF LinkIn
<1>8. CASE \E o : Unlinked(r, o)
  BY <1>1, <1>2, <1>3, <1>8, RowChanges DEF Unlinked
<1>9. CASE WriteQuote(r) /\ \E set : WrittenBy(r, set)
  <2>1. PICK set : WrittenBy(r, set)
    BY <1>9
  <2>2. PICK q, row, new : q = req[r].on /\ row = db.quotes[q] /\ new = db'.quotes[q]
    OBVIOUS
  <2>3. /\ q \in DOMAIN db.quotes /\ new = Patched(row, set) /\ req'[r].todo = <<>> /\ DOMAIN db'.quotes = DOMAIN db.quotes
        /\ \A p \in DOMAIN db.quotes \ {q} : db'.quotes[p] = db.quotes[p]
    BY <1>3, <2>1, <2>2 DEF WrittenBy
  <2>4. Fits(row, set) /\ ~row.deleted
    <3>1. ~req[r].stale
      BY <1>9 DEF Overwrites
    <3>2. req[r].todo # <<>> /\ Head(req[r].todo).kind = "set" /\ Head(req[r].todo).set = set
      BY <2>1 DEF WrittenBy, Has, Busy, Todo
    <3>3. Fitting(db, req[r])
      BY DEF FitInv
    <3> QED
      BY <2>2, <3>1, <3>2, <3>3 DEF Fitting
  <2>5. Changed(q)
    BY <2>2, <2>3, <2>4 DEF Changed, Fits, RowFits
  <2> QED
    BY <1>1, <1>2, <2>3, <2>5, RowChanges
<1>10. CASE \E set : ReadBy(r, set)
  <2>1. PICK set : ReadBy(r, set)
    BY <1>10
  <2>2. PICK x, q, row, new : /\ x = req[r] /\ q = x.on /\ row = db.quotes[q]
                              /\ new = [set EXCEPT !.total = computeTotals(row.items, set.product)]
    OBVIOUS
  <2>3. /\ q \in DOMAIN db.quotes /\ db' = db /\ req'[r] = [x EXCEPT !.todo = <<SetQuote(q, new)>>]
        /\ set \in [product : Int, total : Int, validity : Nat] /\ x.op = "update"
    BY <2>1, <2>2 DEF ReadBy
  <2>4. IsRequest(db, x) /\ row \in QuoteRows
    BY <1>1, <2>2, <2>3, Typed, QuoteIds
  <2>5. req'[r].on = q /\ req'[r].stale = x.stale /\ req'[r].todo = <<SetQuote(q, new)>>
    BY <2>2, <2>3, <2>4 DEF IsRequest
  <2>6. ~x.stale => ~row.deleted /\ row.status \notin Decided
    BY <2>1, <2>2 DEF ReadBy, FitInv, Fitting, Has, Busy, Todo
  <2>7. DOMAIN new = {"product", "total", "validity"} /\ new["product"] = set.product
        /\ new["total"] = computeTotals(row.items, set.product)
    BY <2>2, <2>3
  <2>8. PICK row2 : row2 = Patched(row, new)
    OBVIOUS
  <2>9. row2.items = row.items /\ row2.product = set.product /\ row2.total = computeTotals(row.items, set.product)
        /\ row2.status = row.status /\ row2.deleted = row.deleted
    BY <2>4, <2>7, <2>8 DEF Patched, QuoteRows
  <2>10. ~x.stale => Fits(row, new)
    BY <2>6, <2>8, <2>9 DEF Fits, SumOK, Keeps
  <2>11. Fitting(db', req'[r])
    BY <2>2, <2>3, <2>5, <2>6, <2>10 DEF Fitting
  <2> QED
    BY <1>1, <2>3, <2>11, FreshFits, RowChanges DEF Kept, FitInv
<1> QED
  BY <1>1, <1>4, <1>5, <1>6, <1>7, <1>8, <1>9, <1>10, StepKinds

(* What every step of the system does to the quotes, and to what fits them.*)
LEMMA FitNext ==
  ASSUME TypesOK, FitInv, Next, slips' = {}
  PROVE  FitInv' /\ \A q \in DOMAIN db.quotes : Changed(q)
<1>0. TypeInv /\ IntakeTypeOK /\ ~Overwrites /\ ~CopiedShort
  BY NextKinds DEF TypesOK, Slip
<1>1. CASE \E r \in Request : Step(r)
  BY <1>0, <1>1, FitsWritten
<1>2. CASE \E r \in Request : Handle(r)
  <2>1. db' = db
    BY <1>0, <1>2, HandleKept
  <2> QED
    BY <1>0, <1>2, <2>1, FitsAsked, RowChanges
<1>3. CASE \E r \in Request : Fail(r)
  <2>1. PICK r \in Request : Failed(r)
    BY <1>0, <1>3, FailStep
  <2>2. Fitting(db', req'[r])
    BY <2>1 DEF Failed, Fitting, Idle
  <2> QED
    BY <1>0, <2>1, <2>2, RowChanges DEF Failed, FitInv
<1>4. CASE ExpireQuotes
  <2>1. Expired
    BY <1>0, <1>4, ExpireStep
  <2>2. \A q \in DOMAIN db.quotes : Changed(q)
    BY <1>0, <2>1, RowChanges DEF Expired
  <2>3. \A q \in DOMAIN db'.quotes : RowFits(db'.quotes[q])
    BY <2>1, <2>2 DEF Changed, FitInv, Expired
  <2>4. ASSUME NEW s \in Request
        PROVE  Fitting(db', req'[s])
    <3>1. IsRequest(db, req[s]) /\ req'[s] = [req[s] EXCEPT !.stale = req'[s].stale] /\ req'[s].stale \in BOOLEAN
      BY <1>0, <2>1, Typed DEF Expired
    <3>2. req'[s].todo = req[s].todo /\ req'[s].on = req[s].on
      BY <3>1 DEF IsRequest
    <3>3. req[s].todo # <<>> /\ Head(req[s].todo).kind \in {"set", "reread"} => req[s].on \in DOMAIN db.quotes
      BY <3>1, SetNext
    <3>4. ~req'[s].stale /\ req[s].on \in DOMAIN db.quotes =>
            ~req[s].stale /\ db'.quotes[req[s].on] = db.quotes[req[s].on]
      BY <2>1 DEF Expired
    <3> QED
      BY <3>2, <3>3, <3>4 DEF Fitting, FitInv
  <2> QED
    BY <2>2, <2>3, <2>4 DEF FitInv
<1>5. CASE Midnight \/ AdvanceCycle
  BY <1>0, <1>5, CalendarStep, RowChanges DEF FitInv
<1> QED
  BY <1>1, <1>2, <1>3, <1>4, <1>5, NextKinds

FitOK == TypesOK /\ (slips = {} => FitInv)

LEMMA FitInductive ==
  /\ Init => FitOK
  /\ FitOK /\ [Next]_quoteVars => FitOK'
<1>1. ASSUME Init
      PROVE  FitOK
  <2>1. \A q \in DOMAIN db.quotes : RowFits(db.quotes[q])
    <3>1. PICK first \in FirstStates : db = first.db
      BY <1>1 DEF Init
    <3>2. \A q \in DOMAIN db.quotes : SoundQuote(db, q)
      BY <3>1, FirstAssumption
    <3> QED
      BY <3>2 DEF SoundQuote, RowFits, SumOK, Decided
  <2>2. \A r \in Request : Fitting(db, req[r])
    BY <1>1 DEF Init, Fitting, Idle
  <2> QED
    BY <1>1, <2>1, <2>2, TypesInit DEF FitOK, FitInv
<1>2. ASSUME FitOK, [Next]_quoteVars
      PROVE  FitOK'
  <2>1. ASSUME UNCHANGED quoteVars, FitInv
        PROVE  FitInv'
    BY <2>1 DEF quoteVars, vars, FitInv, Fitting, RowFits
  <2>2. TypesOK'
    BY <1>2, TypesNext DEF FitOK
  <2>3. ASSUME slips' = {}
        PROVE  FitInv'
    BY <1>2, <2>1, <2>3, FitNext, NextKinds DEF FitOK, quoteVars
  <2> QED
    BY <2>2, <2>3 DEF FitOK
<1> QED
  BY <1>1, <1>2

(* The total of a quote stays the sum of what it is made of, through every *)
(* edit, whatever the prices, unless a request overwrites another's write  *)
(* or a quote with products is copied.                                     *)
THEOREM TotalStaysSum == Spec => []TotalIsSum
<1>1. FitOK => TotalIsSum
  BY DEF FitOK, FitInv, RowFits, SumOK, TotalIsSum, Explained
<1> QED
  BY <1>1, FitInductive, PTL DEF Spec

(* A decision stands: no step but one that overwrites what it has not seen *)
(* reopens a decided quote, deletes it, or changes the amount approved.    *)
THEOREM DecisionsStand == Spec => DecisionStands
<1>1. ASSUME FitOK, [Next]_quoteVars, NEW q \in DOMAIN db.quotes, Is(q, Decided), slips' = {}
      PROVE  /\ db'.quotes[q].status = db.quotes[q].status
                \/ (~Is(q, {"APROVADO"}) /\ db'.quotes[q].status = "CANCELADO")
             /\ Is(q, {"APROVADO"}) => db'.quotes[q].total = db.quotes[q].total
             /\ ~db'.quotes[q].deleted
  <2>1. slips = {}
    BY <1>1, NextKinds DEF quoteVars
  <2>2. RowFits(db.quotes[q]) /\ db.quotes[q].status \in Decided /\ ~db.quotes[q].deleted
    BY <1>1, <2>1 DEF FitOK, FitInv, RowFits, Is
  <2>3. CASE UNCHANGED quoteVars
    BY <2>2, <2>3 DEF quoteVars, vars
  <2>4. CASE Next
    <3>1. Changed(q)
      BY <1>1, <2>1, <2>4, FitNext DEF FitOK
    <3> QED
      BY <2>2, <3>1 DEF Changed, Keeps, Is
  <2> QED
    BY <1>1, <2>3, <2>4
<1>2. FitOK /\ [Next]_quoteVars =>
        [\A q \in DOMAIN db.quotes : Is(q, Decided) /\ slips' = {} =>
           /\ db'.quotes[q].status = db.quotes[q].status
              \/ (~Is(q, {"APROVADO"}) /\ db'.quotes[q].status = "CANCELADO")
           /\ Is(q, {"APROVADO"}) => db'.quotes[q].total = db.quotes[q].total
           /\ ~db'.quotes[q].deleted]_quoteVars
  BY <1>1
<1> QED
  BY <1>2, FitInductive, PTL DEF Spec, DecisionStands

----------------------------------------------------------------------------
(* Orders of quotes.  While no two requests make an order of one quote, no *)
(* request stops between an order and its link, and no quote is given      *)
(* another order or a dead one: a live order is the one its quote has, or  *)
(* a request is about to give it to the quote.                             *)

OrdersOf(d, q) == {o \in DOMAIN d.orders : ~d.orders[o].deleted /\ d.orders[o].quote = q}
Making(r) == req[r].op = "createOs"
Made(r) == Making(r) /\ Head(req[r].todo).kind \in {"items", "link"}
Unlinks(r, o) == req[r].todo = <<Unlink(o)>>

OneOrder ==
  /\ \A r \in Request : Making(r) => OrdersOf(db, req[r].on) \subseteq IF Made(r) THEN {req[r].order} ELSE {}
  /\ \A r, s \in Request : r # s /\ Making(r) /\ Making(s) => req[r].on # req[s].on
  /\ \A o \in DOMAIN db.orders :
       LET q == db.orders[o].quote
       IN ~db.orders[o].deleted /\ q # None =>
            db.quotes[q].order = o \/ \E r \in Request : Made(r) /\ req[r].on = q
LinkInv ==
  \A q \in DOMAIN db.quotes :
    LET o == db.quotes[q].order
    IN o # None => /\ db.orders[o].deleted => \E r \in Request : Unlinks(r, o)
                   /\ db.orders[o].quote = q => db.orders[o].items
Linked == OneOrder /\ LinkInv

LEMMA MakingShape ==
  ASSUME TypeInv, NEW r \in Request, Making(r)
  PROVE  /\ Doing(r, "link") /\ req[r].on \in DOMAIN db.quotes /\ req[r].on # None /\ req[r].todo # <<>>
         /\ Made(r) => Finishes(db, req[r]) /\ (Has(r, "items") \/ Has(r, "link"))
         /\ ~Made(r) => Converts(req[r])
         /\ Drawing(req[r]) \/ Has(r, "count") => ~Made(r)
         /\ \A o : ~Unlinks(r, o)
<1>1. PICK x : x = req[r] /\ IsRequest(db, x) /\ x.op = "createOs"
  BY Typed DEF Making
<1>2. Converts(x) \/ Finishes(db, x)
  BY <1>1 DEF IsRequest, Inserts, Sets, Orders, Removes, Setters, Linkers
<1>3. x.on \in DOMAIN db.quotes /\ x.on # None
  BY <1>1 DEF IsRequest
<1>4. CASE Converts(x)
  <2>1. PICK g, w : /\ IsOrder(w, x.on)
                    /\ \/ x.todo = <<Count("month"), Code("orders"), w, AddItems, Link(x.on)>>
                       \/ IsGen(g, "orders") /\ x.todo = <<g, w, AddItems, Link(x.on)>>
                       \/ x.todo = <<w, AddItems, Link(x.on)>>
    BY <1>4 DEF Converts
  <2>2. CASE x.todo = <<Count("month"), Code("orders"), w, AddItems, Link(x.on)>>
    <3>1. 5 \in DOMAIN x.todo /\ x.todo[5].kind = "link" /\ Head(x.todo).kind = "count"
      BY <2>2
    <3>2. \A o : x.todo # <<Unlink(o)>>
      BY <3>1
    <3> QED
      BY <1>1, <1>3, <1>4, <3>1, <3>2 DEF Doing, Todo, Made, Making, Has, Unlinks
  <2>3. CASE IsGen(g, "orders") /\ x.todo = <<g, w, AddItems, Link(x.on)>>
    <3>1. 4 \in DOMAIN x.todo /\ x.todo[4].kind = "link" /\ Head(x.todo) = g
      BY <2>3
    <3>2. g.kind \in {"code", "check", "highest", "correct"}
      BY <2>3 DEF IsGen
    <3>3. \A o : x.todo # <<Unlink(o)>>
      BY <3>1, <3>2
    <3> QED
      BY <1>1, <1>3, <1>4, <3>1, <3>2, <3>3 DEF Doing, Todo, Made, Making, Has, Unlinks
  <2>4. CASE x.todo = <<w, AddItems, Link(x.on)>>
    <3>1. 3 \in DOMAIN x.todo /\ x.todo[3].kind = "link" /\ Head(x.todo) = w
      BY <2>4
    <3>2. w.kind = "order"
      BY <2>1 DEF IsOrder
    <3>3. \A o : x.todo # <<Unlink(o)>>
      BY <3>1, <3>2
    <3> QED
      BY <1>1, <1>3, <1>4, <3>1, <3>2, <3>3 DEF Doing, Todo, Made, Making, Has, Unlinks
  <2> QED
    BY <2>1, <2>2, <2>3, <2>4
<1>5. CASE Finishes(db, x)
  <2>1. CASE x.todo = <<AddItems, Link(x.on)>>
    <3>1. 2 \in DOMAIN x.todo /\ x.todo[2].kind = "link" /\ Head(x.todo).kind = "items"
      BY <2>1
    <3>2. \A o : x.todo # <<Unlink(o)>>
      BY <3>1
    <3> QED
      BY <1>1, <1>3, <1>5, <3>1, <3>2 DEF Doing, Todo, Made, Making, Has, Busy, Unlinks, Drawing
  <2>2. CASE x.todo = <<Link(x.on)>>
    <3>1. 1 \in DOMAIN x.todo /\ x.todo[1].kind = "link" /\ Head(x.todo).kind = "link"
      BY <2>2
    <3>2. \A o : x.todo # <<Unlink(o)>>
      BY <3>1
    <3> QED
      BY <1>1, <1>3, <1>5, <3>1, <3>2 DEF Doing, Todo, Made, Making, Has, Busy, Unlinks, Drawing
  <2> QED
    BY <1>5, <2>1, <2>2 DEF Finishes
<1> QED
  BY <1>2, <1>4, <1>5

(* A request that is as far with an order as it was.                       *)
Still(s) ==
  /\ Making(s)' => Making(s) /\ req'[s].on = req[s].on
  /\ Made(s)' <=> Made(s)
  /\ Made(s) => req'[s].on = req[s].on /\ req'[s].order = req[s].order
  /\ \A o : Unlinks(s, o) => Unlinks(s, o)'

LEMMA FreshStill ==
  ASSUME TypeInv, NEW r \in Request, NEW s \in Request, Fresh(r, s)
  PROVE  Still(s)
BY FreshSame DEF Still, Making, Made, Unlinks

LEMMA StillLinked ==
  ASSUME TypesOK, TypesOK', Linked, Grows(db, db'), \A s \in Request : Still(s), ~LinkedDead,
         DOMAIN db'.orders = DOMAIN db.orders,
         \A o \in DOMAIN db.orders : /\ db'.orders[o].deleted = db.orders[o].deleted
                                     /\ db.orders[o].items => db'.orders[o].items,
         \A q \in DOMAIN db.quotes : \/ db'.quotes[q].order = db.quotes[q].order
                                     \/ db.quotes[q].order = None /\ \A s \in Request : Making(s) => req[s].on # q
  PROVE  Linked'
<1>1. \A q : OrdersOf(db', q) = OrdersOf(db, q)
  BY DEF OrdersOf, Grows
<1>2. ASSUME NEW s \in Request, Making(s)'
      PROVE  OrdersOf(db', req'[s].on) \subseteq IF Made(s)' THEN {req'[s].order} ELSE {}
  BY <1>1, <1>2 DEF Still, Linked, OneOrder
<1>3. ASSUME NEW p \in Request, NEW s \in Request, p # s, Making(p)', Making(s)'
      PROVE  req'[p].on # req'[s].on
  BY <1>3 DEF Still, Linked, OneOrder
<1>4. /\ \A o \in DOMAIN db.orders : o # None /\ db.orders[o].quote \in DOMAIN db.quotes \cup {None}
      /\ \A q \in DOMAIN db'.quotes : db'.quotes[q].order \in DOMAIN db'.orders \cup {None}
  BY TypeParts, QuoteIds DEF TypesOK, SoundRows, SoundMaker, SoundLink
<1>5. ASSUME NEW o \in DOMAIN db'.orders, NEW q, q = db'.orders[o].quote, ~db'.orders[o].deleted, q # None
      PROVE  db'.quotes[q].order = o \/ \E r \in Request : Made(r)' /\ req'[r].on = q
  <2>2. /\ db.orders[o].quote = q /\ q \in DOMAIN db.quotes /\ o # None
        /\ db.quotes[q].order = o \/ \E r \in Request : Made(r) /\ req[r].on = q
    BY <1>4, <1>5 DEF Grows, Linked, OneOrder
  <2>3. CASE \E r \in Request : Made(r) /\ req[r].on = q
    <3>1. PICK r \in Request : Made(r) /\ req[r].on = q
      BY <2>3
    <3>2. Made(r)' /\ req'[r].on = q
      BY <3>1 DEF Still
    <3> QED
      BY <3>2
  <2>4. CASE db.quotes[q].order = o
    BY <2>2, <2>4
  <2> QED
    BY <2>2, <2>3, <2>4
<1>6. ASSUME NEW q \in DOMAIN db'.quotes, NEW o, o = db'.quotes[q].order, o # None
      PROVE  /\ db'.orders[o].deleted => \E r \in Request : Unlinks(r, o)'
             /\ db'.orders[o].quote = q => db'.orders[o].items
  <2>1. o \in DOMAIN db.orders /\ db'.orders[o].quote = db.orders[o].quote
    BY <1>4, <1>6 DEF Grows
  <2>2. CASE q \in DOMAIN db.quotes /\ db.quotes[q].order = o
    <3>1. /\ db.orders[o].deleted => \E r \in Request : Unlinks(r, o)
          /\ db.orders[o].quote = q => db.orders[o].items
      BY <1>6, <2>2 DEF Linked, LinkInv
    <3> QED
      BY <2>1, <3>1 DEF Still
  <2>3. CASE ~(q \in DOMAIN db.quotes /\ db.quotes[q].order = o)
    <3>1. ~db.orders[o].deleted /\ db.orders[o].items
      BY <1>6, <2>3 DEF LinkedDead
    <3> QED
      BY <2>1, <3>1
  <2> QED
    BY <2>2, <2>3
<1>7. OneOrder'
  BY <1>2, <1>3, <1>5 DEF OneOrder
<1>8. LinkInv'
  BY <1>6 DEF LinkInv
<1> QED
  BY <1>7, <1>8 DEF Linked

LEMMA NotUnlinking ==
  ASSUME NEW r \in Request, NEW o, Unlinks(r, o)
  PROVE  Has(r, "unlink") /\ req[r].todo # <<>> /\ Head(req[r].todo).kind = "unlink"
BY DEF Unlinks, Has, Busy, Todo

LEMMA RequestStill ==
  ASSUME TypesOK, NEW r \in Request, ~Broken,
         \/ Draw(r)
         \/ Refused(r) /\ Insert(r)
         \/ (\E row : NewQuote(r, row)) \/ ItemsIn(r)
         \/ (\E set : WrittenBy(r, set)) \/ (\E set : ReadBy(r, set))
         \/ AsksQuote(r) \/ (\E set : AsksSet(r, set)) \/ AsksReread(r) \/ AsksRemoval(r)
         \/ AsksOrder(r) /\ req'[r].op # "createOs"
         \/ Fail(r)
  PROVE  Still(r)
<1>0. TypeInv /\ Idle.op = "idle" /\ Idle.todo = <<>>
  BY DEF TypesOK, Idle
<1>1. ASSUME ~Making(r) \/ (req'[r].on = req[r].on /\ ~Made(r)), req'[r].op = req[r].op \/ ~Making(r)', ~Made(r)',
             \A o : ~Unlinks(r, o)
      PROVE  Still(r)
  BY <1>1 DEF Still, Making, Made
<1>2. ASSUME ~Made(r), ~Making(r)', \A o : ~Unlinks(r, o)
      PROVE  Still(r)
  BY <1>2 DEF Still, Making, Made
<1>3. CASE Draw(r)
  <2>1. /\ Has(r, "count") \/ Drawing(req[r])
        /\ req'[r] = Idle \/ (Drawing(req'[r]) /\ req'[r].op = req[r].op /\ req'[r].on = req[r].on)
    BY <1>0, <1>3, CountStep, IncrementStep, CheckStep, ReadHighestStep, CorrectStep DEF Draw, Draws, Goes, CountOrders
  <2>2. ~Made(r) /\ \A o : ~Unlinks(r, o)
    BY <1>0, <2>1, MakingShape, NotUnlinking DEF Made, Has, Todo, Drawing
  <2>3. req'[r] = Idle => ~Making(r)'
    BY <1>0 DEF Making
  <2>4. Drawing(req'[r]) => ~Made(r)'
    BY DEF Drawing, Made
  <2> QED
    BY <1>1, <1>2, <2>1, <2>2, <2>3, <2>4
<1>4. CASE (Refused(r) /\ Insert(r)) \/ \E row : NewQuote(r, row)
  <2>1. Drawing(req[r]) /\ req'[r] = Idle
    BY <1>0, <1>4, InsertStep DEF Refused, NewQuote, Drawing, Has, Busy, Todo
  <2>2. ~Made(r) /\ \A o : ~Unlinks(r, o)
    BY <1>0, <2>1, MakingShape, NotUnlinking DEF Made, Drawing
  <2> QED
    BY <1>0, <1>2, <2>1, <2>2 DEF Making
<1>5. CASE ItemsIn(r)
  <2>1. /\ Head(req[r].todo).kind = "items" /\ Head(req'[r].todo).kind = "link"
        /\ req[r].op = "createOs" /\ req'[r].op = "createOs"
        /\ req'[r].on = req[r].on /\ req'[r].order = req[r].order
    BY <1>5 DEF ItemsIn, Finishes
  <2> QED
    BY <2>1, NotUnlinking DEF Still, Making, Made
<1>6. CASE \E set : WrittenBy(r, set)
  <2>1. req[r].op # "createOs" /\ req'[r] = Idle /\ Head(req[r].todo).kind = "set"
    BY <1>6 DEF WrittenBy, Setters, Linkers, Has, Todo
  <2> QED
    BY <1>0, <1>2, <2>1, NotUnlinking DEF Making, Made
<1>7. CASE \E set : ReadBy(r, set)
  <2>1. req[r].op = "update" /\ Head(req[r].todo).kind = "reread" /\ req'[r].op = req[r].op
    <3>1. IsRequest(db, req[r])
      BY <1>0, Typed
    <3> QED
      BY <1>7, <3>1 DEF ReadBy, Has, Todo, IsRequest
  <2> QED
    BY <1>2, <2>1, NotUnlinking DEF Making, Made
<1>8. CASE \/ AsksQuote(r) \/ (\E set : AsksSet(r, set)) \/ AsksReread(r) \/ AsksRemoval(r)
           \/ AsksOrder(r) /\ req'[r].op # "createOs"
  <2>1. req[r].todo = <<>> /\ req'[r].op # "createOs"
    BY <1>8 DEF AsksQuote, AsksSet, AsksReread, AsksRemoval, AsksOrder, Begun, Setters, Linkers
  <2>2. ~Making(r)
    BY <1>0, <2>1, MakingShape
  <2> QED
    BY <1>2, <2>1, <2>2, NotUnlinking DEF Making, Made
<1>9. CASE Fail(r)
  <2>1. req'[r] = Idle /\ ~Has(r, "items") /\ ~Has(r, "link") /\ ~Has(r, "unlink")
    BY <1>0, <1>9, FailStep DEF Failed, Broken
  <2>2. ~Made(r)
    BY <1>0, <2>1, MakingShape DEF Made
  <2> QED
    BY <1>0, <1>2, <2>1, <2>2, NotUnlinking DEF Making
<1> QED
  BY <1>3, <1>4, <1>5, <1>6, <1>7, <1>8, <1>9

(* An order of a quote begins when the quote has none.                     *)
LEMMA BeginsLinked ==
  ASSUME TypesOK, Linked, NEW r \in Request, Handle(r), AsksOrder(r), req'[r].op = "createOs", ~Twice
  PROVE  Linked'
<1>0. TypeInv /\ Begun(r) /\ db' = db /\ Has(r, "count")'
  BY DEF TypesOK, AsksOrder, Begun
<1>1. /\ req[r].todo = <<>> /\ ~Making(r) /\ ~Made(r)' /\ req'[r].on \in DOMAIN db.quotes
      /\ db.quotes[req'[r].on].order = None /\ req'[r].on # None
  <2>1. req[r].todo = <<>>
    BY <1>0 DEF Begun
  <2>2. ~Making(r)
    BY <1>0, <2>1, MakingShape
  <2>3. ~Made(r)'
    BY <1>0 DEF Made, Has, Todo
  <2>4. req'[r].on \in DOMAIN db.quotes /\ db.quotes[req'[r].on].order = None
    BY DEF AsksOrder
  <2> QED
    BY <1>0, <2>1, <2>2, <2>3, <2>4, QuoteIds
<1>2. ASSUME NEW s \in Request \ {r}
      PROVE  /\ req'[s] = req[s] /\ (Making(s)' <=> Making(s)) /\ (Made(s)' <=> Made(s))
             /\ Making(s) => req[s].on # req'[r].on
  <2>1. req'[s] = req[s]
    BY <1>0 DEF Begun
  <2>2. Making(s) => req[s].on # req'[r].on
    BY <1>0, <1>1, MakingShape DEF Twice, Begins, Busy, Todo
  <2> QED
    BY <2>1, <2>2 DEF Making, Made
<1>3. OrdersOf(db, req'[r].on) = {}
  BY <1>0, <1>1, <1>2, QuoteIds DEF OrdersOf, Linked, OneOrder, Made
<1>4. ASSUME NEW s \in Request, Making(s)'
      PROVE  OrdersOf(db', req'[s].on) \subseteq IF Made(s)' THEN {req'[s].order} ELSE {}
  BY <1>0, <1>1, <1>2, <1>3, <1>4 DEF Linked, OneOrder
<1>5. ASSUME NEW p \in Request, NEW s \in Request, p # s, Making(p)', Making(s)'
      PROVE  req'[p].on # req'[s].on
  BY <1>2, <1>5 DEF Linked, OneOrder
<1>6. \A s \in Request : Made(s) => Made(s)' /\ req'[s].on = req[s].on
  BY <1>1, <1>2 DEF Made
<1>7. \A s \in Request : \A o : Unlinks(s, o) => Unlinks(s, o)'
  BY <1>1, <1>2, NotUnlinking DEF Unlinks
<1>8. OneOrder'
  BY <1>0, <1>4, <1>5, <1>6 DEF Linked, OneOrder
<1>9. LinkInv'
  BY <1>0, <1>7 DEF Linked, LinkInv
<1> QED
  BY <1>8, <1>9 DEF Linked

(* The order is inserted, and nobody else makes one of its quote.          *)
LEMMA InsertLinked ==
  ASSUME TypesOK, Linked, NEW r \in Request, Kept(r), NEW row, NewOrder(r, row)
  PROVE  Linked'
<1>0. TypeInv /\ SoundRows(db) /\ db \in TypedTables
  BY TypeParts DEF TypesOK, TypeInv
<1>1. PICK new : new = Len(db.orders) + 1
  OBVIOUS
<1>2. /\ db'.quotes = db.quotes /\ DOMAIN db'.orders = DOMAIN db.orders \cup {new} /\ new \notin DOMAIN db.orders
      /\ db'.orders[new] = row /\ \A o \in DOMAIN db.orders : db'.orders[o] = db.orders[o]
  BY <1>0, <1>1, AppendedOrder DEF NewOrder
<1>3. ASSUME NEW s \in Request \ {r}
      PROVE  /\ (Making(s)' <=> Making(s)) /\ (Made(s)' <=> Made(s)) /\ req'[s].on = req[s].on /\ req'[s].order = req[s].order
             /\ req'[s].todo = req[s].todo
  BY <1>0, FreshSame DEF Kept, Making, Made
<1>4. (\A o : ~Unlinks(r, o)) /\ Head(req[r].todo).kind = "order" /\ ~Made(r)
  BY NotUnlinking DEF NewOrder, Has, Todo, Made
<1>5. \/ /\ Making(r) /\ row.quote = req[r].on /\ Made(r)' /\ Making(r)' /\ req'[r].on = req[r].on /\ req'[r].order = new
         /\ req[r].on # None
      \/ ~Making(r) /\ row.quote = None /\ ~Making(r)' /\ ~Made(r)'
  <2>1. Idle.op # "createOs"
    BY DEF Idle
  <2>2. Finishes(db', req'[r]) => Making(r)' /\ Made(r)'
    BY DEF Finishes, Making, Made
  <2> QED
    BY <1>0, <1>1, <2>1, <2>2, MakingShape DEF NewOrder, Making, Made
<1>6. \A q : OrdersOf(db', q) \subseteq OrdersOf(db, q) \cup IF row.quote = q THEN {new} ELSE {}
  BY <1>2 DEF OrdersOf
<1>7. ASSUME NEW s \in Request, Making(s)'
      PROVE  OrdersOf(db', req'[s].on) \subseteq IF Made(s)' THEN {req'[s].order} ELSE {}
  <2>1. Making(s) /\ req'[s].on = req[s].on
    BY <1>3, <1>5, <1>7
  <2>2. OrdersOf(db, req[s].on) \subseteq IF Made(s) THEN {req[s].order} ELSE {}
    BY <2>1 DEF Linked, OneOrder
  <2>3. req[s].on # None
    BY <1>0, <2>1, MakingShape
  <2>4. s # r => row.quote # req[s].on
    BY <1>5, <2>1, <2>3 DEF Linked, OneOrder
  <2> QED
    BY <1>3, <1>4, <1>5, <1>6, <2>1, <2>2, <2>4
<1>8. ASSUME NEW p \in Request, NEW s \in Request, p # s, Making(p)', Making(s)'
      PROVE  req'[p].on # req'[s].on
  BY <1>3, <1>5, <1>8 DEF Linked, OneOrder
<1>9. ASSUME NEW o \in DOMAIN db'.orders, NEW q, q = db'.orders[o].quote, ~db'.orders[o].deleted, q # None
      PROVE  db'.quotes[q].order = o \/ \E s \in Request : Made(s)' /\ req'[s].on = q
  <2>1. CASE o = new
    BY <1>2, <1>5, <1>9, <2>1
  <2>2. CASE o # new
    BY <1>2, <1>3, <1>4, <1>9, <2>2 DEF Linked, OneOrder
  <2> QED
    BY <2>1, <2>2
<1>10. ASSUME NEW q \in DOMAIN db'.quotes, NEW o, o = db'.quotes[q].order, o # None
       PROVE  /\ db'.orders[o].deleted => \E s \in Request : Unlinks(s, o)'
              /\ db'.orders[o].quote = q => db'.orders[o].items
  <2>1. o \in DOMAIN db.orders
    BY <1>0, <1>2, <1>10 DEF SoundRows, SoundLink
  <2>2. \A s \in Request : Unlinks(s, o) => Unlinks(s, o)'
    BY <1>3, <1>4 DEF Unlinks
  <2> QED
    BY <1>2, <1>10, <2>1, <2>2 DEF Linked, LinkInv
<1>11. OneOrder'
  BY <1>7, <1>8, <1>9 DEF OneOrder
<1>12. LinkInv'
  BY <1>10 DEF LinkInv
<1> QED
  BY <1>11, <1>12 DEF Linked

(* The quote gets the order that was made of it.                           *)
LEMMA LinkLinked ==
  ASSUME TypesOK, Linked, NEW r \in Request, Kept(r), LinkIn(r), ~LinkedDead
  PROVE  Linked'
<1>0. TypeInv /\ SoundRows(db) /\ Idle.op # "createOs"
  BY TypeParts DEF TypesOK, Idle
<1>1. PICK q, o : q = req[r].on /\ o = req[r].order
  OBVIOUS
<1>2. /\ Finishes(db, req[r]) /\ q \in DOMAIN db.quotes /\ Has(r, "link") /\ db'.orders = db.orders
      /\ DOMAIN db'.quotes = DOMAIN db.quotes /\ ~Making(r)' /\ ~Made(r)' /\ Made(r)
      /\ \A p \in DOMAIN db.quotes \ {q} : db'.quotes[p] = db.quotes[p]
  BY <1>0, <1>1 DEF LinkIn, Making, Made, Finishes, Has, Todo
<1>3. db'.quotes[q].order = o
  <2>1. db.quotes[q] \in QuoteRows /\ db'.quotes[q] = [db.quotes[q] EXCEPT !.order = o]
    BY <1>0, <1>1, <1>2, QuoteIds DEF LinkIn
  <2> QED
    BY <2>1 DEF QuoteRows
<1>4. ASSUME NEW s \in Request \ {r}
      PROVE  /\ (Making(s)' <=> Making(s)) /\ (Made(s)' <=> Made(s)) /\ req'[s].on = req[s].on /\ req'[s].order = req[s].order
             /\ req'[s].todo = req[s].todo
  BY <1>0, FreshSame DEF Kept, Making, Made
<1>5. \A p : OrdersOf(db', p) = OrdersOf(db, p)
  BY <1>2 DEF OrdersOf
<1>6. ASSUME NEW s \in Request, Making(s)'
      PROVE  OrdersOf(db', req'[s].on) \subseteq IF Made(s)' THEN {req'[s].order} ELSE {}
  BY <1>2, <1>4, <1>5, <1>6 DEF Linked, OneOrder
<1>7. ASSUME NEW p \in Request, NEW s \in Request, p # s, Making(p)', Making(s)'
      PROVE  req'[p].on # req'[s].on
  BY <1>2, <1>4, <1>7 DEF Linked, OneOrder
<1>8. ASSUME NEW l \in DOMAIN db'.orders, NEW p, p = db'.orders[l].quote, ~db'.orders[l].deleted, p # None
      PROVE  db'.quotes[p].order = l \/ \E s \in Request : Made(s)' /\ req'[s].on = p
  <2>1. CASE p = q
    <3>1. l \in OrdersOf(db, q)
      BY <1>2, <1>8, <2>1 DEF OrdersOf
    <3>2. OrdersOf(db, q) \subseteq {o}
      BY <1>1, <1>2 DEF Linked, OneOrder, Made
    <3> QED
      BY <1>3, <2>1, <3>1, <3>2
  <2>2. CASE p # q
    <3>1. db.quotes[p].order = l \/ \E s \in Request : Made(s) /\ req[s].on = p
      BY <1>2, <1>8 DEF Linked, OneOrder
    <3>2. p \in DOMAIN db.quotes
      BY <1>0, <1>2, <1>8 DEF SoundRows, SoundMaker
    <3> QED
      BY <1>1, <1>2, <1>4, <2>2, <3>1, <3>2
  <2> QED
    BY <2>1, <2>2
<1>9. ASSUME NEW p \in DOMAIN db'.quotes, NEW l, l = db'.quotes[p].order, l # None
      PROVE  /\ db'.orders[l].deleted => \E s \in Request : Unlinks(s, l)'
             /\ db'.orders[l].quote = p => db'.orders[l].items
  <2>1. CASE db.quotes[p].order = l
    <3>1. \A s \in Request : Unlinks(s, l) => Unlinks(s, l)'
      BY <1>2, <1>4, NotUnlinking DEF Unlinks, Has
    <3> QED
      BY <1>2, <1>9, <2>1, <3>1 DEF Linked, LinkInv
  <2>2. CASE db.quotes[p].order # l
    BY <1>2, <1>9, <2>2 DEF LinkedDead
  <2> QED
    BY <2>1, <2>2
<1>10. OneOrder'
  BY <1>6, <1>7, <1>8 DEF OneOrder
<1>11. LinkInv'
  BY <1>9 DEF LinkInv
<1> QED
  BY <1>10, <1>11 DEF Linked

(* An order goes: its quotes are to leave it.                              *)
LEMMA DeleteLinked ==
  ASSUME TypesOK, Linked, NEW r \in Request, Kept(r), NEW o, Deleted(r, o)
  PROVE  Linked'
<1>0. TypeInv /\ Grows(db, db')
  BY DEF TypesOK, Kept
<1>1. /\ db'.quotes = db.quotes /\ DOMAIN db'.orders = DOMAIN db.orders /\ o \in DOMAIN db.orders
      /\ \A p \in DOMAIN db.orders \ {o} : db'.orders[p] = db.orders[p]
      /\ Unlinks(r, o)' /\ req'[r].op # "createOs" /\ Head(req[r].todo).kind = "delete"
  BY DEF Deleted, Unlinks, Has, Todo
<1>2. \A p \in DOMAIN db.orders : db'.orders[p].items = db.orders[p].items
  <2>1. db.orders[o] \in OrderRows /\ db'.orders[o] = [db.orders[o] EXCEPT !.deleted = TRUE]
    BY <1>0, QuoteIds DEF Deleted
  <2>2. db'.orders[o].items = db.orders[o].items
    BY <2>1 DEF OrderRows
  <2> QED
    BY <1>1, <2>2
<1>3. ~Made(r) /\ ~Making(r)' /\ ~Made(r)' /\ \A p : ~Unlinks(r, p)
  BY <1>1, NotUnlinking DEF Made, Making
<1>4. ASSUME NEW s \in Request \ {r}
      PROVE  /\ (Making(s)' <=> Making(s)) /\ (Made(s)' <=> Made(s)) /\ req'[s].on = req[s].on /\ req'[s].order = req[s].order
             /\ req'[s].todo = req[s].todo
  BY <1>0, FreshSame DEF Kept, Making, Made
<1>5. \A q : OrdersOf(db', q) \subseteq OrdersOf(db, q)
  BY <1>0, <1>1 DEF OrdersOf, Grows
<1>6. ASSUME NEW s \in Request, Making(s)'
      PROVE  OrdersOf(db', req'[s].on) \subseteq IF Made(s)' THEN {req'[s].order} ELSE {}
  BY <1>3, <1>4, <1>5, <1>6 DEF Linked, OneOrder
<1>7. ASSUME NEW p \in Request, NEW s \in Request, p # s, Making(p)', Making(s)'
      PROVE  req'[p].on # req'[s].on
  BY <1>3, <1>4, <1>7 DEF Linked, OneOrder
<1>8. ASSUME NEW l \in DOMAIN db'.orders, NEW q, q = db'.orders[l].quote, ~db'.orders[l].deleted, q # None
      PROVE  db'.quotes[q].order = l \/ \E s \in Request : Made(s)' /\ req'[s].on = q
  <2>1. ~db.orders[l].deleted /\ db.orders[l].quote = q
    BY <1>0, <1>1, <1>8 DEF Grows
  <2> QED
    BY <1>1, <1>3, <1>4, <1>8, <2>1 DEF Linked, OneOrder
<1>9. ASSUME NEW q \in DOMAIN db'.quotes, NEW l, l = db'.quotes[q].order, l # None
      PROVE  /\ db'.orders[l].deleted => \E s \in Request : Unlinks(s, l)'
             /\ db'.orders[l].quote = q => db'.orders[l].items
  <2>1. l \in DOMAIN db.orders
    BY <1>1, <1>9, TypeParts DEF TypesOK, SoundRows, SoundLink
  <2>2. CASE l = o
    <3>1. db'.orders[o].quote = db.orders[o].quote
      BY <1>0, <1>1 DEF Grows
    <3>2. db.orders[o].quote = q => db.orders[o].items
      BY <1>1, <1>9, <2>2 DEF Linked, LinkInv
    <3> QED
      BY <1>1, <1>2, <2>2, <3>1, <3>2
  <2>3. CASE l # o
    <3>1. \A s \in Request : Unlinks(s, l) => Unlinks(s, l)'
      BY <1>3, <1>4 DEF Unlinks
    <3> QED
      BY <1>1, <1>9, <2>1, <2>3, <3>1 DEF Linked, LinkInv
  <2> QED
    BY <2>2, <2>3
<1>10. OneOrder'
  BY <1>6, <1>7, <1>8 DEF OneOrder
<1>11. LinkInv'
  BY <1>9 DEF LinkInv
<1> QED
  BY <1>10, <1>11 DEF Linked

LEMMA UnlinkLinked ==
  ASSUME TypesOK, Linked, NEW r \in Request, Kept(r), NEW o, Unlinked(r, o)
  PROVE  Linked'
<1>0. TypeInv /\ o # None /\ Idle.op # "createOs"
  BY QuoteIds DEF TypesOK, Unlinked, Idle
<1>1. /\ db'.orders = db.orders /\ DOMAIN db'.quotes = DOMAIN db.quotes /\ db.orders[o].deleted /\ Unlinks(r, o)
      /\ \A q \in DOMAIN db.quotes :
           db'.quotes[q].order = IF db.quotes[q].order = o THEN None ELSE db.quotes[q].order
  <2>1. \A q \in DOMAIN db.quotes : db.quotes[q] \in QuoteRows
    BY <1>0, QuoteIds
  <2>2. ASSUME NEW q \in DOMAIN db.quotes
        PROVE  db'.quotes[q].order = IF db.quotes[q].order = o THEN None ELSE db.quotes[q].order
    BY <2>1 DEF Unlinked, QuoteRows
  <2> QED
    BY <2>2 DEF Unlinked, Unlinks
<1>2. ~Made(r) /\ ~Making(r)' /\ ~Made(r)' /\ \A p : Unlinks(r, p) => p = o
  <2>1. Head(req[r].todo).kind = "unlink" /\ req'[r] = Idle /\ Head(req[r].todo).o = o
    BY DEF Unlinked
  <2>2. \A p : Unlinks(r, p) => p = o
    BY <2>1 DEF Unlinks
  <2> QED
    BY <1>0, <2>1, <2>2 DEF Made, Making
<1>3. ASSUME NEW s \in Request \ {r}
      PROVE  /\ (Making(s)' <=> Making(s)) /\ (Made(s)' <=> Made(s)) /\ req'[s].on = req[s].on /\ req'[s].order = req[s].order
             /\ req'[s].todo = req[s].todo
  BY <1>0, FreshSame DEF Kept, Making, Made
<1>4. \A q : OrdersOf(db', q) = OrdersOf(db, q)
  BY <1>1 DEF OrdersOf
<1>5. ASSUME NEW s \in Request, Making(s)'
      PROVE  OrdersOf(db', req'[s].on) \subseteq IF Made(s)' THEN {req'[s].order} ELSE {}
  BY <1>2, <1>3, <1>4, <1>5 DEF Linked, OneOrder
<1>6. ASSUME NEW p \in Request, NEW s \in Request, p # s, Making(p)', Making(s)'
      PROVE  req'[p].on # req'[s].on
  BY <1>2, <1>3, <1>6 DEF Linked, OneOrder
<1>7. ASSUME NEW l \in DOMAIN db'.orders, NEW q, q = db'.orders[l].quote, ~db'.orders[l].deleted, q # None
      PROVE  db'.quotes[q].order = l \/ \E s \in Request : Made(s)' /\ req'[s].on = q
  <2>1. q \in DOMAIN db.quotes /\ l # o
    BY <1>1, <1>7, TypeParts DEF TypesOK, SoundRows, SoundMaker
  <2> QED
    BY <1>1, <1>2, <1>3, <1>7, <2>1 DEF Linked, OneOrder
<1>8. ASSUME NEW q \in DOMAIN db'.quotes, NEW l, l = db'.quotes[q].order, l # None
      PROVE  /\ db'.orders[l].deleted => \E s \in Request : Unlinks(s, l)'
             /\ db'.orders[l].quote = q => db'.orders[l].items
  <2>1. db.quotes[q].order = l /\ l # o
    BY <1>1, <1>8
  <2>2. \A s \in Request : Unlinks(s, l) => Unlinks(s, l)'
    BY <1>2, <1>3, <2>1 DEF Unlinks
  <2> QED
    BY <1>1, <1>8, <2>1, <2>2 DEF Linked, LinkInv
<1>9. OneOrder'
  BY <1>5, <1>6, <1>7 DEF OneOrder
<1>10. LinkInv'
  BY <1>8 DEF LinkInv
<1> QED
  BY <1>9, <1>10 DEF Linked

LEMMA WriteLinked ==
  ASSUME TypesOK, TypesOK', Linked, NEW r \in Request, Kept(r), Still(r), ~LinkedDead, ~Relinked,
         WriteQuote(r), NEW set, WrittenBy(r, set)
  PROVE  Linked'
<1>0. TypeInv /\ Grows(db, db')
  BY DEF TypesOK, Kept
<1>1. PICK q, row, new : q = req[r].on /\ row = db.quotes[q] /\ new = db'.quotes[q]
  OBVIOUS
<1>2. /\ q \in DOMAIN db.quotes /\ IsChange(db, req[r], set) /\ new = Patched(row, set) /\ db'.orders = db.orders
      /\ \A p \in DOMAIN db.quotes \ {q} : db'.quotes[p] = db.quotes[p]
      /\ Has(r, "set")
  BY <1>1 DEF WrittenBy
<1>3. new.order = IF "order" \in DOMAIN set THEN set.order ELSE row.order
  BY <1>0, <1>1, <1>2, PatchedRow DEF TypeInv
<1>4. new.order # row.order => row.order = None /\ \A s \in Request : Making(s) => req[s].on # q
  <2>1. new.order # row.order => req[r].op \in Linkers
    BY <1>2, <1>3 DEF IsChange
  <2> QED
    BY <1>1, <1>2, <2>1 DEF Relinked, Linkers, Making
<1>5. \A s \in Request : Still(s)
  BY <1>0, FreshStill DEF Kept
<1>6. \A p \in DOMAIN db.quotes : \/ db'.quotes[p].order = db.quotes[p].order
                                  \/ db.quotes[p].order = None /\ \A s \in Request : Making(s) => req[s].on # p
  BY <1>1, <1>2, <1>4
<1> QED
  BY <1>0, <1>2, <1>5, <1>6, StillLinked

LEMMA LinkedNext ==
  ASSUME TypesOK, Linked, Next, slips' = {}
  PROVE  Linked'
<1>0. TypeInv /\ TypesOK' /\ ~Twice /\ ~Broken /\ ~Relinked /\ ~LinkedDead
  BY TypesNext, NextKinds DEF TypesOK, Slip
<1>1. ASSUME NEW r \in Request, Kept(r), Still(r), db'.orders = db.orders,
             \A q \in DOMAIN db.quotes : db'.quotes[q] = db.quotes[q]
      PROVE  Linked'
  <2>1. Grows(db, db') /\ \A s \in Request : Still(s)
    BY <1>0, <1>1, FreshStill DEF Kept
  <2> QED
    BY <1>0, <1>1, <2>1, StillLinked
<1>2. CASE \E r \in Request : Handle(r)
  <2>1. PICK r \in Request : Handle(r)
    BY <1>2
  <2>2. Kept(r) /\ db' = db
    BY <1>0, <2>1, HandleKept DEF TypesOK
  <2>3. CASE AsksOrder(r) /\ req'[r].op = "createOs"
    BY <1>0, <2>1, <2>3, BeginsLinked
  <2>4. CASE ~(AsksOrder(r) /\ req'[r].op = "createOs")
    <3>1. Still(r)
      BY <1>0, <2>1, <2>4, HandleStep, RequestStill DEF TypesOK
    <3> QED
      BY <1>1, <2>2, <3>1
  <2> QED
    BY <2>3, <2>4
<1>3. CASE \E r \in Request : Fail(r)
  <2>1. PICK r \in Request : Fail(r)
    BY <1>3
  <2>2. Failed(r) /\ Still(r)
    BY <1>0, <2>1, FailStep, RequestStill
  <2> QED
    BY <1>1, <2>2 DEF Failed
<1>4. CASE \E r \in Request : Step(r)
  <2>1. PICK r \in Request : Step(r)
    BY <1>4
  <2>2. Kept(r) /\ Grows(db, db')
    BY <1>0, <2>1, StepKinds DEF Kept
  <2>3. CASE Draw(r) /\ db'.quotes = db.quotes /\ db'.orders = db.orders
    BY <1>0, <1>1, <2>2, <2>3, RequestStill
  <2>4. CASE Insert(r) /\ Refused(r)
    BY <1>0, <1>1, <2>2, <2>4, RequestStill DEF Refused
  <2>5. CASE \E row : NewQuote(r, row)
    <3>1. PICK row : NewQuote(r, row)
      BY <2>5
    <3>2. db'.orders = db.orders /\ \A q \in DOMAIN db.quotes : db'.quotes[q] = db.quotes[q]
      BY <1>0, <3>1, AppendedQuote DEF NewQuote, TypeInv
    <3> QED
      BY <1>0, <1>1, <2>2, <2>5, <3>2, RequestStill
  <2>6. CASE \E row : NewOrder(r, row)
    BY <2>2, <2>6, InsertLinked
  <2>7. CASE ItemsIn(r)
    <3>1. /\ DOMAIN db'.orders = DOMAIN db.orders
          /\ \A o \in DOMAIN db.orders : /\ db'.orders[o].deleted = db.orders[o].deleted
                                         /\ db.orders[o].items => db'.orders[o].items
      <4>1. PICK o : /\ o \in DOMAIN db.orders /\ db'.orders[o] = [db.orders[o] EXCEPT !.items = TRUE]
                     /\ \A p \in DOMAIN db.orders \ {o} : db'.orders[p] = db.orders[p]
                     /\ DOMAIN db'.orders = DOMAIN db.orders
        BY <2>7 DEF ItemsIn, Finishes
      <4>2. db.orders[o] \in OrderRows
        BY <1>0, <4>1, QuoteIds
      <4>3. db'.orders[o].deleted = db.orders[o].deleted /\ db'.orders[o].items
        BY <4>1, <4>2 DEF OrderRows
      <4> QED
        BY <4>1, <4>3
    <3>2. db'.quotes = db.quotes
      BY <2>7 DEF ItemsIn
    <3>3. \A s \in Request : Still(s)
      BY <1>0, <2>2, <2>7, RequestStill, FreshStill DEF Kept
    <3> QED
      BY <1>0, <2>2, <3>1, <3>2, <3>3, StillLinked
  <2>8. CASE LinkIn(r)
    BY <1>0, <2>2, <2>8, LinkLinked
  <2>9. CASE \E o : Deleted(r, o)
    BY <2>2, <2>9, DeleteLinked
  <2>10. CASE \E o : Unlinked(r, o)
    BY <2>2, <2>10, UnlinkLinked
  <2>11. CASE WriteQuote(r) /\ \E set : WrittenBy(r, set)
    BY <1>0, <2>2, <2>11, RequestStill, WriteLinked
  <2>12. CASE \E set : ReadBy(r, set)
    <3>1. db' = db
      BY <2>12 DEF ReadBy
    <3> QED
      BY <1>0, <1>1, <2>2, <2>12, <3>1, RequestStill
  <2> QED
    BY <1>0, <2>1, <2>3, <2>4, <2>5, <2>6, <2>7, <2>8, <2>9, <2>10, <2>11, <2>12, StepKinds
<1>5. CASE ExpireQuotes
  <2>1. Expired
    BY <1>0, <1>5, ExpireStep
  <2>2. ASSUME NEW q \in DOMAIN db.quotes
        PROVE  db'.quotes[q].order = db.quotes[q].order
    <3>1. db.quotes[q] \in QuoteRows
      BY <1>0, QuoteIds
    <3>2. db'.quotes[q] = db.quotes[q] \/ db'.quotes[q] = [db.quotes[q] EXCEPT !.status = "EXPIRADO"]
      BY <2>1 DEF Expired
    <3> QED
      BY <3>1, <3>2 DEF QuoteRows
  <2>3. ASSUME NEW s \in Request
        PROVE  Still(s)
    <3>1. IsRequest(db, req[s]) /\ req'[s] = [req[s] EXCEPT !.stale = req'[s].stale]
      BY <1>0, <2>1, Typed DEF Expired
    <3>2. req'[s].op = req[s].op /\ req'[s].todo = req[s].todo /\ req'[s].on = req[s].on /\ req'[s].order = req[s].order
      BY <3>1 DEF IsRequest
    <3> QED
      BY <3>2 DEF Still, Making, Made, Unlinks
  <2>4. Grows(db, db') /\ db'.orders = db.orders
    BY <2>1 DEF Expired
  <2> QED
    BY <1>0, <2>2, <2>3, <2>4, StillLinked
<1>6. CASE Midnight \/ AdvanceCycle
  <2>1. db' = db /\ req' = req
    BY <1>6, CalendarStep
  <2> QED
    BY <2>1 DEF Linked, OneOrder, LinkInv, Making, Made, OrdersOf, Unlinks
<1> QED
  BY <1>2, <1>3, <1>4, <1>5, <1>6, NextKinds

LinkedOK == TypesOK /\ (slips = {} => Linked)

LEMMA LinkedInductive ==
  /\ Init => LinkedOK
  /\ LinkedOK /\ [Next]_quoteVars => LinkedOK'
<1>1. ASSUME Init
      PROVE  LinkedOK
  <2>1. \A q \in DOMAIN db.quotes : SoundQuote(db, q)
    <3>1. PICK first \in FirstStates : db = first.db
      BY <1>1 DEF Init
    <3> QED
      BY <3>1, FirstAssumption
  <2>2. \A o \in DOMAIN db.orders : SoundOrder(db, o)
    <3>1. PICK first \in FirstStates : db = first.db
      BY <1>1 DEF Init
    <3> QED
      BY <3>1, FirstAssumption
  <2>3. \A r \in Request : ~Making(r)
    BY <1>1 DEF Init, Making, Idle
  <2>4. LinkInv
    BY <2>1 DEF SoundQuote, LinkInv
  <2>5. OneOrder
    BY <2>2, <2>3 DEF SoundOrder, OneOrder
  <2> QED
    BY <1>1, <2>4, <2>5, TypesInit DEF LinkedOK, Linked
<1>2. ASSUME LinkedOK, [Next]_quoteVars
      PROVE  LinkedOK'
  <2>1. ASSUME UNCHANGED quoteVars, Linked
        PROVE  Linked'
    BY <2>1 DEF quoteVars, vars, Linked, OneOrder, LinkInv, Making, Made, OrdersOf, Unlinks
  <2>2. TypesOK'
    BY <1>2, TypesNext DEF LinkedOK
  <2>3. ASSUME slips' = {}
        PROVE  Linked'
    BY <1>2, <2>1, <2>3, LinkedNext, NextKinds DEF LinkedOK, quoteVars
  <2> QED
    BY <2>2, <2>3 DEF LinkedOK
<1> QED
  BY <1>1, <1>2

(* Of the live orders made from a quote there is one at most, however many *)
(* requests make, link, delete and edit at once, unless two were made at   *)
(* once, one was cut short, or a hand relinked the quote.                  *)
THEOREM QuoteBecomesOneOrder == Spec => []OneOrderPerQuote
<1>1. ASSUME LinkedOK
      PROVE  OneOrderPerQuote
  <2>1. SUFFICES ASSUME slips = {}, NEW o \in Live("orders"), NEW p \in Live("orders"), db.orders[o].quote # None,
                        db.orders[o].quote = db.orders[p].quote
                 PROVE  o = p
    BY DEF OneOrderPerQuote, Explained
  <2>2. PICK q : q = db.orders[o].quote
    OBVIOUS
  <2>3. o \in OrdersOf(db, q) /\ p \in OrdersOf(db, q)
    BY <2>1, <2>2 DEF Live, OrdersOf
  <2>4. CASE \E r \in Request : Made(r) /\ req[r].on = q
    <3>1. PICK r \in Request : Made(r) /\ req[r].on = q
      BY <2>4
    <3>2. OrdersOf(db, q) \subseteq {req[r].order}
      BY <1>1, <2>1, <3>1 DEF LinkedOK, Linked, OneOrder, Made
    <3> QED
      BY <2>3, <3>2
  <2>5. CASE ~\E r \in Request : Made(r) /\ req[r].on = q
    BY <1>1, <2>1, <2>2, <2>5 DEF LinkedOK, Linked, OneOrder, Live
  <2> QED
    BY <2>4, <2>5
<1> QED
  BY <1>1, LinkedInductive, PTL DEF Spec

(* With no request under way, no quote is held by an order that has been   *)
(* deleted, nor has the order it became without its items.                 *)
THEOREM LinksStaySound == Spec => []LinkSound
<1>1. ASSUME LinkedOK
      PROVE  LinkSound
  <2>1. SUFFICES ASSUME AtRest, slips = {}, NEW q \in DOMAIN db.quotes, db.quotes[q].order # None
                 PROVE  /\ ~db.orders[db.quotes[q].order].deleted
                        /\ db.orders[db.quotes[q].order].quote = q => db.orders[db.quotes[q].order].items
    BY DEF LinkSound, Explained
  <2>2. \A r \in Request : \A o : ~Unlinks(r, o)
    BY <2>1, NotUnlinking DEF AtRest, Busy
  <2> QED
    BY <1>1, <2>1, <2>2 DEF LinkedOK, Linked, LinkInv
<1> QED
  BY <1>1, LinkedInductive, PTL DEF Spec

----------------------------------------------------------------------------
(* The quota.  While no two requests count it at once, no month starts     *)
(* after the cycle does, and no cycle has ended unmoved, a request that    *)
(* has counted it is the only one, and there is room for its order.        *)

OrderOps == {"createOs", "createOrder", "duplicateOrder"}
Counted(r) == Drawing(req[r]) /\ req[r].op \in OrderOps
Room == Cardinality(InCycle)
Quota ==
  /\ \A o \in DOMAIN db.orders : db.orders[o].day <= clock.to
  /\ Limit > 0 => /\ Room <= Limit
                  /\ \A r \in Request : Counted(r) => Room < Limit
                  /\ \A r, s \in Request : Counted(r) /\ Counted(s) => r = s

LEMMA CountedShape ==
  ASSUME TypeInv, NEW r \in Request, Counted(r)
  PROVE  Doing(r, "order") /\ ~Doing(r, "count")
<1>1. PICK x : x = req[r] /\ IsRequest(db, x) /\ Drawing(x) /\ x.op \in OrderOps
  BY Typed DEF Counted
<1>2. (x.op = "createOs" => Converts(x)) /\ (x.op # "createOs" => Orders(x))
  BY <1>1, DrawingShape DEF OrderOps
<1>3. Head(x.todo).kind # "count"
  BY <1>1 DEF Drawing
<1>4. \E g, w : /\ w.kind = "order" /\ g.kind # "count"
                /\ \/ x.todo = <<g, w, AddItems, Link(x.on)>>
                   \/ x.todo = <<w, AddItems, Link(x.on)>>
                   \/ x.todo = <<g, w>>
                   \/ x.todo = <<w>>
  <2>1. CASE x.op = "createOs"
    BY <1>2, <1>3, <2>1 DEF Converts, IsOrder, IsGen
  <2>2. CASE x.op # "createOs"
    BY <1>2, <1>3, <2>2 DEF Orders, IsOrder, IsGen
  <2> QED
    BY <2>1, <2>2
<1>5. PICK g, w : /\ w.kind = "order" /\ g.kind # "count"
                  /\ \/ x.todo = <<g, w, AddItems, Link(x.on)>>
                     \/ x.todo = <<w, AddItems, Link(x.on)>>
                     \/ x.todo = <<g, w>>
                     \/ x.todo = <<w>>
  BY <1>4
<1>6. (\E i \in DOMAIN x.todo : x.todo[i].kind = "order") /\ (\A i \in DOMAIN x.todo : x.todo[i].kind # "count")
  <2>1. CASE x.todo = <<g, w, AddItems, Link(x.on)>>
    <3>1. DOMAIN x.todo = 1 .. 4 /\ x.todo[1] = g /\ x.todo[2] = w /\ x.todo[3] = AddItems /\ x.todo[4] = Link(x.on)
      BY <2>1
    <3> QED
      BY <1>5, <3>1
  <2>2. CASE x.todo = <<w, AddItems, Link(x.on)>>
    <3>1. DOMAIN x.todo = 1 .. 3 /\ x.todo[1] = w /\ x.todo[2] = AddItems /\ x.todo[3] = Link(x.on)
      BY <2>2
    <3> QED
      BY <1>5, <3>1
  <2>3. CASE x.todo = <<g, w>>
    <3>1. DOMAIN x.todo = 1 .. 2 /\ x.todo[1] = g /\ x.todo[2] = w
      BY <2>3
    <3> QED
      BY <1>5, <3>1
  <2>4. CASE x.todo = <<w>>
    <3>1. DOMAIN x.todo = 1 .. 1 /\ x.todo[1] = w
      BY <2>4
    <3> QED
      BY <1>5, <3>1
  <2> QED
    BY <1>5, <2>1, <2>2, <2>3, <2>4
<1> QED
  BY <1>1, <1>6 DEF Doing, Todo

LEMMA CycleFinite ==
  ASSUME TypeInv
  PROVE  /\ IsFiniteSet(DOMAIN db.orders) /\ IsFiniteSet(InCycle) /\ Room \in Nat
         /\ \A o \in DOMAIN db.orders : db.orders[o].day \in Int
<1>1. db.orders \in Seq(OrderRows)
  BY DEF TypeInv, TypedTables
<1>2. DOMAIN db.orders = 1 .. Len(db.orders) /\ Len(db.orders) \in Int
  BY <1>1
<1>3. IsFiniteSet(DOMAIN db.orders)
  BY <1>2, FS_Interval
<1>4. InCycle \in SUBSET DOMAIN db.orders
  BY DEF InCycle
<1>5. IsFiniteSet(InCycle)
  BY <1>3, <1>4, FS_Subset
<1> QED
  BY <1>3, <1>5, FS_CardinalityType, QuoteIds DEF Room, OrderRows

(* Nothing is counted, and no order is made.                               *)
LEMMA QuotaStill ==
  ASSUME TypeInv, Quota, clock'.from = clock.from, clock'.to = clock.to, DOMAIN db'.orders = DOMAIN db.orders,
         \A o \in DOMAIN db.orders : db'.orders[o].day = db.orders[o].day,
         \A s \in Request : Counted(s)' => Counted(s)
  PROVE  Quota'
<1>1. InCycle' = InCycle
  BY DEF InCycle
<1>2. Room' = Room
  BY <1>1 DEF Room
<1> QED
  BY <1>2 DEF Quota

LEMMA FreshCounted ==
  ASSUME TypeInv, NEW r \in Request, NEW s \in Request, Fresh(r, s)
  PROVE  Counted(s)' <=> Counted(s)
BY FreshSame DEF Counted, Drawing

(* The quota is counted: there is room, and no other request has counted.  *)
LEMMA CountKeepsQuota ==
  ASSUME TypesOK, Quota, NEW r \in Request, CountOrders(r), ~Raced, ~OtherMonth
  PROVE  Quota'
<1>0. TypeInv /\ Kept(r) /\ clock' = clock /\ db' = db /\ (req'[r] = Idle \/ Goes(r))
  BY CountStep DEF TypesOK
<1>1. InCycle' = InCycle /\ Room' = Room
  BY <1>0 DEF InCycle, Room
<1>2. \A s \in Request \ {r} : Counted(s)' <=> Counted(s)
  BY <1>0, FreshCounted DEF Kept
<1>3. CASE req'[r] = Idle
  <2>1. ~Counted(r)'
    BY <1>3 DEF Counted, OrderOps, Idle
  <2> QED
    BY <1>0, <1>2, <2>1, QuotaStill
<1>4. CASE req'[r] # Idle
  <2>1. PICK w : w = Head(Todo(r)).window
    OBVIOUS
  <2>2. ~(Limit > 0 /\ Cardinality(IF w = "cycle" THEN InCycle ELSE InMonth) >= Limit)
    <3>1. PICK rest : /\ Save(r, db, rest)
                      /\ Limit > 0 /\ Cardinality(IF w = "cycle" THEN InCycle ELSE InMonth) >= Limit => rest = Idle
      BY <2>1 DEF CountOrders
    <3>2. req'[r] = rest
      BY <1>0, <3>1, SaveEffect
    <3> QED
      BY <1>4, <3>1, <3>2
  <2>3. req'[r].op # "idle"
    <3>1. Drawing(req'[r]) /\ IsRequest(db', req'[r])
      BY <1>0, <1>4 DEF Goes, Kept, IsTyped
    <3> QED
      BY <3>1, DrawingShape
  <2>4. Counts(r)
    BY <2>3 DEF Counts
  <2>5. \A s \in Request \ {r} : ~Counted(s)
    BY <1>0, <2>4, CountedShape DEF Raced
  <2>6. w = "cycle" \/ w = "month"
    <3>1. IsRequest(db, req[r]) /\ req[r].todo # <<>> /\ Head(req[r].todo).kind = "count"
      BY <1>0, Typed DEF CountOrders, Has, Busy, Todo
    <3>2. PICK v : \/ req[r].todo = <<Count("month"), Code("orders"), v, AddItems, Link(req[r].on)>>
                   \/ req[r].todo = <<Count("cycle"), Code("orders"), v>>
                   \/ req[r].todo = <<Count("month"), v>>
      BY <3>1, CountNext
    <3> QED
      BY <2>1, <3>2 DEF Todo
  <2>7. Limit > 0 => Room < Limit
    <3>0. Room \in Nat /\ Limit \in Nat /\ IsFiniteSet(DOMAIN db.orders)
      BY <1>0, CycleFinite, IntakeAssumption
    <3>1. CASE w = "cycle"
      BY <2>2, <3>0, <3>1 DEF Room
    <3>2. CASE w = "month"
      <4>1. ~(MonthStart > clock.from + 1)
        BY <2>1, <2>4, <3>2 DEF OtherMonth
      <4>2. MonthStart \in Int /\ clock.from \in Int /\ clock.day \in Int
        BY <1>0, IntakeAssumption DEF MonthStart, TypeInv
      <4>3. InCycle \in SUBSET InMonth
        BY <1>0, <4>1, <4>2, CycleFinite DEF InCycle, InMonth
      <4>4. IsFiniteSet(InMonth)
        <5>1. InMonth \in SUBSET DOMAIN db.orders
          BY DEF InMonth
        <5> QED
          BY <3>0, <5>1, FS_Subset
      <4>5. Room <= Cardinality(InMonth) /\ Cardinality(InMonth) \in Nat
        BY <4>3, <4>4, FS_Subset, FS_CardinalityType DEF Room
      <4> QED
        BY <2>2, <3>0, <3>2, <4>5
    <3> QED
      BY <2>6, <3>1, <3>2
  <2>8. Room \in Nat /\ Limit \in Nat
    BY <1>0, CycleFinite, IntakeAssumption
  <2> QED
    BY <1>0, <1>1, <1>2, <2>5, <2>7, <2>8 DEF Quota
<1> QED
  BY <1>3, <1>4

(* The order of the request that has counted comes into the cycle.         *)
LEMMA InsertKeepsQuota ==
  ASSUME TypesOK, Quota, NEW r \in Request, Kept(r), clock' = clock, Insert(r), NEW row, NewOrder(r, row), ~Lapsed
  PROVE  Quota'
<1>0. TypeInv /\ DayInCycle /\ clock \in [day : Nat, from : Int, to : Int]
  BY TypeParts DEF TypesOK, TypeInv
<1>1. PICK new : new = Len(db.orders) + 1
  OBVIOUS
<1>2. /\ DOMAIN db'.orders = DOMAIN db.orders \cup {new} /\ new \notin DOMAIN db.orders
      /\ db'.orders[new] = row /\ \A o \in DOMAIN db.orders : db'.orders[o] = db.orders[o]
  BY <1>0, <1>1, AppendedOrder DEF NewOrder, TypeInv
<1>3. row.day = clock.day /\ clock.day <= clock.to /\ clock.from < clock.day
  BY <1>0 DEF NewOrder, Lapsed, DayInCycle
<1>4. Counted(r)
  BY DEF NewOrder, Counted, OrderOps, Drawing, Has, Busy, Todo
<1>5. InCycle' = InCycle \cup {new} /\ new \notin InCycle
  BY <1>2, <1>3 DEF InCycle
<1>6. Room' = Room + 1 /\ Room \in Nat
  BY <1>0, <1>5, CycleFinite, FS_AddElement DEF Room
<1>7. ~Counted(r)'
  <2>1. req'[r] = Idle \/ Head(req'[r].todo).kind \in {"items", "link"}
    BY DEF NewOrder, Finishes
  <2> QED
    BY <2>1 DEF Counted, Drawing, OrderOps, Idle
<1>8. \A s \in Request : ~Counted(s)' \/ Limit = 0
  <2>1. Limit \in Nat
    BY IntakeAssumption
  <2> QED
    BY <1>0, <1>4, <1>7, <2>1, FreshCounted DEF Kept, Quota
<1>9. Limit \in Nat
  BY IntakeAssumption
<1>10. Limit > 0 => Room' <= Limit
  BY <1>4, <1>6, <1>9 DEF Quota
<1>11. \A o \in DOMAIN db'.orders : db'.orders[o].day <= clock'.to
  BY <1>2, <1>3 DEF Quota
<1> QED
  BY <1>8, <1>9, <1>10, <1>11 DEF Quota

LEMMA QuotaNext ==
  ASSUME TypesOK, Quota, Next, slips' = {}
  PROVE  Quota'
<1>0. TypeInv /\ IntakeTypeOK /\ ~Raced /\ ~OtherMonth /\ ~Lapsed
  BY NextKinds DEF TypesOK, Slip
<1>1. ASSUME NEW r \in Request, Kept(r), clock' = clock, DOMAIN db'.orders = DOMAIN db.orders,
             \A o \in DOMAIN db.orders : db'.orders[o].day = db.orders[o].day,
             Counted(r)' => Counted(r)
      PROVE  Quota'
  <2>1. \A s \in Request : Counted(s)' => Counted(s)
    BY <1>0, <1>1, FreshCounted DEF Kept
  <2> QED
    BY <1>0, <1>1, <2>1, QuotaStill
<1>2. \A r \in Request : req'[r] = Idle => ~Counted(r)'
  BY DEF Counted, OrderOps, Idle
<1>3. \A r \in Request : ~Drawing(req'[r]) => ~Counted(r)'
  BY DEF Counted
<1>4. CASE \E r \in Request : Handle(r)
  <2>1. PICK r \in Request : Handle(r)
    BY <1>4
  <2>2. Kept(r) /\ clock' = clock /\ db' = db
    BY <1>0, <2>1, HandleKept
  <2>3. (\E set : AsksSet(r, set)) \/ AsksReread(r) => ~Counted(r)'
    BY DEF AsksSet, AsksReread, Setters, Linkers, Counted, OrderOps
  <2>4. AsksQuote(r) \/ AsksRemoval(r) => ~Counted(r)'
    BY DEF AsksQuote, AsksRemoval, Counted, OrderOps
  <2>5. AsksOrder(r) => ~Counted(r)'
    BY <1>3 DEF AsksOrder, Has, Todo, Drawing
  <2> QED
    BY <1>0, <1>1, <2>1, <2>2, <2>3, <2>4, <2>5, HandleStep
<1>5. CASE \E r \in Request : Fail(r)
  BY <1>0, <1>1, <1>2, <1>5, FailStep DEF Failed
<1>6. CASE \E r \in Request : Step(r)
  <2>1. PICK r \in Request : Step(r)
    BY <1>6
  <2>2. Kept(r) /\ clock' = clock
    BY <1>0, <2>1, StepKinds
  <2>3. CASE CountOrders(r)
    BY <1>0, <2>3, CountKeepsQuota
  <2>4. CASE Draw(r) /\ ~CountOrders(r) /\ db'.orders = db.orders
    <3>1. Draws(r)
      BY <1>0, <2>4, IncrementStep, CheckStep, ReadHighestStep, CorrectStep DEF Draw
    <3>2. Counted(r)' => Counted(r)
      BY <1>2, <3>1 DEF Draws, Counted
    <3> QED
      BY <1>1, <2>2, <2>4, <3>2
  <2>5. CASE Refused(r)
    BY <1>1, <1>2, <2>2, <2>5 DEF Refused
  <2>6. CASE \E row : NewQuote(r, row)
    <3>1. PICK row : NewQuote(r, row)
      BY <2>6
    <3>2. db'.orders = db.orders /\ req'[r] = Idle
      BY <1>0, <3>1, AppendedQuote DEF NewQuote, TypeInv
    <3> QED
      BY <1>1, <1>2, <2>2, <3>2
  <2>7. CASE Insert(r) /\ \E row : NewOrder(r, row)
    BY <1>0, <2>2, <2>7, InsertKeepsQuota
  <2>8. CASE LinkIn(r) \/ (\E o : Unlinked(r, o)) \/ (\E set : WrittenBy(r, set))
    BY <1>1, <1>2, <2>2, <2>8 DEF LinkIn, Unlinked, WrittenBy
  <2>9. CASE ItemsIn(r)
    <3>1. PICK o : /\ o \in DOMAIN db.orders /\ db'.orders[o] = [db.orders[o] EXCEPT !.items = TRUE]
                   /\ \A p \in DOMAIN db.orders \ {o} : db'.orders[p] = db.orders[p]
                   /\ DOMAIN db'.orders = DOMAIN db.orders
      BY <2>9 DEF ItemsIn, Finishes
    <3>2. db.orders[o] \in OrderRows
      BY <1>0, <3>1, QuoteIds
    <3>3. db'.orders[o].day = db.orders[o].day
      BY <3>1, <3>2 DEF OrderRows
    <3>4. ~Drawing(req'[r])
      BY <2>9 DEF ItemsIn, Drawing
    <3> QED
      BY <1>1, <1>3, <2>2, <3>1, <3>3, <3>4
  <2>10. CASE \E o : Deleted(r, o)
    <3>1. PICK o : Deleted(r, o)
      BY <2>10
    <3>2. db.orders[o] \in OrderRows /\ db'.orders[o] = [db.orders[o] EXCEPT !.deleted = TRUE]
      BY <1>0, <3>1, QuoteIds DEF Deleted
    <3>3. db'.orders[o].day = db.orders[o].day
      BY <3>2 DEF OrderRows
    <3>4. ~Drawing(req'[r])
      BY <3>1 DEF Deleted, Drawing
    <3>5. \A p \in DOMAIN db.orders : db'.orders[p].day = db.orders[p].day
      BY <3>1, <3>3 DEF Deleted
    <3>6. DOMAIN db'.orders = DOMAIN db.orders
      BY <3>1 DEF Deleted
    <3> QED
      BY <1>1, <1>3, <2>2, <3>4, <3>5, <3>6
  <2>11. CASE \E set : ReadBy(r, set)
    <3>1. db' = db /\ req[r].op = "update" /\ req'[r].op = req[r].op
      <4>1. IsRequest(db, req[r])
        BY <1>0, Typed
      <4> QED
        BY <2>11, <4>1 DEF ReadBy, IsRequest
    <3> QED
      BY <1>1, <2>2, <3>1 DEF Counted, OrderOps
  <2> QED
    BY <1>0, <2>1, <2>3, <2>4, <2>5, <2>6, <2>7, <2>8, <2>9, <2>10, <2>11, StepKinds
<1>7. CASE ExpireQuotes
  <2>1. Expired
    BY <1>0, <1>7, ExpireStep
  <2>2. ASSUME NEW s \in Request
        PROVE  Counted(s)' => Counted(s)
    <3>1. IsRequest(db, req[s]) /\ req'[s] = [req[s] EXCEPT !.stale = req'[s].stale]
      BY <1>0, <2>1, Typed DEF Expired
    <3>2. req'[s].op = req[s].op /\ req'[s].todo = req[s].todo
      BY <3>1 DEF IsRequest
    <3> QED
      BY <3>2 DEF Counted, Drawing
  <2> QED
    BY <1>0, <2>1, <2>2, QuotaStill DEF Expired
<1>8. CASE Midnight
  <2>1. db' = db /\ req' = req /\ clock'.from = clock.from /\ clock'.to = clock.to
    BY <1>8, CalendarStep
  <2> QED
    BY <1>0, <2>1, QuotaStill DEF Counted
<1>9. CASE AdvanceCycle
  <2>1. /\ db' = db /\ req' = req /\ clock'.from = clock.to /\ clock'.to = clock.to + Cycle
        /\ Cycle \in Nat \ {0} /\ clock.to \in Int /\ Limit \in Nat
    BY <1>0, <1>9, CalendarStep, IntakeAssumption DEF TypeInv
  <2>2. \A o \in DOMAIN db.orders : db.orders[o].day <= clock.to /\ db.orders[o].day \in Int
    BY <1>0, CycleFinite DEF Quota
  <2>3. InCycle' = {}
    BY <2>1, <2>2 DEF InCycle
  <2>4. Room' = 0
    BY <2>3, FS_EmptySet DEF Room
  <2>5. \A s \in Request : Counted(s)' <=> Counted(s)
    BY <2>1 DEF Counted
  <2> QED
    BY <2>1, <2>2, <2>4, <2>5 DEF Quota
<1> QED
  BY <1>4, <1>5, <1>6, <1>7, <1>8, <1>9, NextKinds

QuotaOK == TypesOK /\ (slips = {} => Quota)

LEMMA QuotaInductive ==
  /\ Init => QuotaOK
  /\ QuotaOK /\ [Next]_quoteVars => QuotaOK'
<1>1. ASSUME Init
      PROVE  QuotaOK
  <2>1. PICK first \in FirstStates : db = first.db /\ clock = [day |-> 1, from |-> first.to - Cycle, to |-> first.to]
    BY <1>1 DEF Init
  <2>2. /\ \A o \in DOMAIN db.orders : db.orders[o].day <= clock.to
        /\ Limit > 0 => Cardinality({o \in DOMAIN db.orders : clock.from < db.orders[o].day}) <= Limit
    BY <2>1, FirstAssumption
  <2>3. InCycle = {o \in DOMAIN db.orders : clock.from < db.orders[o].day}
    BY <2>2 DEF InCycle
  <2>4. \A r \in Request : ~Counted(r)
    BY <1>1 DEF Init, Counted, OrderOps, Idle
  <2> QED
    BY <1>1, <2>2, <2>3, <2>4, TypesInit DEF QuotaOK, Quota, Room
<1>2. ASSUME QuotaOK, [Next]_quoteVars
      PROVE  QuotaOK'
  <2>1. ASSUME UNCHANGED quoteVars, Quota
        PROVE  Quota'
    BY <2>1 DEF quoteVars, vars, Quota, Room, InCycle, Counted
  <2>2. TypesOK'
    BY <1>2, TypesNext DEF QuotaOK
  <2>3. ASSUME slips' = {}
        PROVE  Quota'
    BY <1>2, <2>1, <2>3, QuotaNext, NextKinds DEF QuotaOK, quoteVars
  <2> QED
    BY <2>2, <2>3 DEF QuotaOK
<1> QED
  BY <1>1, <1>2

(* No billing cycle has more orders than the plan allows, whatever the     *)
(* limit and the calendar, unless two requests count at once, a month      *)
(* starts within the cycle, or a cycle has ended and is not moved yet.     *)
THEOREM QuotaStaysKept == Spec => []QuotaKept
<1>1. QuotaOK => QuotaKept
  BY DEF QuotaOK, Quota, Room, QuotaKept, Explained
<1> QED
  BY <1>1, QuotaInductive, PTL DEF Spec

=============================================================================
