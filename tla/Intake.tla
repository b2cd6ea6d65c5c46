------------------------------- MODULE Intake -------------------------------
(***************************************************************************)
(* How orders and quotes come into the tables: the generator of their      *)
(* codes, the monthly quota of orders, and the writes, each a query of its *)
(* own, that a request still has to make ("todo").                         *)
(***************************************************************************)
EXTENDS Integers, FiniteSets, FiniteSetsExt, SequencesExt

CONSTANTS Request,     \* requests in flight
          Handlers,    \* the handlers this instance exercises
          Limit,       \* maxOsPerMonth of the company; 0: no limit
          MaxRetries,  \* collisions of a code before the generator gives up
          Month,       \* the day on which the second calendar month starts
          Cycle,       \* days of a billing cycle
          MaxDay,      \* bound: days
          MaxCode,     \* bound: codes drawn
          MaxRows,     \* bound: rows of each table
          MaxRequests  \* bound: requests made

ASSUME IntakeAssumption ==
  /\ Limit \in Nat /\ MaxRetries \in Nat /\ Cycle \in Nat \ {0}
  /\ {Month, MaxDay, MaxCode, MaxRows, MaxRequests} \subseteq Nat

VARIABLES db,     \* the tables: quotes, orders, and next, the CodeCounter
          clock,  \* the day, and the billing cycle: from < days <= to
          req,    \* the requests in flight
          begun   \* how many have been made

vars == <<db, clock, req, begun>>

----------------------------------------------------------------------------
(* Rows.  A quote's discounts enter its total as the value of its products *)
(* does: product stands for them all.                                      *)

None == 0
Status == {"RASCUNHO", "ENVIADO", "APROVADO", "REJEITADO", "EXPIRADO", "CANCELADO"}

computeTotals(items, product) == items + product

Tables == {"quotes", "orders"}
QuoteRows == [status : Status, items : Int, product : Int, total : Int, order : Nat, created : Nat,
              validity : Nat, link : Nat, deleted : BOOLEAN, code : Nat]
OrderRows == [quote : Nat, day : Int, items : BOOLEAN, deleted : BOOLEAN, code : Nat]

(* A row with the columns that are given.                                  *)
Patched(row, set) == [f \in DOMAIN row |-> IF f \in DOMAIN set THEN set[f] ELSE row[f]]

(* created, validity: expiresAt is so many days after the creation; link:  *)
(* the day the public link ends, None before there is one.  The code of a  *)
(* row is the one drawn when it is inserted.                               *)
QuoteRow(items, product, order, validity) ==
  [status |-> "RASCUNHO", items |-> items, product |-> product, total |-> computeTotals(items, product),
   order |-> order, created |-> clock.day, validity |-> validity, link |-> None, deleted |-> FALSE,
   code |-> None]

(* quote: the one the order is made from; items: its rows of items are in. *)
OrderRow(quote) == [quote |-> quote, day |-> clock.day, items |-> quote = None, deleted |-> FALSE,
                    code |-> None]

Live(table) == {i \in DOMAIN db[table] : ~db[table][i].deleted}
ExpiresAt(q) == db.quotes[q].created + db.quotes[q].validity
Codes(table) == {db[table][i].code : i \in DOMAIN db[table]} \ {None}

(* A deleted order counts; an order made after the cycle's end does not.   *)
InCycle == {o \in DOMAIN db.orders : clock.from < db.orders[o].day /\ db.orders[o].day <= clock.to}
MonthStart == IF clock.day < Month THEN 0 ELSE Month
InMonth == {o \in DOMAIN db.orders : MonthStart <= db.orders[o].day}

----------------------------------------------------------------------------
(* Writes, in the order a handler makes them *)

Count(window) == [kind |-> "count", window |-> window]
Code(table) == [kind |-> "code", table |-> table]
Check(table) == [kind |-> "check", table |-> table]
Highest(table) == [kind |-> "highest", table |-> table]
Correct(table, next) == [kind |-> "correct", table |-> table, next |-> next]
AddQuote(row) == [kind |-> "quote", row |-> row]
AddOrder(row) == [kind |-> "order", row |-> row]
AddItems == [kind |-> "items"]
Link(q) == [kind |-> "link", q |-> q]
SetQuote(q, set) == [kind |-> "set", q |-> q, set |-> set]
Reread(q, set) == [kind |-> "reread", q |-> q, set |-> set]
DeleteOrder(o) == [kind |-> "delete", o |-> o]
Unlink(o) == [kind |-> "unlink", o |-> o]

(* number: the code drawn, once it is known to be free; tries: collisions; *)
(* order: the row inserted.  For the properties only, on: the quote the    *)
(* request is about, and stale: whether another one has written it since.  *)
Idle == [op |-> "idle", todo |-> <<>>, number |-> None, tries |-> 0, order |-> None, on |-> None, stale |-> FALSE]
Busy(r) == req[r].todo # <<>>
Todo(r) == req[r].todo
Has(r, kind) == Busy(r) /\ Head(Todo(r)).kind = kind
Doing(r, kind) == \E i \in DOMAIN Todo(r) : Todo(r)[i].kind = kind

Ask(r, op, todo, on) ==
  /\ op \in Handlers /\ ~Busy(r)
  /\ begun < MaxRequests /\ begun' = begun + 1
  /\ req' = [req EXCEPT ![r] = [Idle EXCEPT !.op = op, !.todo = todo, !.on = on]]
  /\ UNCHANGED <<db, clock>>

Then(r, todo) == IF todo = <<>> THEN Idle ELSE [req[r] EXCEPT !.todo = todo]
Written(tables, q) == \E i \in DOMAIN db.quotes : i = q /\ tables.quotes[i] # db.quotes[i]

(* The next query of r leaves the tables so, and r with the rest to do.    *)
Save(r, tables, rest) ==
  /\ db' = tables
  /\ req' = [s \in Request |-> IF s = r THEN rest
                               ELSE [req[s] EXCEPT !.stale = @ \/ Written(tables, req[s].on)]]
  /\ UNCHANGED <<clock, begun>>
Write(r, tables) == Save(r, tables, Then(r, Tail(Todo(r))))

----------------------------------------------------------------------------
(* The quota: counted, and not looked at again.                            *)

(* Mutant: the deleted orders are not counted.                             *)
CountLive(r) ==
  /\ Has(r, "count")
  /\ IF Limit > 0 /\ Cardinality(InCycle \cap Live("orders")) >= Limit
     THEN Save(r, db, Idle) ELSE Write(r, db)

CountOrders(r) ==
  /\ Has(r, "count")
  /\ LET counted == IF Head(Todo(r)).window = "cycle" THEN InCycle ELSE InMonth
     IN Save(r, db, IF Limit > 0 /\ Cardinality(counted) >= Limit THEN Idle ELSE Then(r, Tail(Todo(r))))

(* generateCode: the counter is increased atomically; a code that exists   *)
(* corrects it to what follows the highest one, and is drawn again.        *)
Increment(r) ==
  /\ Has(r, "code")
  /\ LET t == Head(Todo(r)).table
     IN /\ db.next[t] <= MaxCode
        /\ Save(r, [db EXCEPT !.next[t] = @ + 1],
                [req[r] EXCEPT !.number = db.next[t], !.todo[1] = Check(t)])

(* Mutant: the code drawn is not looked for.                               *)
CheckNothing(r) == Has(r, "check") /\ Write(r, db)

CheckCode(r) ==
  /\ Has(r, "check")
  /\ LET t == Head(Todo(r)).table
     IN IF req[r].number \in Codes(t)
        THEN Save(r, db, [req[r] EXCEPT !.tries = @ + 1, !.todo[1] = Highest(t)])
        ELSE Write(r, db)

ReadHighest(r) ==
  /\ Has(r, "highest")
  /\ LET t == Head(Todo(r)).table
     IN Save(r, db, [req[r] EXCEPT !.todo[1] = Correct(t, Max(Codes(t)) + 2)])

CorrectCounter(r) ==
  /\ Has(r, "correct")
  /\ LET w == Head(Todo(r))
     IN Save(r, [db EXCEPT !.next[w.table] = w.next],
             IF req[r].tries > MaxRetries THEN Idle ELSE [req[r] EXCEPT !.todo[1] = Code(w.table)])

(* A row is inserted with the code drawn, or with none; a code that is     *)
(* taken meanwhile fails the request on the unique index.                  *)
Insert(r) ==
  /\ Has(r, "quote") \/ Has(r, "order")
  /\ LET w == Head(Todo(r))
         t == IF w.kind = "quote" THEN "quotes" ELSE "orders"
         row == IF w.kind = "quote" THEN [w.row EXCEPT !.code = req[r].number]
                ELSE [w.row EXCEPT !.code = req[r].number, !.day = clock.day]
     IN /\ Len(db[t]) < MaxRows
        /\ IF req[r].number \in Codes(t)
           THEN Save(r, db, Idle)
           ELSE Save(r, [db EXCEPT ![t] = Append(@, row)],
                     IF Tail(Todo(r)) = <<>> THEN Idle
                     ELSE [Idle EXCEPT !.op = req[r].op, !.on = req[r].on, !.stale = req[r].stale,
                                       !.todo = Tail(Todo(r)), !.order = Len(db[t]) + 1])

InsertItems(r) == Has(r, "items") /\ Write(r, [db EXCEPT !.orders[req[r].order].items = TRUE])
WriteLink(r) == Has(r, "link") /\ Write(r, [db EXCEPT !.quotes[Head(Todo(r)).q].order = req[r].order])
WriteDelete(r) == Has(r, "delete") /\ Write(r, [db EXCEPT !.orders[Head(Todo(r)).o].deleted = TRUE])

(* updateMany: every quote of the order, which may generate another one.   *)
WriteUnlink(r) ==
  /\ Has(r, "unlink")
  /\ LET o == Head(Todo(r)).o
     IN Write(r, [db EXCEPT !.quotes = [q \in DOMAIN @ |-> IF @[q].order = o THEN [@[q] EXCEPT !.order = None] ELSE @[q]]])

(* A write of a quote, by its id alone.                                    *)
WriteQuote(r) ==
  Has(r, "set") /\ Write(r, [db EXCEPT !.quotes[Head(Todo(r)).q] = Patched(@, Head(Todo(r)).set)])

(* The items are read, to add what the request changes beside them.        *)
ReadItems(r) ==
  /\ Has(r, "reread")
  /\ LET w == Head(Todo(r))
     IN Save(r, db, [req[r] EXCEPT !.todo[1] = SetQuote(w.q, [w.set EXCEPT !.total = computeTotals(db.quotes[w.q].items, w.set.product)])])

(* A query fails, or the process dies: what is done stays done.            *)
Fail(r) ==
  /\ Busy(r)
  /\ req' = [req EXCEPT ![r] = Idle]
  /\ UNCHANGED <<db, clock, begun>>

Step(r) ==
  \/ CountOrders(r) \/ Increment(r) \/ CheckCode(r) \/ ReadHighest(r) \/ CorrectCounter(r)
  \/ Insert(r) \/ InsertItems(r) \/ WriteLink(r) \/ WriteDelete(r) \/ WriteUnlink(r)
  \/ WriteQuote(r) \/ ReadItems(r)

----------------------------------------------------------------------------
(* The days pass; the daily job moves a billing cycle that has ended.      *)

Midnight ==
  /\ clock.day < MaxDay
  /\ clock' = [clock EXCEPT !.day = @ + 1]
  /\ UNCHANGED <<db, req, begun>>

AdvanceCycle ==
  /\ clock.to < clock.day
  /\ clock' = [clock EXCEPT !.from = clock.to, !.to = @ + Cycle]
  /\ UNCHANGED <<db, req, begun>>
=============================================================================
