------------------------------ MODULE MCQuotes ------------------------------
(* Instances of Quotes for TLC: the tables a behaviour starts with.        *)
EXTENDS Quotes

OfficeHandlers == {"create", "update", "remove", "send", "approve", "reject", "cancel",
                   "duplicate", "createOs", "linkQuoteToOs"}
ClientHandlers == {"approvePublic", "rejectPublic"}
OrderHandlers == {"createOrder", "duplicateOrder", "removeOrder"}
EveryHandler == OfficeHandlers \cup ClientHandlers \cup OrderHandlers

(* The counters may be behind the codes of imported rows.                  *)
Sent(code, product) ==
  [status |-> "ENVIADO", items |-> 1, product |-> product, total |-> 1 + product, order |-> None,
   created |-> 0, validity |-> 1, link |-> 1 + LinkDays, deleted |-> FALSE, code |-> code]
Old(code, day) == [quote |-> None, day |-> day, items |-> TRUE, deleted |-> FALSE, code |-> code]

(* The month ends today; the cycle tomorrow, or today.                     *)
First(quotes, orders, to) ==
  [db |-> [quotes |-> quotes, orders |-> orders, next |-> [quotes |-> 1, orders |-> 1]], to |-> to]
MCFirstStates == {First(<<Sent(1, 0)>>, <<Old(1, 1)>>, 2), First(<<Sent(1, 1)>>, <<>>, 1)}

RequestSymmetry == Permutations(Request)
=============================================================================
