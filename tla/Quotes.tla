------------------------------- MODULE Quotes -------------------------------
(***************************************************************************)
(* The life of a quote, from the office and through its public link, and   *)
(* the orders it becomes.  A handler checks the quote it has read and      *)
(* writes by id, so that two of them overwrite each other.                 *)
(***************************************************************************)
EXTENDS Intake

CONSTANTS Price,       \* what the items of a quote may cost
          Product,     \* what its products may cost
          Validity,    \* days a quote may be valid
          LinkDays,    \* days the public link outlives it
          FirstStates  \* what a behaviour may start with: the tables, and the cycle's end

ASSUME ValueAssumption ==
  Price \subseteq Int /\ Product \subseteq Int /\ Validity \subseteq Nat /\ LinkDays \in Nat \ {0}

(* Rows that no handler has left half-way: codes of their own, sums that   *)
(* are right, an order that is as far as the quote it is made from says.   *)
ShownToClients == {"ENVIADO", "APROVADO", "REJEITADO", "EXPIRADO"}
SoundQuote(d, q) ==
  LET row == d.quotes[q]
  IN /\ row.status \in ShownToClients => row.link # None
     /\ row.total = computeTotals(row.items, row.product)
     /\ row.deleted => row.status = "RASCUNHO"
     /\ row.order # None => /\ row.order \in DOMAIN d.orders /\ ~d.orders[row.order].deleted
                            /\ d.orders[row.order].quote = q => d.orders[row.order].items
SoundOrder(d, o) ==
  LET row == d.orders[o]
  IN row.quote # None => row.quote \in DOMAIN d.quotes /\ (row.deleted \/ d.quotes[row.quote].order = o)

(* A behaviour starts with such rows, whoever entered them, on a day of a  *)
(* billing cycle that has the orders the plan allows, and none of later.   *)
ASSUME FirstAssumption == \A s \in FirstStates :
  /\ s.db \in [quotes : Seq(QuoteRows), orders : Seq(OrderRows), next : [Tables -> Nat]]
  /\ \A t \in Tables : \A i, j \in DOMAIN s.db[t] :
       s.db[t][i].code # None /\ s.db[t][i].code = s.db[t][j].code => i = j
  /\ \A q \in DOMAIN s.db.quotes : SoundQuote(s.db, q)
  /\ \A o \in DOMAIN s.db.orders : SoundOrder(s.db, o) /\ s.db.orders[o].day <= s.to
  /\ s.to \in 1 .. Cycle
  /\ Limit > 0 => Cardinality({o \in DOMAIN s.db.orders : s.to - Cycle < s.db.orders[o].day}) <= Limit

VARIABLE slips   \* for the properties only: what has happened that explains a wrong state

quoteVars == <<vars, slips>>

Is(q, statuses) == db.quotes[q].status \in statuses

----------------------------------------------------------------------------
(* Requests of the office *)

Create(r, items, product, validity) ==
  Ask(r, "create", <<Code("quotes"), AddQuote(QuoteRow(items, product, None, validity))>>, None)

(* Mutant: the copy is as far as the quote it is of.                       *)
CopyWithStatus(q) == [db.quotes[q] EXCEPT !.product = 0, !.created = clock.day, !.link = None]

(* The copy has the total of the quote and not its productValueCents.      *)
Copy(q) == [QuoteRow(db.quotes[q].items, 0, db.quotes[q].order, db.quotes[q].validity)
              EXCEPT !.total = db.quotes[q].total]

Duplicate(r, q) == Ask(r, "duplicate", <<Code("quotes"), AddQuote(Copy(q))>>, q)

(* Mutant: a value beside the items does not change the total.             *)
ChangesWithoutReread(q) ==
  LET row == db.quotes[q]
  IN {SetQuote(q, [items |-> p, total |-> computeTotals(p, row.product), validity |-> row.validity]) : p \in Price}
     \cup {SetQuote(q, [product |-> x, total |-> row.total, validity |-> row.validity]) : x \in Product}

(* update, of the items, of a value beside them, of the validity, or of    *)
(* the order: the total is computed anew, or written back as it was read.  *)
Changes(q) ==
  LET row == db.quotes[q]
  IN {SetQuote(q, [items |-> p, total |-> computeTotals(p, row.product), validity |-> row.validity]) : p \in Price}
     \cup {Reread(q, [product |-> x, total |-> row.total, validity |-> row.validity]) : x \in Product}
     \cup {SetQuote(q, [total |-> row.total, validity |-> v]) : v \in Validity}
     \cup {SetQuote(q, [order |-> o, total |-> row.total, validity |-> row.validity]) :
             o \in {None} \cup DOMAIN db.orders}

Update(r, q) ==
  Is(q, {"RASCUNHO", "ENVIADO"}) /\ \E change \in Changes(q) : Ask(r, "update", <<change>>, q)

RemoveQuote(r, q) == Is(q, {"RASCUNHO"}) /\ Ask(r, "remove", <<SetQuote(q, [deleted |-> TRUE])>>, q)

(* The link is made once, and ends so many days after the expiry read.     *)
Send(r, q) ==
  /\ Is(q, {"RASCUNHO", "ENVIADO"})
  /\ Ask(r, "send", <<SetQuote(q, [status |-> "ENVIADO", link |-> ExpiresAt(q) + LinkDays])>>, q)

Decide(r, op, q, status) == Ask(r, op, <<SetQuote(q, [status |-> status])>>, q)

Approve(r, q) == Is(q, {"ENVIADO"}) /\ Decide(r, "approve", q, "APROVADO")
Reject(r, q) == Is(q, {"ENVIADO"}) /\ Decide(r, "reject", q, "REJEITADO")

(* Mutant: an approved quote may be cancelled.                             *)
CancelApproved(r, q) == ~Is(q, {"CANCELADO"}) /\ Decide(r, "cancel", q, "CANCELADO")
Cancel(r, q) == ~Is(q, {"CANCELADO", "APROVADO"}) /\ Decide(r, "cancel", q, "CANCELADO")

(* createOsFromQuote: the order, its items, and the link last.             *)
CreateOs(r, q) ==
  /\ Is(q, {"APROVADO", "ENVIADO"}) /\ db.quotes[q].order = None
  /\ Ask(r, "createOs",
         <<Count("month"), Code("orders"), AddOrder(OrderRow(q)), AddItems, Link(q)>>, q)

LinkQuoteToOs(r, q, o) ==
  db.quotes[q].order = None /\ Ask(r, "linkQuoteToOs", <<SetQuote(q, [order |-> o])>>, q)

----------------------------------------------------------------------------
(* Requests of the client, through the public link *)

ApprovePublic(r, q) ==
  /\ Is(q, {"ENVIADO"})
  /\ clock.day <= ExpiresAt(q) /\ clock.day <= db.quotes[q].link
  /\ Decide(r, "approvePublic", q, "APROVADO")

RejectPublic(r, q) ==
  db.quotes[q].link # None /\ Is(q, {"ENVIADO"}) /\ Decide(r, "rejectPublic", q, "REJEITADO")

----------------------------------------------------------------------------
(* Requests about orders that bear on the quota and the quotes *)

(* Orders are created in the billing cycle, and copied in the month.       *)
CreateOrder(r) ==
  Ask(r, "createOrder", <<Count("cycle"), Code("orders"), AddOrder(OrderRow(None))>>, None)
DuplicateOrder(r, o) ==
  Ask(r, "duplicateOrder", <<Count("month"), AddOrder(OrderRow(None))>>, None)

(* Mutants: the quotes keep the order; or lose it first.                   *)
RemoveOrderOnly(r, o) == Ask(r, "removeOrder", <<DeleteOrder(o)>>, None)
RemoveOrderLast(r, o) == Ask(r, "removeOrder", <<Unlink(o), DeleteOrder(o)>>, None)

RemoveOrder(r, o) == Ask(r, "removeOrder", <<DeleteOrder(o), Unlink(o)>>, None)

----------------------------------------------------------------------------
(* expireQuotes and expireNowForCompany, in one statement                  *)

Overdue(q) == q \in Live("quotes") /\ Is(q, {"ENVIADO"}) /\ ExpiresAt(q) < clock.day

ExpireQuotes ==
  /\ \E q \in DOMAIN db.quotes : Overdue(q)
  /\ db' = [db EXCEPT !.quotes = [q \in DOMAIN @ |-> IF Overdue(q) THEN [@[q] EXCEPT !.status = "EXPIRADO"] ELSE @[q]]]
  /\ req' = [r \in Request |-> IF req[r].on \in DOMAIN db.quotes /\ Overdue(req[r].on)
                               THEN [req[r] EXCEPT !.stale = TRUE] ELSE req[r]]
  /\ UNCHANGED <<clock, begun>>

----------------------------------------------------------------------------
(* What explains a wrong state *)

(* A code is drawn again: the counter, read as too low, is set back.       *)
Rewound == \E r \in Request : CorrectCounter(r) /\ Head(Todo(r)).next < db.next[Head(Todo(r)).table]

(* The quota is counted by two requests before either has its order; in a  *)
(* month that starts after the cycle does; or past the end of a cycle that *)
(* the job has not moved yet.                                              *)
Counts(r) == CountOrders(r) /\ req'[r].op # "idle"
Raced == \E r, s \in Request : r # s /\ Counts(r) /\ Doing(s, "order") /\ ~Doing(s, "count")
OtherMonth == \E r \in Request : Counts(r) /\ Head(Todo(r)).window = "month" /\ MonthStart > clock.from + 1
Lapsed == \E r \in Request : (Counts(r) \/ (Has(r, "order") /\ Insert(r))) /\ clock.to < clock.day

(* Two orders of one quote are under way; one was left without its link;   *)
(* or a hand takes the quote from its order, or gives it another.          *)
Begins(r, op) == ~Busy(r) /\ req'[r].op = op
Twice == \E r, s \in Request : r # s /\ Begins(r, "createOs") /\ Doing(s, "link") /\ req[s].on = req'[r].on
Broken == \E r \in Request : Fail(r) /\ (Has(r, "items") \/ Has(r, "link") \/ Has(r, "unlink"))
Relinked == \E r \in Request :
  \/ Has(r, "set") /\ req[r].op \in {"update", "linkQuoteToOs"} /\ WriteQuote(r)
     /\ \E q \in DOMAIN db.quotes : /\ db'.quotes[q].order # db.quotes[q].order
                                    /\ db.quotes[q].order # None \/ \E s \in Request : req[s].op = "createOs" /\ req[s].on = q
  \/ WriteLink(r) /\ db.quotes[Head(Todo(r)).q].order # None

(* A quote is linked, by whoever does, to an order that has been deleted,  *)
(* or is just made and has not its items yet.                              *)
LinkedDead == \E q \in DOMAIN db'.quotes :
  /\ q \in DOMAIN db.quotes => db'.quotes[q].order # db.quotes[q].order
  /\ LET o == db'.quotes[q].order IN o # None /\ (db.orders[o].deleted \/ ~db.orders[o].items)

(* A quote is written by a handler that has not seen its last write.       *)
Overwrites == \E r \in Request : req[r].stale /\ WriteQuote(r)

(* The copy of a quote with products is without them.                      *)
CopiedShort == \E r \in Request :
  /\ req[r].op = "duplicate" /\ Has(r, "quote") /\ Insert(r)
  /\ LET row == Head(Todo(r)).row IN row.total # computeTotals(row.items, row.product)

Slip == IF Rewound THEN {"rewound"} ELSE {}
   \cup (IF Raced THEN {"raced"} ELSE {})
   \cup (IF OtherMonth THEN {"month"} ELSE {})
   \cup (IF Lapsed THEN {"lapsed"} ELSE {})
   \cup (IF Twice THEN {"twice"} ELSE {})
   \cup (IF Broken THEN {"broken"} ELSE {})
   \cup (IF Relinked THEN {"relinked"} ELSE {})
   \cup (IF LinkedDead THEN {"dead"} ELSE {})
   \cup (IF Overwrites THEN {"overwritten"} ELSE {})
   \cup (IF CopiedShort THEN {"copied"} ELSE {})

----------------------------------------------------------------------------
(* The system *)

OnQuote(r, q) ==
  \/ Update(r, q) \/ RemoveQuote(r, q) \/ Send(r, q) \/ Approve(r, q) \/ Reject(r, q) \/ Cancel(r, q)
  \/ Duplicate(r, q) \/ CreateOs(r, q)
  \/ \E o \in DOMAIN db.orders : LinkQuoteToOs(r, q, o)
  \/ ApprovePublic(r, q) \/ RejectPublic(r, q)

Handle(r) ==
  \/ \E items \in Price, product \in Product, validity \in Validity : Create(r, items, product, validity)
  \/ \E q \in Live("quotes") : OnQuote(r, q)
  \/ CreateOrder(r)
  \/ \E o \in Live("orders") : DuplicateOrder(r, o) \/ RemoveOrder(r, o)

(* The bound of the runs: what follows a slip is not explored.             *)
Go(A) == slips = {} /\ A /\ slips' = Slip

Next ==
  \/ \E r \in Request : Go(Handle(r)) \/ Go(Step(r)) \/ Go(Fail(r))
  \/ Go(ExpireQuotes) \/ Go(Midnight) \/ Go(AdvanceCycle)

Init ==
  /\ \E s \in FirstStates : /\ db = s.db
                            /\ clock = [day |-> 1, from |-> s.to - Cycle, to |-> s.to]
  /\ req = [r \in Request |-> Idle]
  /\ begun = 0
  /\ slips = {}

Spec == Init /\ [][Next]_quoteVars

----------------------------------------------------------------------------
(* Properties *)

AtRest == \A r \in Request : ~Busy(r)
Explained == slips # {}

(* Types: a sent quote has its link, no two rows have one code, and links  *)
(* refer to rows that exist.                                               *)
IntakeTypeOK ==
  /\ \A t \in Tables :
       \A i, j \in DOMAIN db[t] : db[t][i].code # None /\ db[t][i].code = db[t][j].code => i = j
  /\ \A q \in DOMAIN db.quotes :
       LET row == db.quotes[q]
       IN /\ row.status \in Status
          /\ row.status \in ShownToClients => row.link # None
          /\ row.order \in DOMAIN db.orders \cup {None}
  /\ \A o \in DOMAIN db.orders : db.orders[o].quote \in DOMAIN db.quotes \cup {None}
  /\ clock.from < clock.to /\ clock.from < clock.day

(* A code found free stays free until its row is inserted: no request      *)
(* fails on the unique index, whatever codes were there before the counter.*)
CodeStaysFree ==
  ~Explained => \A r \in Request, t \in Tables :
    Has(r, IF t = "quotes" THEN "quote" ELSE "order") => req[r].number \notin Codes(t)

(* A billing cycle has no more orders than the plan allows, the deleted    *)
(* ones included.                                                          *)
QuotaKept == ~Explained /\ Limit > 0 => Cardinality(InCycle) <= Limit

(* A quote becomes one order, which may be replaced once it is deleted.    *)
OneOrderPerQuote ==
  ~Explained => \A o, p \in Live("orders") :
    db.orders[o].quote # None /\ db.orders[o].quote = db.orders[p].quote => o = p

(* A quote is not held by an order that is gone: it could never become     *)
(* another one.  And the order it became has all its items.                *)
LinkSound ==
  AtRest /\ ~Explained => \A q \in DOMAIN db.quotes :
    LET o == db.quotes[q].order
    IN o # None => ~db.orders[o].deleted /\ (db.orders[o].quote = q => db.orders[o].items)

(* The total of a quote is what its items and products come to, through    *)
(* every edit.                                                             *)
TotalIsSum ==
  ~Explained => \A q \in DOMAIN db.quotes :
    db.quotes[q].total = computeTotals(db.quotes[q].items, db.quotes[q].product)

(* A decision stands: a quote that is approved, rejected, expired or        *)
(* cancelled is not open again, nor approved after all; it may only be     *)
(* cancelled, unless it is approved; and an approved one keeps its amount. *)
Decided == {"APROVADO", "REJEITADO", "EXPIRADO", "CANCELADO"}
DecisionStands ==
  [][\A q \in DOMAIN db.quotes : Is(q, Decided) /\ slips' = {} =>
       /\ db'.quotes[q].status = db.quotes[q].status
          \/ (~Is(q, {"APROVADO"}) /\ db'.quotes[q].status = "CANCELADO")
       /\ Is(q, {"APROVADO"}) => db'.quotes[q].total = db.quotes[q].total
       /\ ~db'.quotes[q].deleted]_quoteVars
=============================================================================
