----------------------------- MODULE CashLedger -----------------------------
(***************************************************************************)
(* The cash accounts of a tenant and what is posted in them: financial     *)
(* entries, transfers between accounts, months closed after checking.  The *)
(* balance of an account is a column that every handler increments; the    *)
(* entries and transfers are kept beside it, and the reports derive the    *)
(* same amount from them.                                                  *)
(*                                                                         *)
(* As in OrderState a handler reads, checks and then runs the transactions *)
(* it has computed ("todo"), with other requests in between.               *)
(***************************************************************************)
EXTENDS Integers, Sequences, FiniteSets

CONSTANTS Account,     \* CashAccount rows
          Bank,        \* the account the statement lines belong to
          Transit,     \* the account of type TRANSITO, where the tenant has one
          NoAccount,   \* the null of cashAccountId
          Month,       \* the months payments and transfers fall in, numbers from 1
          Amount,      \* the amounts a user can enter
          Bps,         \* the commissions of payables, in hundredths of a percent
          Line,        \* BankStatementLine rows of Bank
          NoLine,      \* the null of a line's id
          LineAmount,  \* their signed amounts
          LineMonth,   \* and their months
          Request,     \* requests in flight at once
          Handlers,    \* the handlers this instance exercises
          MaxEntries,  \* bound: rows of FinancialEntry
          MaxTransfers,\* bound: rows of AccountTransfer at one time
          MaxRequests  \* bound: requests begun in one behaviour

ASSUME AccountAssumption == Bank \in Account /\ Transit \in Account \ {Bank} /\ NoAccount \notin Account
ASSUME LineAssumption == LineAmount \in [Line -> Int \ {0}] /\ LineMonth \in [Line -> Month] /\ NoLine \notin Line
ASSUME AmountAssumption == Amount \subseteq Nat \ {0} /\ Bps \subseteq Nat
ASSUME MonthAssumption == Month \subseteq Nat \ {0} /\ \E m \in Month : \A n \in Month : n <= m
ASSUME RequestAssumption == IsFiniteSet(Request)

VARIABLES db,       \* the tables
          transit,  \* Transit, or NoAccount where the tenant has no such account
          req,      \* the requests in flight
          begun     \* how many have begun

vars == <<db, transit, req, begun>>

----------------------------------------------------------------------------
(* Rows *)

Now == CHOOSE m \in Month : \A n \in Month : n <= m

(* Math.round(gross * bps / 10000)                                         *)
Commission(gross, bps) == (gross * bps + 5000) \div 10000

(* gross, net, cut: grossCents, netCents, commissionCents; month: of       *)
(* paidAt, 0 when null; auto: autoMarkedPaid; line: the line a technical   *)
(* tax entry names in its description.  For the properties only, by: who   *)
(* paid it, "user" or "match".                                             *)
Entry(type, status, gross, bps, account, month) ==
  [type |-> type, status |-> status, gross |-> gross, bps |-> bps, cut |-> Commission(gross, bps),
   net |-> gross - Commission(gross, bps), account |-> account, month |-> month,
   auto |-> FALSE, live |-> TRUE, line |-> NoLine, by |-> "user"]

EntryRow == [type: {"RECEIVABLE", "PAYABLE"}, status: {"PENDING", "PAID", "CANCELLED", "ERASED"}, gross: Int,
             bps: Nat, cut: Int, net: Int, account: Account \cup {NoAccount}, month: Month \cup {0},
             auto: BOOLEAN, live: BOOLEAN, line: Line \cup {NoLine}, by: {"user", "match"}]

Due(type, gross, bps, account) == Entry(type, "PENDING", gross, bps, account, 0)
Posting(type, amount, account, month) == Entry(type, "PAID", amount, 0, account, month)

(* line: the line an automatic transfer names in its description.          *)
Wire(from, to, amount, month, line) ==
  [from |-> from, to |-> to, amount |-> amount, month |-> month, line |-> line, live |-> TRUE]

WireRow == [from: Account, to: Account, amount: Nat \ {0}, month: Month, line: Line \cup {NoLine}, live: BOOLEAN]

Sign(e) == IF e.type = "RECEIVABLE" THEN 1 ELSE -1
Signed(e) == Sign(e) * e.net
IsOpen(e) == e.status = "PENDING"
IsPaid(e) == e.status = "PAID"

----------------------------------------------------------------------------
(* Transactions *)

Nothing == [f \in {} |-> 0]

(* touch   updates of entries, by position                                 *)
(* make    entries created                                                 *)
(* move    increments of balances, by account                              *)
(* wire    transfers created; unwire: updates of transfers                 *)
(* line    updates of statement lines                                      *)
(* shut    months closed; open: months reopened                            *)
Tx == [touch |-> Nothing, make |-> <<>>, move |-> Nothing, wire |-> <<>>, unwire |-> Nothing,
       line |-> Nothing, shut |-> {}, open |-> {}]

Touch(i, patch) == [j \in {i} |-> patch]
Move(a, cents) == [b \in {a} \ {NoAccount} |-> cents]
Carry(from, to, cents) == [b \in {from, to} |-> IF b = to THEN cents ELSE -cents]
At(m, a) == IF a \in DOMAIN m THEN m[a] ELSE 0
Plus(m, n) == [a \in DOMAIN m \cup DOMAIN n |-> At(m, a) + At(n, a)]

Patched(row, p) == [f \in DOMAIN row |-> IF f \in DOMAIN p THEN p[f] ELSE row[f]]
PatchedAll(rows, p) == [k \in DOMAIN rows |-> IF k \in DOMAIN p THEN Patched(rows[k], p[k]) ELSE rows[k]]

Apply(d, x) ==
  [entries   |-> PatchedAll(d.entries, x.touch) \o x.make,
   balance   |-> [a \in Account |-> d.balance[a] + At(x.move, a)],
   transfers |-> PatchedAll(d.transfers, x.unwire) \o x.wire,
   lines     |-> PatchedAll(d.lines, x.line),
   closed    |-> (d.closed \cup x.shut) \ x.open]

----------------------------------------------------------------------------
(* Requests *)

NoPay == [i |-> 0]

(* then: the payment partialPay still has to make once its split is done.  *)
(* For the properties only: on, the rows and months the request has read,  *)
(* and stale, whether another one has changed any of them since.           *)
Idle == [op |-> "idle", todo |-> <<>>, then |-> NoPay, on |-> {}, stale |-> FALSE]

Busy(r) == req[r] # Idle

Changed(x) == {<<"entry", i>> : i \in DOMAIN x.touch}
         \cup {<<"line", l>> : l \in DOMAIN x.line}
         \cup {<<"wire", k>> : k \in DOMAIN x.unwire}
         \cup {<<"month", p>> : p \in x.shut}

(* The bounds on the rows.                                                 *)
Fits(d, x) == Len(d.entries \o x.make) <= MaxEntries /\ Len(d.transfers \o x.wire) <= MaxTransfers

(* An update or a delete of a row that is not there any more is an error,  *)
(* and so is an increment of an account that is null.                      *)
Lost(d, x) ==
  \/ NoAccount \in DOMAIN x.move
  \/ \E i \in DOMAIN x.touch : d.entries[i].status = "ERASED"
  \/ \E k \in DOMAIN x.unwire : ~d.transfers[k].live

Begin(r, op, on, todo, then) ==
  /\ op \in Handlers
  /\ ~Busy(r)
  /\ begun < MaxRequests
  /\ req' = [req EXCEPT ![r] = [op |-> op, todo |-> todo, then |-> then, on |-> on, stale |-> FALSE]]
  /\ begun' = begun + 1
  /\ UNCHANGED <<db, transit>>

Once(r, op, on, x) == Begin(r, op, on, <<x>>, NoPay)

GiveUp(r) ==
  /\ req' = [req EXCEPT ![r] = Idle]
  /\ UNCHANGED <<db, transit, begun>>

Commit(r) ==
  /\ req[r].todo # <<>>
  /\ LET x == Head(req[r].todo)
         rest == [req[r] EXCEPT !.todo = Tail(@)]
     IN /\ Fits(db, x)
        /\ ~Lost(db, x)
        /\ db' = Apply(db, x)
        /\ req' = [q \in Request |->
                     IF q = r THEN IF rest.todo = <<>> /\ rest.then = NoPay THEN Idle ELSE rest
                     ELSE IF Busy(q) THEN [req[q] EXCEPT !.stale = @ \/ Changed(x) \cap req[q].on # {}]
                     ELSE Idle]
        /\ UNCHANGED <<transit, begun>>

(* The two handlers whose writes are not one transaction can stop between  *)
(* two of them: a failed query or a restart of the process.                *)
Stop(r) ==
  /\ \/ req[r].op \in {"unmatchLine", "partialPay"}
     \/ req[r].todo # <<>> /\ Lost(db, Head(req[r].todo))
  /\ GiveUp(r)

----------------------------------------------------------------------------
(* The entries' handlers *)

LedgerHandlers == {"createEntry", "updateEntry", "pay", "reverse", "cancelEntry", "partialPay",
                   "deleteEntry", "renegotiate", "rebalance", "transfer", "closeStatement",
                   "reopenStatement"}

IsClosed(a, m) == <<a, m>> \in db.closed
ReadEntry(i) == {<<"entry", i>>}
ReadMonth(a, m) == {<<"month", <<a, m>>>>}
Live(i) == db.entries[i].live

(* createEntry and resolveAutoPay: an instrument that marks its payments   *)
(* pays the entry at birth, into the account asked for, the instrument's,  *)
(* or the transit account.                                                 *)
CreateEntry(r, type, gross, bps, account, autoPay) ==
  LET into == IF account = NoAccount /\ autoPay THEN transit ELSE account
      due == Due(type, gross, IF type = "PAYABLE" THEN bps ELSE 0, into)
      paid == [due EXCEPT !.status = "PAID", !.month = Now, !.auto = TRUE]
  IN \/ /\ ~autoPay
        /\ Once(r, "createEntry", {}, [Tx EXCEPT !.make = <<due>>])
     \/ /\ autoPay
        /\ ~IsClosed(into, Now)
        /\ Once(r, "createEntry", ReadMonth(into, Now),
             [Tx EXCEPT !.make = <<paid>>, !.move = Move(into, Signed(paid))])

(* updateEntry: the amount of any entry, paid ones included.               *)
UpdateEntry(r, i, gross) ==
  /\ Live(i)
  /\ Once(r, "updateEntry", ReadEntry(i),
       [Tx EXCEPT !.touch = Touch(i, [gross |-> gross, net |-> gross - db.entries[i].cut])])

(* Mutants: a payment without its date; a check of the account the entry   *)
(* has instead of the one it is paid into.                                 *)
PayTxUndated(i, account, month, skip) ==
  [Tx EXCEPT !.touch = Touch(i, [status |-> "PAID", month |-> 0, account |-> account])]
MayPayWhereItIs(i, account, month) ==
  Live(i) /\ IsOpen(db.entries[i]) /\ ~IsClosed(db.entries[i].account, month)

(* changeEntryStatus to PAID, not by card.  Only the account of the call   *)
(* is credited, and not if it asks to skip the balance.                    *)
PayTx(i, account, month, skip) ==
  LET e == db.entries[i]
      into == IF account = NoAccount THEN e.account ELSE account
  IN [Tx EXCEPT !.touch = Touch(i, [status |-> "PAID", month |-> month, account |-> into, by |-> "user"]),
                !.move = IF skip THEN Nothing ELSE Move(account, Signed(e))]

MayPay(i, account, month) ==
  /\ Live(i)
  /\ IsOpen(db.entries[i])
  /\ ~IsClosed(IF account = NoAccount THEN db.entries[i].account ELSE account, month)

PayReads(i, account, month) ==
  ReadEntry(i) \cup ReadMonth(IF account = NoAccount THEN db.entries[i].account ELSE account, month)

Pay(r, i, account, month, skip) ==
  /\ MayPay(i, account, month)
  /\ Once(r, "pay", PayReads(i, account, month), PayTx(i, account, month, skip))

(* changeEntryStatus to REVERSED: pending again, without an account.       *)
Reverse(r, i) ==
  LET e == db.entries[i]
  IN /\ Live(i) /\ IsPaid(e)
     /\ ~IsClosed(e.account, e.month)
     /\ Once(r, "reverse", ReadEntry(i) \cup ReadMonth(e.account, e.month),
          [Tx EXCEPT !.touch = Touch(i, [status |-> "PENDING", month |-> 0, account |-> NoAccount]),
                     !.move = Move(e.account, -Signed(e))])

CancelEntry(r, i) ==
  /\ Live(i) /\ IsOpen(db.entries[i])
  /\ Once(r, "cancelEntry", ReadEntry(i), [Tx EXCEPT !.touch = Touch(i, [status |-> "CANCELLED"])])

(* partialPay: one transaction splits the entry, then the part is paid by  *)
(* a call of changeEntryStatus, which reads and checks again.              *)
PartialPay(r, i, part, account, month) ==
  LET e == db.entries[i]
  IN /\ MayPay(i, account, month)
     /\ part < e.net
     /\ Begin(r, "partialPay", PayReads(i, account, month),
          <<[Tx EXCEPT !.make = <<Due(e.type, e.net - part, 0, NoAccount)>>,
                       !.touch = Touch(i, [gross |-> part, net |-> part])]>>,
          [i |-> i, account |-> account, month |-> month])

PayPart(r) ==
  LET p == req[r].then
  IN /\ req[r].todo = <<>> /\ p # NoPay
     /\ \/ /\ MayPay(p.i, p.account, p.month)
           /\ req' = [req EXCEPT ![r] = [op |-> "partialPay", then |-> NoPay, stale |-> FALSE,
                                         on |-> PayReads(p.i, p.account, p.month),
                                         todo |-> <<PayTx(p.i, p.account, p.month, FALSE)>>]]
           /\ UNCHANGED <<db, transit, begun>>
        \/ ~MayPay(p.i, p.account, p.month) /\ GiveUp(r)

(* deleteEntry of an entry without an order.                               *)
DeleteEntry(r, i) ==
  LET e == db.entries[i]
  IN /\ Live(i)
     /\ ~(IsPaid(e) /\ IsClosed(e.account, e.month))
     /\ Once(r, "deleteEntry", ReadEntry(i) \cup ReadMonth(e.account, e.month),
          [Tx EXCEPT !.touch = Touch(i, [live |-> FALSE])])

Renegotiate(r, i) ==
  LET e == db.entries[i]
  IN /\ Live(i) /\ IsOpen(e)
     /\ Once(r, "renegotiate", ReadEntry(i),
          [Tx EXCEPT !.touch = Touch(i, [status |-> "CANCELLED"]),
                     !.make = <<Due(e.type, e.net, e.bps, NoAccount)>>])

(* rebalance: an adjustment entry and its increment; no month is checked.  *)
Rebalance(r, account, type, amount) ==
  LET e == Posting(type, amount, account, Now)
  IN Once(r, "rebalance", {}, [Tx EXCEPT !.make = <<e>>, !.move = Move(account, Signed(e))])

CreateTransfer(r, from, to, amount, month) ==
  /\ from # to
  /\ ~IsClosed(from, month) /\ ~IsClosed(to, month)
  /\ Once(r, "transfer", ReadMonth(from, month) \cup ReadMonth(to, month),
       [Tx EXCEPT !.wire = <<Wire(from, to, amount, month, NoLine)>>, !.move = Carry(from, to, amount)])

CloseStatement(r, a, m) ==
  ~IsClosed(a, m) /\ Once(r, "closeStatement", {}, [Tx EXCEPT !.shut = {<<a, m>>}])
ReopenStatement(r, a, m) ==
  IsClosed(a, m) /\ Once(r, "reopenStatement", {}, [Tx EXCEPT !.open = {<<a, m>>}])

LedgerNext(r) ==
  \/ \E type \in {"RECEIVABLE", "PAYABLE"}, amount \in Amount, account \in Account \cup {NoAccount},
        bps \in Bps, autoPay \in BOOLEAN :
       CreateEntry(r, type, amount, bps, account, autoPay)
  \/ \E i \in DOMAIN db.entries :
       \/ \E amount \in Amount : UpdateEntry(r, i, amount)
       \/ \E account \in Account \cup {NoAccount}, month \in Month :
            \/ \E skip \in BOOLEAN : Pay(r, i, account, month, skip)
            \/ \E part \in Amount : PartialPay(r, i, part, account, month)
       \/ Reverse(r, i)
       \/ CancelEntry(r, i)
       \/ DeleteEntry(r, i)
       \/ Renegotiate(r, i)
  \/ PayPart(r)
  \/ \E account \in Account, type \in {"RECEIVABLE", "PAYABLE"}, amount \in Amount :
       Rebalance(r, account, type, amount)
  \/ \E from, to \in Account, amount \in Amount, month \in Month :
       CreateTransfer(r, from, to, amount, month)
  \/ \E a \in Account, m \in Month : CloseStatement(r, a, m) \/ ReopenStatement(r, a, m)
=============================================================================
