------------------------------ MODULE Treasury ------------------------------
(***************************************************************************)
(* The cash accounts with the bank's statement: CashLedger and             *)
(* Reconciliation over one set of rows, and what holds of balances, closed *)
(* months and matches however the handlers interleave.                     *)
(***************************************************************************)
EXTENDS Reconciliation, Functions

CONSTANT FirstEntries   \* what a behaviour may start with: sequences of entries

ASSUME FirstAssumption ==
  \A rows \in FirstEntries :
    /\ rows \in Seq(EntryRow)
    /\ \A i \in DOMAIN rows : LET e == rows[i] IN e = Due(e.type, e.gross, e.bps, e.account)

VARIABLE slips   \* for the properties only: what has happened that explains a drift

treasuryVars == <<vars, slips>>

Init ==
  /\ db \in [entries : FirstEntries, balance : {[a \in Account |-> 0]}, transfers : {<<>>},
             lines : {[l \in Line |-> [status |-> "UNMATCHED", entry |-> 0]]}, closed : {{}}]
  /\ transit \in {Transit, NoAccount}
  /\ req = [r \in Request |-> Idle]
  /\ begun = 0
  /\ slips = {}

----------------------------------------------------------------------------
(* What the reports derive from the rows *)

(* What a row adds to an account, of the rows dated in some months.        *)
Counts(e, a, months) == e.live /\ IsPaid(e) /\ e.account = a /\ e.month \in months
Worth(e, a, months) == IF Counts(e, a, months) THEN Signed(e) ELSE 0
Carried(w, a, months) ==
  IF w.live /\ w.month \in months THEN At(Carry(w.from, w.to, w.amount), a) ELSE 0

EntriesIn(d, a, months) == {i \in DOMAIN d.entries : Counts(d.entries[i], a, months)}

Posted(d, a, months) ==
    SumFunction([i \in DOMAIN d.entries |-> Worth(d.entries[i], a, months)])
  + SumFunction([k \in DOMAIN d.transfers |-> Carried(d.transfers[k], a, months)])

Drift(a) == db.balance[a] - Posted(db, a, Month)

----------------------------------------------------------------------------
(* What the code lets happen to a balance without posting it, or posts     *)
(* without the balance.  Slip(r) names it as the step of r takes it.       *)

Begins(r, op) == ~Busy(r) /\ req'[r].op = op
First(r) == req'[r].todo[1]
Touched(r) == DOMAIN First(r).touch

(* An entry that counts in its account is removed, or its amount changed.  *)
Deleted(r) == Begins(r, "deleteEntry") /\ \E i \in Touched(r) : IsPaid(db.entries[i])
Edited(r) == Begins(r, "updateEntry") /\ \E i \in Touched(r) : IsPaid(db.entries[i])

(* Paid in the account the entry had, which only the call's is credited;   *)
(* or paid with the balance skipped.                                       *)
Uncredited(r) ==
  /\ req'[r].todo # <<>>
  /\ \/ Begins(r, "pay")
     \/ req[r].op = "partialPay" /\ req[r].then # NoPay /\ req'[r].then = NoPay
  /\ \E i \in Touched(r) : First(r).touch[i].account \notin DOMAIN First(r).move \cup {NoAccount}

(* Without a transit account the bank takes the line's amount, whatever    *)
(* the entry's is.                                                         *)
Differs(l, i, tax) == Signed(db.entries[i]) - tax # LineAmount[l]
LegacyMatch(r) ==
  /\ Begins(r, "matchLine") /\ First(r).wire = <<>>
  /\ \E l \in DOMAIN First(r).line, i \in Touched(r) :
       IsOpen(db.entries[i]) /\ Differs(l, i, IF First(r).make = <<>> THEN 0 ELSE First(r).make[1].net)

(* The match moves the gross amount, the reports count the net one.        *)
GrossMatch(r) ==
  /\ Begins(r, "matchLine") /\ First(r).wire # <<>>
  /\ \E i \in Touched(r) : IsOpen(db.entries[i]) /\ db.entries[i].gross # db.entries[i].net

(* Undone by the rows as they are now, not by what the match did: the      *)
(* gross amount of a net posting; a fee credited back that is not posted;  *)
(* the line's amount where other amounts were posted, or in other accounts.*)
Brought(l, i, a) ==
  Worth(db.entries[i], a, Month) + (IF TaxesOf(l) = {} THEN 0 ELSE Worth(db.entries[TaxOf(l)], a, Month))
WrongUndo(r) ==
  /\ Begins(r, "unmatchLine")
  /\ \E l \in Line :
       LET i == db.lines[l].entry
           e == db.entries[i]
           wired == TransfersOf(l) # {}
       IN /\ db.lines[l].status = "MATCHED" /\ <<"line", l>> \in req'[r].on
          /\ \/ wired /\ e.auto /\ IsPaid(e) /\ e.gross # e.net
             \/ wired /\ TaxesOf(l) # {} /\ ~IsPaid(db.entries[TaxOf(l)])
             \/ ~wired /\ e.auto /\ \E a \in Account : Brought(l, i, a) # IF a = Bank THEN LineAmount[l] ELSE 0
             \/ ~e.auto /\ e.account = Bank /\ transit # NoAccount

Slip(r) ==
     (IF req[r].stale /\ Commit(r) THEN {"stale"} ELSE {})
\cup (IF Deleted(r) THEN {"deleted"} ELSE {})
\cup (IF Edited(r) THEN {"edited"} ELSE {})
\cup (IF Uncredited(r) THEN {"uncredited"} ELSE {})
\cup (IF LegacyMatch(r) THEN {"legacy"} ELSE {})
\cup (IF GrossMatch(r) THEN {"gross"} ELSE {})
\cup (IF WrongUndo(r) THEN {"undo"} ELSE {})
\cup (IF req[r].op = "unmatchLine" /\ Stop(r) THEN {"torn"} ELSE {})

Next == \E r \in Request :
  /\ LedgerNext(r) \/ LineNext(r) \/ Commit(r) \/ Stop(r)
  /\ slips' = slips \cup Slip(r)

Spec == Init /\ [][Next]_treasuryVars

----------------------------------------------------------------------------
(* Properties *)

(* Types: a paid entry has a date, a matched line an entry, a transfer two *)
(* accounts and an amount (the columns of schema.prisma).                  *)
TreasuryTypeOK ==
  /\ \A i \in DOMAIN db.entries :
       LET e == db.entries[i]
       IN /\ e.type \in {"RECEIVABLE", "PAYABLE"}
          /\ e.status \in {"PENDING", "PAID", "CANCELLED", "ERASED"}
          /\ e.account \in Account \cup {NoAccount}
          /\ e.net = e.gross - e.cut \/ e.net = e.gross
          /\ IsPaid(e) => e.month \in Month
  /\ \A k \in DOMAIN db.transfers : LET w == db.transfers[k] IN w.from # w.to /\ w.amount > 0
  /\ \A l \in Line : db.lines[l].status = "MATCHED" => db.lines[l].entry \in DOMAIN db.entries
  /\ db.closed \subseteq Account \X Month

AtRest == \A r \in Request : ~Busy(r)
Explained == slips # {}

(* When no request is running, the balance of every account is the sum of  *)
(* what is posted in it, the sum getStatementBalanceCompare takes it for,  *)
(* however the handlers interleaved: unless one of the slips above         *)
(* happened, which are all the ways the code has of losing it.             *)
Balanced == AtRest /\ ~Explained => \A a \in Account : Drift(a) = 0

(* One entry is matched with one line of the statement at most (the check  *)
(* of matchLine, made before its transaction), but for a stale check.      *)
OneLinePerEntry ==
  ~Explained => \A k, l \in Line : k # l /\ db.lines[k].status = "MATCHED" /\ db.lines[l].status = "MATCHED"
                                 => db.lines[k].entry # db.lines[l].entry

(* What is posted in a closed month of an account stays while the month is *)
(* closed, whatever the handlers do: but for an edited amount, a           *)
(* rebalance, and a match or its undoing, which look at the months of the  *)
(* bank and never at those of the account the entry is in.                 *)
Ends(r, ops) == req[r].op \in ops /\ req'[r] # req[r]
ClosedMonthKept ==
  [][\A p \in db.closed :
       \/ Posted(db', p[1], {p[2]}) = Posted(db, p[1], {p[2]})
       \/ slips' # {}
       \/ \E r \in Request :
            \/ Ends(r, {"updateEntry", "rebalance"})
            \/ Ends(r, {"matchLine", "unmatchLine"}) /\ p[1] # Bank
            \/ Ends(r, {"matchLine", "unmatchLine"}) /\ EntriesIn(db, Bank, {p[2]}) # EntriesIn(db', Bank, {p[2]})
    ]_treasuryVars

(* The bound of the runs: what follows a slip is not explored.             *)
BeforeFirstSlip == ~Explained
=============================================================================
