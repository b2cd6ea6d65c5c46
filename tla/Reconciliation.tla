--------------------------- MODULE Reconciliation ---------------------------
(***************************************************************************)
(* The lines of a bank statement matched with financial entries.  matchLine *)
(* is one transaction; unmatchLine undoes it by writes that are not, and   *)
(* finds what to undo by what the row of the entry says now.               *)
(***************************************************************************)
EXTENDS CashLedger

LineHandlers == {"matchLine", "unmatchLine", "ignoreLine", "unignoreLine"}

Magnitude(l) == IF LineAmount[l] < 0 THEN -LineAmount[l] ELSE LineAmount[l]
IsCredit(l) == LineAmount[l] > 0
ReadLine(l) == {<<"line", l>>} \cup ReadMonth(Bank, LineMonth[l])

(* The account the money comes from: the entry's, unless it has none or    *)
(* has the bank itself, for which the transit account stands in.           *)
Source(e) == IF e.account \in {NoAccount, Bank} THEN transit ELSE e.account

(* The fee a card operator kept, as a paid technical entry of the source.  *)
Tax(l, account, tax) ==
  IF tax = 0 THEN <<>>
  ELSE <<[Posting("PAYABLE", tax, account, LineMonth[l]) EXCEPT !.auto = TRUE, !.line = l]>>

Transferred(l, source) ==
  IF IsCredit(l) THEN Wire(source, Bank, Magnitude(l), LineMonth[l], l)
                 ELSE Wire(Bank, source, Magnitude(l), LineMonth[l], l)

(* An open entry is paid by the match: in its source, with a transfer to   *)
(* the bank, or straight in the bank where there is no transit account.    *)
MatchOpen(l, i, tax) ==
  LET e == db.entries[i]
      s == Source(e)
      fee == IF e.type = "RECEIVABLE" /\ IsCredit(l) THEN tax ELSE 0
      paid(a) == Touch(i, [status |-> "PAID", month |-> LineMonth[l], auto |-> TRUE, account |-> a,
                            by |-> "match"])
      w == Transferred(l, s)
  IN IF s # NoAccount
       THEN [Tx EXCEPT !.touch = paid(s), !.wire = <<w>>, !.make = Tax(l, s, fee),
                       !.move = Plus(Move(s, Sign(e) * e.gross - fee), Carry(w.from, w.to, w.amount))]
       ELSE [Tx EXCEPT !.touch = paid(Bank), !.make = Tax(l, Bank, fee),
                       !.move = Move(Bank, LineAmount[l])]

(* An entry paid before keeps its account and takes the line's date; the   *)
(* transfer brings its money to the bank.                                  *)
MatchPaid(l, i, tax) ==
  LET e == db.entries[i]
      s == Source(e)
      fee == IF e.type # "RECEIVABLE" \/ ~IsCredit(l) THEN 0
             ELSE IF tax > 0 THEN tax
             ELSE IF e.gross > Magnitude(l) THEN e.gross - Magnitude(l) ELSE 0
      w == Transferred(l, s)
      dated == [Tx EXCEPT !.touch = Touch(i, [month |-> LineMonth[l]])]
  IN IF s # NoAccount
       THEN [dated EXCEPT !.wire = <<w>>, !.make = Tax(l, s, fee),
                          !.move = Plus(Carry(w.from, w.to, w.amount), Move(s, -fee))]
       ELSE dated

(* Mutant: only the line itself is looked at.                              *)
MatchedOnThisLine(l, i) == db.lines[l].status = "MATCHED" /\ db.lines[l].entry = i

MatchedElsewhere(l, i) == \E k \in Line \ {l} : db.lines[k].status = "MATCHED" /\ db.lines[k].entry = i

MatchLine(r, l, i, tax) ==
  LET e == db.entries[i]
      x == IF IsOpen(e) THEN MatchOpen(l, i, tax) ELSE MatchPaid(l, i, tax)
  IN /\ db.lines[l].status # "MATCHED"
     /\ ~IsClosed(Bank, LineMonth[l])
     /\ e.live /\ e.status # "CANCELLED"
     /\ ~MatchedElsewhere(l, i)
     /\ Once(r, "matchLine", ReadLine(l) \cup ReadEntry(i),
          [x EXCEPT !.line = [k \in {l} |-> [status |-> "MATCHED", entry |-> i]]])

(* unmatchLine: the automatic transfer and the tax entry are found by the  *)
(* line's id in their description.                                         *)
TransfersOf(l) == {k \in DOMAIN db.transfers : db.transfers[k].live /\ db.transfers[k].line = l}
TaxesOf(l) == {i \in DOMAIN db.entries : db.entries[i].live /\ db.entries[i].line = l}

(* Mutant: origin and destination swapped.                                 *)
BackSwapped(k) ==
  LET w == db.transfers[k]
  IN <<[Tx EXCEPT !.move = Move(w.to, w.amount)], [Tx EXCEPT !.move = Move(w.from, -w.amount)],
       [Tx EXCEPT !.unwire = [j \in {k} |-> [live |-> FALSE]]]>>

Back(k) ==
  LET w == db.transfers[k]
  IN <<[Tx EXCEPT !.move = Move(w.from, w.amount)], [Tx EXCEPT !.move = Move(w.to, -w.amount)],
       [Tx EXCEPT !.unwire = [j \in {k} |-> [live |-> FALSE]]]>>

TaxOf(l) == CHOOSE t \in TaxesOf(l) : TRUE

(* The increment names the account of the tax entry even when it is null.  *)
Untaxed(l, credited) ==
  LET t == TaxOf(l)
      credit == [Tx EXCEPT !.move = [a \in {db.entries[t].account} |-> db.entries[t].net]]
      erase == [Tx EXCEPT !.touch = Touch(t, [live |-> FALSE, status |-> "ERASED"])]
  IN IF TaxesOf(l) = {} THEN <<>> ELSE IF credited THEN <<credit, erase>> ELSE <<erase>>

Undo(l, i) ==
  LET e == db.entries[i]
      pending(a) == Touch(i, [status |-> "PENDING", month |-> 0, auto |-> FALSE, account |-> a])
      wired == TransfersOf(l) # {}
      k == CHOOSE j \in TransfersOf(l) : TRUE
      toTransit == [Tx EXCEPT !.touch = Touch(i, [account |-> transit])]
  IN CASE e.auto /\ wired ->
            Back(k) \o <<[Tx EXCEPT !.move = Move(e.account, -Sign(e) * e.gross)]>> \o Untaxed(l, TRUE)
            \o <<[Tx EXCEPT !.touch = pending(e.account)]>>
       [] e.auto /\ ~wired ->
            <<[Tx EXCEPT !.move = Move(Bank, -LineAmount[l])]>> \o Untaxed(l, FALSE)
            \o <<[Tx EXCEPT !.touch = pending(NoAccount)]>>
       [] ~e.auto /\ wired ->
            Back(k) \o Untaxed(l, TRUE)
            \o (IF e.account = Bank /\ transit # NoAccount THEN <<toTransit>> ELSE <<>>)
       [] ~e.auto /\ ~wired /\ e.account = Bank /\ transit # NoAccount ->
            (IF IsCredit(l)
               THEN <<[Tx EXCEPT !.move = Move(Bank, -Magnitude(l))], [Tx EXCEPT !.move = Move(transit, Magnitude(l))]>>
               ELSE <<[Tx EXCEPT !.move = Move(Bank, Magnitude(l))], [Tx EXCEPT !.move = Move(transit, -Magnitude(l))]>>)
            \o <<toTransit>>
       [] OTHER -> <<>>

UnmatchLine(r, l) ==
  LET i == db.lines[l].entry
  IN /\ db.lines[l].status = "MATCHED"
     /\ ~IsClosed(Bank, LineMonth[l])
     /\ Begin(r, "unmatchLine",
          ReadLine(l) \cup {<<"entry", j>> : j \in {i} \cup TaxesOf(l)} \cup {<<"wire", k>> : k \in TransfersOf(l)},
          Undo(l, i) \o <<[Tx EXCEPT !.line = [k \in {l} |-> [status |-> "UNMATCHED", entry |-> 0]]]>>,
          NoPay)

(* ignoreLine looks at nothing and leaves the matched entry's id.          *)
IgnoreLine(r, l) ==
  Once(r, "ignoreLine", {<<"line", l>>}, [Tx EXCEPT !.line = [k \in {l} |-> [status |-> "IGNORED"]]])

UnignoreLine(r, l) ==
  /\ db.lines[l].status = "IGNORED"
  /\ Once(r, "unignoreLine", {<<"line", l>>}, [Tx EXCEPT !.line = [k \in {l} |-> [status |-> "UNMATCHED"]]])

LineNext(r) ==
  \E l \in Line :
    \/ \E i \in DOMAIN db.entries, tax \in Amount \cup {0} : MatchLine(r, l, i, tax)
    \/ UnmatchLine(r, l)
    \/ IgnoreLine(r, l)
    \/ UnignoreLine(r, l)
=============================================================================
