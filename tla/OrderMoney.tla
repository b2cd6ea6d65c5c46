------------------------------ MODULE OrderMoney ------------------------------
(***************************************************************************)
(* The money of a service order: entries launched early, the settlement    *)
(* (ledger row and entries) that finalize, approveAndFinalize or confirm   *)
(* create, and the entries' own life in the finance screens.  The order    *)
(* has a client, a value and a commission, so that every type is billable; *)
(* amounts, cash accounts and card settlements are left out.               *)
(***************************************************************************)
EXTENDS OrderState

MoneyHandlers == {"earlyFinancialLaunch", "finalize", "approveAndFinalize", "confirm",
                  "pay", "reverse", "cancelEntry", "deleteEntry"}

(* The technician is paid only if there is one.                            *)
Payable(types, assigned) == IF assigned = NoTech THEN types \ {"PAYABLE"} ELSE types

(* earlyFinancialLaunch: the entries are born paid; a type that exists is  *)
(* refused, by a read that precedes the transaction.                       *)
EarlyFinancialLaunch(r, types) ==
  /\ os.deletedAt = "null" /\ os.status # "CANCELADA"
  /\ types # {}
  /\ Len(entries) < MaxEntries
  /\ Begin(r, "earlyFinancialLaunch",
       <<[Tx EXCEPT !.ask = types, !.make = Payable(types, os.assigned),
                    !.born = "PAID", !.read = "refuse"]>>)

(* finalize: an order without technician first gets the directed one, in a *)
(* write of its own; the settlement skips the types that exist.            *)
Finalize(r) ==
  /\ os.deletedAt = "null" /\ os.status # "CANCELADA" /\ ~ledger
  /\ os.assigned = NoTech => os.directed # NoTech
  /\ Begin(r, "finalize",
       (IF os.assigned = NoTech THEN <<Update([assigned |-> os.directed])>> ELSE <<>>) \o
       <<[Tx EXCEPT !.set = [status |-> "CONCLUIDA", completedAt |-> "set"],
                    !.make = EntryType, !.ledger = TRUE, !.read = "skip"]>>)

(* approveAndFinalize: the ledger is all it checks; the caller may leave   *)
(* types out.                                                              *)
ApproveAndFinalize(r, types) ==
  /\ os.deletedAt = "null" /\ ~ledger
  /\ Begin(r, "approveAndFinalize",
       <<[Tx EXCEPT !.set = [status |-> "APROVADA", completedAt |-> "set"],
                    !.make = Payable(types, os.assigned), !.ledger = TRUE, !.read = "skip"]>>)

(* finance.confirm: ledger and a confirmed payable; no other entry is      *)
(* looked at, nor the order's status or deletion.                          *)
Confirm(r) ==
  /\ ~ledger
  /\ Begin(r, "confirm", <<[Tx EXCEPT !.make = {"PAYABLE"}, !.born = "CONFIRMED", !.ledger = TRUE]>>)

(* changeEntryStatus: the transition is checked on the entry read, the     *)
(* write is by id.  REVERSED is an alias: the entry is pending again.      *)
allowedTransitions ==
  [PENDING |-> {"PAID", "CANCELLED"}, CONFIRMED |-> {"PAID", "CANCELLED"},
   PAID |-> {"REVERSED"}, CANCELLED |-> {}]

HandlerOf == [PAID |-> "pay", CANCELLED |-> "cancelEntry", REVERSED |-> "reverse"]

ChangeEntryStatus(r, i, to) ==
  /\ entries[i].deletedAt = "null"
  /\ to \in allowedTransitions[entries[i].status]
  /\ Begin(r, HandlerOf[to],
       <<[Tx EXCEPT !.touch = [j \in {i} |->
            [status |-> IF to = "REVERSED" THEN "PENDING" ELSE to]]]>>)

DeleteEntry(r, i) ==
  /\ entries[i].deletedAt = "null"
  /\ os.status \notin {"CONCLUIDA", "APROVADA"}
  /\ Begin(r, "deleteEntry", <<[Tx EXCEPT !.touch = [j \in {i} |-> [deletedAt |-> "set"]]]>>)

MoneyNext(r) ==
  \/ \E types \in SUBSET EntryType : EarlyFinancialLaunch(r, types)
  \/ Finalize(r)
  \/ \E types \in SUBSET EntryType : ApproveAndFinalize(r, types)
  \/ Confirm(r)
  \/ \E i \in DOMAIN entries, to \in DOMAIN HandlerOf : ChangeEntryStatus(r, i, to)
  \/ \E i \in DOMAIN entries : DeleteEntry(r, i)
=============================================================================
