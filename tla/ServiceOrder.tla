---------------------------- MODULE ServiceOrder ----------------------------
(***************************************************************************)
(* One service order with every handler of the desk, the technician's link *)
(* and the money running against its rows, and what must hold of it.       *)
(***************************************************************************)
EXTENDS OrderDesk, OfferPortal, OrderMoney

AllHandlers == DeskHandlers \cup PortalHandlers \cup MoneyHandlers

ASSUME HandlersAssumption == Handlers \subseteq AllHandlers

(* create: the order is born ABERTA, unassigned, perhaps directed.         *)
Init ==
  /\ \E d \in Tech \cup {NoTech} :
       os = [status |-> "ABERTA", deletedAt |-> "null", assigned |-> NoTech, directed |-> d,
             acceptedAt |-> "null", enRouteAt |-> "null", arrivedAt |-> "null", completedAt |-> "null"]
  /\ offers = [o \in Offer |-> "none"]
  /\ otps = [t \in Tech |-> 0]
  /\ ledger = FALSE
  /\ entries = <<>>
  /\ req = [r \in Request |-> Idle]

Next ==
  \/ LinkNext
  \/ \E r \in Request : \/ DeskNext(r)
                        \/ PortalNext(r)
                        \/ MoneyNext(r)
                        \/ ReadEntries(r)
                        \/ Commit(r)

Spec == Init /\ [][Next]_vars

----------------------------------------------------------------------------
(* Every row keeps its columns, every request is a list of transactions,   *)
(* and no code is consumed twice.                                          *)
TypeOK ==
  /\ IsRowOf(Column, os)
  /\ offers \in [Offer -> {"none", "active", "expired", "revoked"}]
  /\ otps \in [Tech -> 0 .. MaxOtp]
  /\ ledger \in BOOLEAN
  /\ IsSeq(entries)
  /\ \A i \in DOMAIN entries : IsRowOf(EntryColumn, entries[i])
  /\ DOMAIN req = Request /\ \A r \in Request : IsRequest(req[r])

----------------------------------------------------------------------------
(* Properties of every interleaving of requests *)

Bills == {i \in DOMAIN entries : entries[i].origin = "settlement"}

(* However finalize, approveAndFinalize and confirm race, the order is     *)
(* billed by one settlement only: no entry of a settlement without the     *)
(* ledger row, and never two of one type.  The unique index on the ledger, *)
(* hit inside the transaction that creates the entries, is what does it.   *)
SettledOnce ==
  /\ Bills # {} => ledger
  /\ \A i, j \in Bills : entries[i].type = entries[j].type => i = j

(* The settlement is a settlement in the sense of module Settlement.       *)
SettlementBills == {[id |-> i, type |-> entries[i].type] : i \in Bills}
S == INSTANCE Settlement WITH settled <- ledger, bills <- SettlementBills
SettlementSpec == S!Spec

(* An accepted order has its technician: acceptedAt is never set on a row  *)
(* that another request has just taken the technician from.                *)
AcceptedHasTech == os.acceptedAt = "set" => os.assigned # NoTech

(* Accepting through a link never takes the order away from a technician:  *)
(* the acceptance that commits found the order free, or his already,       *)
(* whatever the desk did between its read and its commit.                  *)
AcceptKeepsTech ==
  [][\A r \in Request :
       (req[r].op \in AcceptHandlers /\ req'[r] = Idle) =>
          os.assigned \in {NoTech, os'.assigned}]_vars

----------------------------------------------------------------------------
(* Properties of one request at a time *)

Live(i) == entries[i].status # "CANCELLED"

(* The client is never billed twice: at most one receivable that is not    *)
(* cancelled, whether launched early or by the settlement.                 *)
OneReceivable ==
  \A i, j \in DOMAIN entries :
    (Live(i) /\ Live(j) /\ entries[i].type = "RECEIVABLE" /\ entries[j].type = "RECEIVABLE")
      => i = j

(* An order shown as done has its completion time, through rework          *)
(* (AJUSTE), refusal and reassignment.                                     *)
DoneHasCompletion == os.status \in {"CONCLUIDA", "APROVADA"} => os.completedAt = "set"

(* A cancelled order comes back only by approval, by a link still active   *)
(* or by the confirmation of its technicians: no other handler moves it.   *)
CancelledLeftOnlyBy ==
  [][(os.status = "CANCELADA" /\ os'.status # "CANCELADA") =>
       \E r \in Request : req[r].op \in {"approveAndFinalize", "acceptDirect",
                                         "dispatchNotifications"}]_vars

(* Cancelling the order cancels every entry still open on it.              *)
CancelCascades ==
  [][\A r \in Request :
       (req[r].op = "cancel" /\ req'[r] = Idle) =>
         \A i \in DOMAIN entries' : entries'[i].status \in {"PENDING", "CONFIRMED"}
                                       => entries'[i].deletedAt # "null"]_vars
=============================================================================
