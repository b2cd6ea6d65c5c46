----------------------------- MODULE OrderState -----------------------------
(***************************************************************************)
(* The database rows that belong to ONE service order ("OS"), and the      *)
(* shape every handler of the backend has: read some rows, check them,     *)
(* compute the update from what was read, await, write.                    *)
(*                                                                         *)
(* The handlers run as concurrent HTTP requests over PostgreSQL at READ    *)
(* COMMITTED, and no handler locks a row it reads.  So a request here is a *)
(* list of transactions still to run ("todo"), each of which was computed  *)
(* from an earlier read; ReadEntries and Commit run them one at a time and *)
(* the requests interleave between those steps.                            *)
(***************************************************************************)
EXTENDS OrderStatus, Integers, Sequences

CONSTANTS Tech,        \* technicians (Partner rows of type TECNICO)
          NoTech,      \* the null of a technician column
          Offer,       \* the public links that can be created for the order
          Request,     \* the HTTP requests that can be in flight at once
          Handlers,    \* the handlers this instance exercises (names below)
          MaxEntries,  \* bound: entries after which no creating request starts
          MaxOtp       \* bound: unconsumed codes of one technician

ASSUME NoTechAssumption == NoTech \notin Tech
ASSUME BoundAssumption == MaxEntries \in Nat /\ MaxOtp \in Nat

VARIABLES os,          \* the ServiceOrder row
          offers,      \* ServiceOrderOffer rows, by link
          otps,        \* unconsumed OtpCode rows for this order, by technician
          ledger,      \* does the order have its ServiceOrderLedger row
          entries,     \* FinancialEntry rows of the order, in creation order
          req          \* the requests in flight

vars == <<os, offers, otps, ledger, entries, req>>

----------------------------------------------------------------------------
(* Columns.  Of a timestamp only whether it is set is modelled.            *)

Timestamp == {"null", "set"}

Column == [status      |-> Status,
           assigned    |-> Tech \cup {NoTech}, \* assignedPartnerId
           directed    |-> Tech \cup {NoTech}, \* directedTechnicianIds[0]
           acceptedAt  |-> Timestamp,
           enRouteAt   |-> Timestamp,
           arrivedAt   |-> Timestamp,
           completedAt |-> Timestamp,
           deletedAt   |-> Timestamp]

EntryType == {"RECEIVABLE", "PAYABLE"}
EntryColumn == [type      |-> EntryType,
                status    |-> {"PENDING", "CONFIRMED", "PAID", "CANCELLED"},
                origin    |-> {"launch", "settlement"}, \* created with the ledger row?
                deletedAt |-> Timestamp]

IsSeq(s) == s \in Seq({s[k] : k \in DOMAIN s})
IsRowOf(C, row) == DOMAIN row = DOMAIN C /\ \A f \in DOMAIN C : row[f] \in C[f]
IsPatchOf(C, p) == DOMAIN p \subseteq DOMAIN C /\ \A f \in DOMAIN p : p[f] \in C[f]

(* prisma.update({ data }): the named columns change, the others stay.     *)
Patched(row, p) == [f \in DOMAIN row |-> IF f \in DOMAIN p THEN p[f] ELSE row[f]]

----------------------------------------------------------------------------
(* Transactions and requests *)

Nothing == [f \in {} |-> FALSE]

(* A transaction a handler has decided to run.                             *)
(*   set     update of the order's row                                     *)
(*   touch   updates of entries, by position in `entries`                  *)
(*   ask     entry types the caller asked for; make those to create; born  *)
(*           their status                                                  *)
(*   ledger  insert the ServiceOrderLedger row (serviceOrderId is @unique)  *)
(*   revoke  links whose revokedAt is set; otp: whose code is consumed     *)
(*   serial  runs at isolation level Serializable                          *)
(*   read    the entries are read once more before the transaction:        *)
(*           "skip" drops the types that exist, "refuse" gives up if an    *)
(*           asked one exists, "open" collects the open entries to cancel  *)
Tx == [set |-> Nothing, touch |-> Nothing, ask |-> {}, make |-> {},
       born |-> "PENDING", ledger |-> FALSE, revoke |-> {}, otp |-> NoTech,
       serial |-> FALSE, read |-> "none"]

Update(p) == [Tx EXCEPT !.set = p]

IsTx(x) ==
  /\ DOMAIN x = DOMAIN Tx
  /\ IsPatchOf(Column, x.set)
  /\ \A i \in DOMAIN x.touch : /\ DOMAIN x.touch[i] \subseteq {"status", "deletedAt"}
                               /\ IsPatchOf(EntryColumn, x.touch[i])
  /\ x.ask \subseteq EntryType /\ x.make \subseteq EntryType
  /\ x.born \in EntryColumn.status
  /\ x.ledger \in BOOLEAN /\ x.serial \in BOOLEAN
  /\ x.revoke \subseteq Offer /\ x.otp \in Tech \cup {NoTech}
  /\ x.read \in {"none", "skip", "refuse", "open"}

(* stale: what a Serializable transaction has read and another transaction *)
(* has overwritten since; PostgreSQL then refuses its own write of it.     *)
Idle == [op |-> "idle", todo |-> <<>>, stale |-> {}]

IsRequest(q) ==
  /\ DOMAIN q = DOMAIN Idle
  /\ q.op \in Handlers \cup {"idle"}
  /\ q.stale \subseteq {"row", "offers"}
  /\ IsSeq(q.todo)
  /\ \A k \in DOMAIN q.todo : IsTx(q.todo[k])

Busy(r) == req[r].todo # <<>>
Pending(r) == Head(req[r].todo)

(* The handler's first read is done and its checks passed.                 *)
Begin(r, op, todo) ==
  /\ op \in Handlers
  /\ ~Busy(r)
  /\ req' = [req EXCEPT ![r] = [op |-> op, todo |-> todo, stale |-> {}]]
  /\ UNCHANGED <<os, offers, otps, ledger, entries>>

(* An exception or an aborted transaction: the request is answered with an *)
(* error and nothing of the transaction stays.                             *)
GiveUp(r) ==
  /\ req' = [req EXCEPT ![r] = Idle]
  /\ UNCHANGED <<os, offers, otps, ledger, entries>>

----------------------------------------------------------------------------
(* Mutants: an existing entry is a pending one; an open one is pending.    *)
ExistingPending == {entries[i].type : i \in {j \in DOMAIN entries : entries[j].status = "PENDING"}}
OpenPending == {i \in DOMAIN entries : entries[i].status = "PENDING" /\ entries[i].deletedAt = "null"}

(* What exists: the query leaves CANCELLED (and SPLIT) out, but not the    *)
(* soft-deleted ones.                                                      *)
Existing == {entries[i].type : i \in {j \in DOMAIN entries : entries[j].status # "CANCELLED"}}
Open == {i \in DOMAIN entries : /\ entries[i].status \in {"PENDING", "CONFIRMED"}
                                /\ entries[i].deletedAt = "null"}

ReadEntries(r) ==
  /\ Busy(r)
  /\ LET x == Pending(r)
         Continue(y) ==
           /\ req' = [req EXCEPT ![r].todo = <<[y EXCEPT !.read = "none"]>> \o Tail(@)]
           /\ UNCHANGED <<os, offers, otps, ledger, entries>>
     IN \/ x.read = "skip" /\ Continue([x EXCEPT !.make = @ \ Existing])
        \/ x.read = "refuse" /\ x.ask \cap Existing = {} /\ Continue(x)
        \/ x.read = "refuse" /\ x.ask \cap Existing # {} /\ GiveUp(r)
        \/ x.read = "open" /\ Continue([x EXCEPT !.touch = [i \in Open |-> [status |-> "CANCELLED"]]])

----------------------------------------------------------------------------
(* Transactions commit one at a time.                                      *)

Created(x) ==
  LET Of(t) == IF t \in x.make
                 THEN <<[type |-> t, status |-> x.born, deletedAt |-> "null",
                         origin |-> IF x.ledger THEN "settlement" ELSE "launch"]>>
                 ELSE <<>>
  IN Of("RECEIVABLE") \o Of("PAYABLE")

(* Mutants: the unique index dropped; the isolation level left at READ     *)
(* COMMITTED.                                                              *)
FailsWithoutUniqueIndex(r, x) ==
  \/ x.serial /\ x.set # Nothing /\ "row" \in req[r].stale
  \/ x.serial /\ x.revoke # {} /\ "offers" \in req[r].stale

FailsReadCommitted(r, x) == x.ledger /\ ledger

(* The unique index of the ledger, and first-updater-wins for a            *)
(* Serializable transaction, are what makes a transaction fail.            *)
Fails(r, x) ==
  \/ x.ledger /\ ledger
  \/ x.serial /\ x.set # Nothing /\ "row" \in req[r].stale
  \/ x.serial /\ x.revoke # {} /\ "offers" \in req[r].stale

Overwritten(x) == (IF x.set # Nothing THEN {"row"} ELSE {})
             \cup (IF \E o \in x.revoke : offers[o] \in {"active", "expired"} THEN {"offers"} ELSE {})

InSerial(q) == q.todo # <<>> /\ Head(q.todo).serial

Apply(r, x) ==
  /\ os' = Patched(os, x.set)
  /\ offers' = [o \in Offer |-> IF o \in x.revoke /\ offers[o] \in {"active", "expired"}
                                  THEN "revoked" ELSE offers[o]]
  /\ otps' = IF x.otp = NoTech THEN otps ELSE [otps EXCEPT ![x.otp] = @ - 1]
  /\ ledger' = (ledger \/ x.ledger)
  /\ entries' = [i \in DOMAIN entries |-> IF i \in DOMAIN x.touch
                                            THEN Patched(entries[i], x.touch[i])
                                            ELSE entries[i]] \o Created(x)
  /\ req' = [q \in Request |->
               IF q = r
                 THEN IF Tail(req[r].todo) = <<>> THEN Idle
                      ELSE [req[r] EXCEPT !.todo = Tail(@)]
                 ELSE IF InSerial(req[q])
                        THEN [req[q] EXCEPT !.stale = @ \cup Overwritten(x)]
                        ELSE req[q]]

Commit(r) ==
  /\ Busy(r)
  /\ LET x == Pending(r)
     IN /\ x.read = "none"
        /\ \/ Fails(r, x) /\ GiveUp(r)
           \/ ~Fails(r, x) /\ Apply(r, x)
=============================================================================
