------------------------------ MODULE OrderDesk ------------------------------
(***************************************************************************)
(* The manager's handlers on a service order: status changes, assignment,  *)
(* cancellation, deletion (backend/src/service-order).  Each action is the *)
(* handler up to its first write: the read, the checks, and the            *)
(* transactions computed from what was read.                               *)
(***************************************************************************)
EXTENDS OrderState

DeskHandlers == {"updateStatus", "assign", "reassign", "cancel", "remove",
                 "dispatchNotifications"}

(* The read of findOne: a deleted order is not found.                      *)
Found == os.deletedAt = "null"

(* Mutant: completedAt is left to finalize.                                *)
UpdateStatusOnly(r, status) ==
  /\ Found
  /\ status \in ALLOWED_TRANSITIONS[os.status]
  /\ Begin(r, "updateStatus", <<Update([status |-> status])>>)

(* updateStatus: the transition is checked against the status read, the    *)
(* write is unconditional, and completedAt is added if it was read null.   *)
UpdateStatus(r, status) ==
  /\ Found
  /\ status \in ALLOWED_TRANSITIONS[os.status]
  /\ Begin(r, "updateStatus",
       <<Update(IF status \in {"CONCLUIDA", "APROVADA"} /\ os.completedAt = "null"
                  THEN [status |-> status, completedAt |-> "set"]
                  ELSE [status |-> status])>>)

Assign(r, t) ==
  /\ Found
  /\ os.status \notin TERMINAL_STATUSES
  /\ Begin(r, "assign",
       <<Update([assigned |-> t, acceptedAt |-> "set", status |-> "ATRIBUIDA"])>>)

(* reassign of a refused order: one transaction revokes every link and     *)
(* starts the order again for the new technician (the step logs it deletes *)
(* belong to the workflow).  On any other order it is assign, which reads  *)
(* and checks again: the Assign action.                                    *)
Reassign(r, t) ==
  /\ Found
  /\ os.status = "RECUSADA"
  /\ Begin(r, "reassign",
       <<[Tx EXCEPT !.revoke = Offer,
                    !.set = [assigned |-> t, status |-> "ABERTA", acceptedAt |-> "null",
                             enRouteAt |-> "null", arrivedAt |-> "null", completedAt |-> "null"]]>>)

(* cancel: the open entries are read after the check and before the        *)
(* transaction that cancels them by id.                                    *)
Cancel(r) ==
  /\ Found
  /\ os.status \notin TERMINAL_STATUSES
  /\ Begin(r, "cancel", <<[Update([status |-> "CANCELADA"]) EXCEPT !.read = "open"]>>)

Remove(r) ==
  /\ Found
  /\ Begin(r, "remove", <<Update([deletedAt |-> "set"])>>)

(* dispatchNotifications with the confirmed list of technicians: t is its  *)
(* first, alone says it has no other.  Two writes, no look at the status.  *)
DispatchNotifications(r, t, alone) ==
  /\ Found
  /\ alone => t # NoTech
  /\ Begin(r, "dispatchNotifications",
       <<Update([directed |-> t])>> \o
       (IF alone /\ os.assigned = NoTech
          THEN <<Update([assigned |-> t, status |-> "ATRIBUIDA", acceptedAt |-> "set"])>>
          ELSE <<>>))

DeskNext(r) ==
  \/ \E status \in Status : UpdateStatus(r, status)
  \/ \E t \in Tech : Assign(r, t)
  \/ \E t \in Tech : Reassign(r, t)
  \/ Cancel(r)
  \/ Remove(r)
  \/ \E t \in Tech \cup {NoTech}, alone \in BOOLEAN : DispatchNotifications(r, t, alone)
=============================================================================
