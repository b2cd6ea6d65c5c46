----------------------------- MODULE OfferPortal -----------------------------
(***************************************************************************)
(* The technician's public link (backend/src/public-offer): links and      *)
(* codes are created, a technician accepts directly or with a one-time     *)
(* code, sets out, arrives, or declines.                                   *)
(***************************************************************************)
EXTENDS OrderState

PortalHandlers == {"createOffer", "requestOtp", "acceptDirect", "acceptWithOtp",
                   "markEnRoute", "markArrived", "declineAfterAccept"}

AcceptHandlers == {"acceptDirect", "acceptWithOtp"}

(* ARRIVAL_QUESTION.onDecline of the workflow attached to the order.       *)
OnDecline == {"return_offered", "reassign", "cancel", "notify_gestor"}

Available == os.deletedAt = "null" /\ os.status # "CANCELADA"

(* A link is one insert; nothing of the order is looked at.                *)
CreateOffer(o) ==
  /\ "createOffer" \in Handlers
  /\ offers[o] = "none"
  /\ offers' = [offers EXCEPT ![o] = "active"]
  /\ UNCHANGED <<os, otps, ledger, entries, req>>

(* expiresAt passes.                                                       *)
ExpireOffer(o) ==
  /\ offers[o] = "active"
  /\ offers' = [offers EXCEPT ![o] = "expired"]
  /\ UNCHANGED <<os, otps, ledger, entries, req>>

RequestOtp(o, t) ==
  /\ "requestOtp" \in Handlers
  /\ offers[o] = "active" /\ Available
  /\ otps[t] < MaxOtp
  /\ otps' = [otps EXCEPT ![t] = @ + 1]
  /\ UNCHANGED <<os, offers, ledger, entries, req>>

(* Mutant: acceptDirect at the default isolation level. *)
AcceptDirectReadCommitted(r, o) ==
  LET Accept(p) == Begin(r, "acceptDirect",
                     <<[Tx EXCEPT !.set = p, !.revoke = {l \in Offer : offers[l] # "none"}]>>)
  IN /\ offers[o] = "active"
     /\ \/ /\ os.assigned # NoTech /\ os.acceptedAt = "null"
           /\ Accept([acceptedAt |-> "set", status |-> "ATRIBUIDA"])
        \/ /\ os.assigned = NoTech /\ os.directed # NoTech
           /\ Accept([assigned |-> os.directed, acceptedAt |-> "set", status |-> "ATRIBUIDA"])
        \/ /\ os.assigned # NoTech /\ os.acceptedAt = "set"
           /\ Accept(Nothing)

(* acceptDirect: a Serializable transaction.  It looks at the link and at  *)
(* who is assigned, never at the order's status or deletion; an order that *)
(* is assigned and accepted already only has its links revoked.  The links *)
(* revoked are those of its snapshot.                                      *)
AcceptDirect(r, o) ==
  LET Accept(p) == Begin(r, "acceptDirect",
                     <<[Tx EXCEPT !.set = p, !.serial = TRUE,
                                  !.revoke = {l \in Offer : offers[l] # "none"}]>>)
  IN /\ offers[o] = "active"
     /\ \/ /\ os.assigned # NoTech /\ os.acceptedAt = "null"
           /\ Accept([acceptedAt |-> "set", status |-> "ATRIBUIDA"])
        \/ /\ os.assigned = NoTech /\ os.directed # NoTech
           /\ Accept([assigned |-> os.directed, acceptedAt |-> "set", status |-> "ATRIBUIDA"])
        \/ /\ os.assigned # NoTech /\ os.acceptedAt = "set"
           /\ Accept(Nothing)

(* acceptWithOtp by technician t with the right code: Serializable, and    *)
(* the update of the order is conditional.  With a wrong code nothing      *)
(* stays: the attempt it counts is rolled back with the transaction.       *)
AcceptWithOtp(r, o, t) ==
  /\ offers[o] = "active"
  /\ otps[t] > 0
  /\ os.deletedAt = "null" /\ os.status = "ABERTA" /\ os.assigned = NoTech /\ os.acceptedAt = "null"
  /\ Begin(r, "acceptWithOtp",
       <<[Tx EXCEPT !.set = [assigned |-> t, acceptedAt |-> "set", status |-> "ATRIBUIDA"],
                    !.otp = t, !.serial = TRUE,
                    !.revoke = {l \in Offer : offers[l] # "none"}]>>)

(* markEnRoute: a used link, or an active one where the flow has no accept *)
(* step; nothing more to do once enRouteAt is set.                         *)
MarkEnRoute(r, o) ==
  /\ offers[o] \in {"revoked", "active"}
  /\ Available
  /\ os.enRouteAt = "null"
  /\ Begin(r, "markEnRoute",
       <<Update(IF os.status = "ATRIBUIDA" THEN [enRouteAt |-> "set", status |-> "A_CAMINHO"]
                                           ELSE [enRouteAt |-> "set"])>>)

(* markArrived: autoStart is the workflow's arrivalButton.autoStartExecution. *)
MarkArrived(r, o, autoStart) ==
  /\ offers[o] = "revoked"
  /\ Available
  /\ os.arrivedAt = "null"
  /\ Begin(r, "markArrived",
       <<Update(IF autoStart /\ os.status \in {"ATRIBUIDA", "A_CAMINHO"}
                  THEN [arrivedAt |-> "set", status |-> "EM_EXECUCAO"]
                  ELSE [arrivedAt |-> "set"])>>)

DeclineAfterAccept(r, o, onDecline) ==
  /\ offers[o] = "revoked"
  /\ Available
  /\ os.assigned # NoTech
  /\ Begin(r, "declineAfterAccept",
       <<Update(CASE onDecline = "return_offered" ->
                       [status |-> "OFERTADA", assigned |-> NoTech, acceptedAt |-> "null"]
                  [] onDecline = "reassign" ->
                       [status |-> "ABERTA", assigned |-> NoTech, acceptedAt |-> "null"]
                  [] onDecline = "cancel" -> [status |-> "CANCELADA"]
                  [] onDecline = "notify_gestor" -> Nothing)>>)

LinkNext == \E o \in Offer :
  \/ CreateOffer(o)
  \/ ExpireOffer(o)
  \/ \E t \in Tech : RequestOtp(o, t)

PortalNext(r) == \E o \in Offer :
  \/ AcceptDirect(r, o)
  \/ \E t \in Tech : AcceptWithOtp(r, o, t)
  \/ MarkEnRoute(r, o)
  \/ \E autoStart \in BOOLEAN : MarkArrived(r, o, autoStart)
  \/ \E onDecline \in OnDecline : DeclineAfterAccept(r, o, onDecline)
=============================================================================
