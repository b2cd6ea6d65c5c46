----------------------------- MODULE Settlement -----------------------------
(***************************************************************************)
(* What the settlement of a service order promises, whoever asks for it    *)
(* and however often: it happens at most once, all of it in one step, it   *)
(* bills each side of the order at most once, and what it billed is never  *)
(* billed again or replaced.                                               *)
(***************************************************************************)
CONSTANT EntryType

VARIABLES settled,  \* has the order been settled
          bills     \* the settlement's entries: records with an id and a type

(* One bill for each side at most. *)
OneEach(B) == \A a, b \in B : a.type = b.type => a = b

Init == settled = FALSE /\ bills = {}

Settle ==
  /\ ~settled
  /\ settled' = TRUE
  /\ \A b \in bills' : b.type \in EntryType
  /\ OneEach(bills')

Spec == Init /\ [][Settle]_<<settled, bills>>
=============================================================================
