--------------------------- MODULE MCServiceOrder ---------------------------
(* Instances of ServiceOrder for TLC: the handlers each run exercises.     *)
EXTENDS ServiceOrder, TLC

(* Acceptance through the link against assignment by the desk, and against *)
(* finalize, whose fallback assigns without accepting.                     *)
AcceptanceHandlers == {"createOffer", "requestOtp", "acceptDirect", "acceptWithOtp",
                       "declineAfterAccept", "assign", "dispatchNotifications", "finalize"}

(* The three settlements against each other, early launches, cancellation. *)
SettlementHandlers == {"finalize", "approveAndFinalize", "confirm", "earlyFinancialLaunch",
                       "cancel"}

(* The order's life, desk and link together, up to its settlement. *)
LifeHandlers == DeskHandlers \cup PortalHandlers \cup {"finalize", "approveAndFinalize"}

(* The entries' life, with what the order's own handlers do to them. *)
MoneyLifeHandlers == MoneyHandlers \cup {"updateStatus", "assign", "cancel", "remove"}

TechSymmetry == Permutations(Tech)
Symmetry == Permutations(Tech) \cup Permutations(Offer) \cup Permutations(Request)
=============================================================================
