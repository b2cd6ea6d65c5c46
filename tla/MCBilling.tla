------------------------------ MODULE MCBilling ------------------------------
(* Instances of Billing for TLC.                                           *)
EXTENDS Billing

(* A tenant that has not signed up yet, and one that pays for a plan.      *)
Gate(n) == [subs |-> [x \in 1 .. n |-> TRUE], bills |-> <<>>, post |-> {}]
Provisioned(plan) ==
  [db |-> [subs |-> <<>>, tenant |-> [status |-> "PENDING_VERIFICATION", plan |-> plan],
           companies |-> <<>>, purchases |-> <<>>], asaas |-> Gate(0)]
Subscribed(plan) ==
  [db |-> [subs |-> <<Subscription("ACTIVE", plan, 1)>>, tenant |-> [status |-> "ACTIVE", plan |-> plan],
           companies |-> <<plan>>, purchases |-> <<>>], asaas |-> Gate(1)]

(* One whose add-on is about to end; one that asked for a cheaper plan,    *)
(* which is due; one with both.  The gateway could not be made to charge   *)
(* those with an add-on.                                                   *)
WithAddOn(plan) ==
  [Subscribed(plan) EXCEPT !.db.companies = <<plan + AddOn>>,
                           !.db.purchases = <<[Purchase(1) EXCEPT !.status = "PAID", !.due = TRUE]>>]
Asked(s, next) == [s EXCEPT !.db.subs[1].pending = next, !.db.subs[1].due = TRUE]
Leaving(plan, next) == Asked(Subscribed(plan), next)
Uncharged(s) == [s EXCEPT !.db.subs[1].ext = None, !.asaas = Gate(0)]
LeavingWithAddOn(plan, next) == Uncharged(Asked(WithAddOn(plan), next))
(* One whose subscription the gateway has not announced yet.               *)
Unannounced(plan) == [Subscribed(plan) EXCEPT !.asaas.post = {Message("SUBSCRIPTION_CREATED", 1)}]
MCFirstStates == {Provisioned(1), Uncharged(WithAddOn(1)), Leaving(2, 1), LeavingWithAddOn(2, 1)}
LateStates == {Provisioned(1), Unannounced(1)}

AllHandlers == {"subscribe", "upgrade", "downgrade", "cancelDowngrade", "buyAddOn"} \cup Cron
LateHandlers == {"subscribe", "upgrade", "checkOverdueSubscriptions"}

RequestSymmetry == Permutations(Request)
=============================================================================
