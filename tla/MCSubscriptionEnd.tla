-------------------------- MODULE MCSubscriptionEnd -------------------------
(* Instances of SubscriptionEnd for TLC.                                   *)
EXTENDS SubscriptionEnd, TLC

Calls == Permutations(Call)

\* The instance is the union of two: one subscription through three end
\* requests and a settlement, and two subscriptions with one end request.
OneSubscription == Len(subs) + Cardinality(InFlight("create")) <= 1
OneEnd          == /\ Len(ends) + Cardinality(InFlight("ask")) <= 1
                   /\ unbilled = {} /\ bills = <<>>
Bounds          == OneSubscription \/ OneEnd
============================================================================
