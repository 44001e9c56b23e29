----------------------------- MODULE MCCatalog ------------------------------
(* Instances of Catalog for TLC: everything that happens to one product,   *)
(* or a second one beside it that a subscription may be moved away from.   *)
EXTENDS Catalog, TLC

CONSTANTS milk, ghee

DistributorsAndCalls == Permutations(Distributor) \cup Permutations(Call)

Alone == product[ghee] = NoRow /\ \A c \in Call : call[c].goal # "switch"

\* Ghee is global, sold and left alone; milk gets one price, is not reviewed, and
\* only a subscription moved away from ghee is one to milk.
Beside ==
  /\ product[ghee] = [NoRow EXCEPT !.scope = "GLOBAL", !.active = TRUE]
  /\ \A s \in 1 .. Len(sub) : sub[s].p = ghee \/ sub[s].by = "customer"
  /\ \A i \in 1 .. Len(price) : i = 1 /\ price[i].p = milk
  /\ \A e \in enabled : e[2] = milk
  /\ \A c \in Call : /\ call[c].goal \notin {"customer", "review"}
                     /\ call[c].p = ghee <=> call[c].goal = "distributor"
  /\ product[milk].promo = "PRIVATE" \/ Scope(milk) # "DISTRIBUTOR"
  /\ restored = {}

Bounds == Alone \/ Beside
============================================================================
