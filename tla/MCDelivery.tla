----------------------------- MODULE MCDelivery ----------------------------
(* Instances of Delivery for TLC.                                          *)
EXTENDS Delivery, TLC

CONSTANTS m1, am, pm, milk

Row(active, slot, product, want) ==
  [active |-> active, slot |-> slot, product |-> product, want |-> want]

\* One slot: served, served more, paused.
PlanOfQty == {Row(TRUE, am, milk, 1), Row(TRUE, am, milk, 2), Row(TRUE, am, milk, 0)}

\* Two slots: served in the one, served more in the other, ended.
PlanOfSlots == {Row(TRUE, am, milk, 1), Row(TRUE, pm, milk, 2), Row(FALSE, am, milk, 1)}

Calls == Permutations(Call)

\* The instance is the union of two: generations and journeys of two slots
\* while the subscription changes, and every other handler on one item.
Goals     == {call[c].goal : c \in Call}
Lists     == /\ Goals \subseteq {"none", "generate", "journey"}
             /\ ~away /\ ~muddled /\ raced = {}
             /\ \A k \in DOMAIN item : item[k].status = "PENDING" /\ item[k].delivered = Unset
OneItem   == /\ sub[m1] = Row(TRUE, am, milk, 1)
             /\ \A k \in DOMAIN item : item[k].planned = 1 /\ item[k].slot = am
             /\ \A k \in DOMAIN item : item[k].delivered \in {Unset, 1}
             /\ ~fresh /\ "journey" \notin Goals /\ run[pm] = "none"
             /\ run[am] \in {"none", "GENERATED"}
             /\ \A c \in Call : Generating(c) => \A s \in DOMAIN call[c].snap : call[c].snap[s] = sub[s]
             /\ \A c \in Call : call[c].slots \in {{}, {am}} /\ call[c].qty \in {Unset, 1}
Bounds    == Lists \/ OneItem
============================================================================
