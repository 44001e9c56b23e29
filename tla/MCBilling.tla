----------------------------- MODULE MCBilling -----------------------------
(* Instances of Billing for TLC.                                           *)
EXTENDS Billing, TLC

CONSTANTS i2, i3, s1, s2, c1, c2, p1, p2, r1, r2, r3

\* Two subscriptions of two customers, delivered on different days, worth 2 each.
MCSubOf      == (i2 :> s1) @@ (i3 :> s2)
MCCustomerOf == (s1 :> c1) @@ (s2 :> c2)
MCDay        == (i2 :> 2) @@ (i3 :> 1)
MCStartDay   == (s1 :> 1) @@ (s2 :> 1)
MCWindow     == {{1, 2}, {2}}
MCCharge     == [S \in SUBSET Item |-> 2 * Cardinality(S)]

\* The instance is the union of two: three calls and one pass on the bill of
\* one item (which rest, pass and item, after the first call), and two passes
\* that make up to three bills before any call.
OneBill   == /\ delivered \subseteq {i2} /\ Len(bills) <= 1
             /\ \A b \in BillIds : bills[b].lines = {i2} /\ bills[b].by = p1
             /\ pass[p1].items \subseteq {i2} /\ pass[p2].pc = "idle"
             /\ Cardinality({r \in Request : op[r].pc # "new"}) > 1 => delivered = {i2} /\ pass[p1].pc = "idle"
OnlyBills == /\ Len(bills) <= 3
             /\ \A r \in Request : op[r].pc = "new"
             /\ \A b \in BillIds : ~bills[b].late
Bounds    == OneBill \/ OnlyBills
============================================================================
