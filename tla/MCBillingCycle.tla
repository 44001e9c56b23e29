-------------------------- MODULE MCBillingCycle ---------------------------
(* An instance of BillingCycle for TLC: the days from 1 January of a common *)
(* year, which is a Thursday.                                               *)
EXTENDS BillingCycle, TLC

CONSTANTS d1, d2

Of(cycle, anchor) == [cycle |-> cycle, anchor |-> anchor]

MCFirstDay == {-30, 1, 32, 60, 91, 121}
MCSetting  == (d1 :> {Of("WEEKLY", 0), Of("BI_WEEKLY", 3), Of("MONTHLY", 0)})
              @@ (d2 :> {Of("WEEKLY", 0)})
MCLate     == (d1 :> {0, 5, 12, 27}) @@ (d2 :> {0})

\* d1 drops from the list of the live and changes his cycle in the first fortnight,
\* d2 lacks a price; nothing is followed once both are billed.
Bounds == /\ d1 \in priced /\ d2 \in listed
          /\ \E d \in Distributor : item[d] # "BILLED"
          /\ d1 \in changed => day <= date + 14
============================================================================
