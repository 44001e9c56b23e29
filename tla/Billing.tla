------------------------------ MODULE Billing ------------------------------
(***************************************************************************)
(* One distributor's billing.service.ts.  Every handler is a sequence of   *)
(* awaited queries outside a transaction, so it is modelled as a process   *)
(* with one step per query that others can observe:                        *)
(*                                                                         *)
(*  - a Pass is a runCycle (endpoint or 1 AM cron) or a                    *)
(*    createSettlementBill: it reads the unbilled delivered items, then    *)
(*    writes bills from what it read;                                      *)
(*  - a Request is one recordPayment, addAdjustment or voidBill call: it   *)
(*    reads the bill, writes its own row, then writes the bill back from   *)
(*    what it read.                                                        *)
(*                                                                         *)
(* A step may fail at any await; nothing is rolled back.                   *)
(***************************************************************************)
EXTENDS Integers, Sequences, FiniteSets, FiniteSetsExt

CONSTANTS
  Item,        \* delivery items (one subscription, product and date each)
  Sub,         \* subscriptions
  Customer,
  SubOf,       \* the subscription an item belongs to
  CustomerOf,  \* the customer a subscription belongs to
  Day,         \* the delivery date of an item, as a day number
  StartDay,    \* billingActivationDate ?? startDate of a subscription
  Window,      \* the sets of days getCycleWindow can return
  Charge,      \* what resolveUnitPrice and sumDecimals make of a set of items
  Pass,        \* billing passes that may be in flight together
  Request,     \* ledger calls, each served once
  Amount,      \* amounts a call may carry (the DTOs ask for at least 0.01)
  ComesDue     \* ids of the bills whose due date falls in the time modelled

Money == Int

ASSUME BillingConstants ==
  /\ IsFiniteSet(Item)
  /\ SubOf \in [Item -> Sub]
  /\ CustomerOf \in [Sub -> Customer]
  /\ Day \in [Item -> Nat]
  /\ StartDay \in [Sub -> Nat]
  /\ Window \subseteq SUBSET Nat
  /\ Charge \in [SUBSET Item -> Nat]
  /\ Amount \subseteq Nat \ {0}
  /\ ComesDue \subseteq Nat

VARIABLES
  delivered,   \* items whose status is DELIVERED
  bills,       \* bill rows in creation order; a bill's index is its id
  pass,        \* local state of each billing pass
  op,          \* local state of each ledger call
  contended    \* history: <<kind, bill>> whose calls overlapped or failed midway

vars == <<delivered, bills, pass, op, contended>>

BillStatus == {"ISSUED", "PARTIALLY_PAID", "PAID", "OVERDUE", "VOID"}

(***************************************************************************)
(* "received", "credits" and "debits" sum the bill's payments and          *)
(* billAdjustments rows; the code never reads them back.  "seen" is        *)
(* history: how many bills existed when the pass read its items; "by" is   *)
(* the pass.                                                               *)
(***************************************************************************)
Bill == [customer : Customer, lines : SUBSET Item, settlement : BOOLEAN,
         subtotal : Nat, adjustments : Money, total : Money,
         amountPaid : Money, status : BillStatus, late : BOOLEAN,
         received : Money, credits : Nat, debits : Nat, seen : Nat,
         by : Pass]

PassState == [pc : {"idle", "cycle", "period", "settle"},
              items : SUBSET Item, seen : Nat]

(***************************************************************************)
(* base and limit are the columns the handler read: amountPaid and total   *)
(* for a payment, adjustments and subtotal for an adjustment.              *)
(***************************************************************************)
OpState == [pc : {"new", "payRow", "payWrite", "adjRow", "adjWrite",
                  "voidWrite", "done"},
            bill : Nat, amount : Money, base : Money, limit : Money]

BillIds == 1 .. Len(bills)

IdlePass == [pc |-> "idle", items |-> {}, seen |-> 0]
NewOp    == [pc |-> "new", bill |-> 0, amount |-> 0, base |-> 0, limit |-> 0]

TypeOK ==
  /\ delivered \subseteq Item
  /\ bills \in Seq(Bill)
  /\ pass \in [Pass -> PassState]
  /\ op \in [Request -> OpState]
  /\ \A r \in Request : op[r].pc # "new" => op[r].bill \in BillIds
  /\ contended \subseteq {"pay", "adjust"} \X BillIds

Init ==
  /\ delivered = {}
  /\ bills = <<>>
  /\ pass = [p \in Pass |-> IdlePass]
  /\ op = [r \in Request |-> NewOp]
  /\ contended = {}

----------------------------------------------------------------------------
(* Deliveries, as far as billing sees them (delivery.service updateItem).  *)

\* The distributor marks an item delivered, perhaps long after its date.
Deliver(i) ==
  /\ i \notin delivered
  /\ delivered' = delivered \cup {i}
  /\ UNCHANGED <<bills, pass, op, contended>>

\* Only an administrator takes a delivered item back.
AdminRevert(i) ==
  /\ i \in delivered
  /\ delivered' = delivered \ {i}
  /\ UNCHANGED <<bills, pass, op, contended>>

----------------------------------------------------------------------------
(* runCycle and createSettlementBill.                                      *)

\* Slip: only the lines of settlement bills are looked at.
UnbilledByCycle(i) ==
  \A b \in BillIds : i \in bills[b].lines => bills[b].settlement

\* billLineItems: { none: {} } -- the line of a voided bill still counts.
Unbilled(i) == \A b \in BillIds : i \notin bills[b].lines

NewBill(p, c, S, settlement) ==
  [customer |-> c, lines |-> S, settlement |-> settlement,
   subtotal |-> Charge[S], adjustments |-> 0, total |-> Charge[S],
   amountPaid |-> 0, status |-> "ISSUED", late |-> FALSE,
   received |-> 0, credits |-> 0, debits |-> 0, seen |-> pass[p].seen, by |-> p]

OwnerOf(i) == CustomerOf[SubOf[i]]

Without(ps, S) == [ps EXCEPT !.items = @ \ S]

\* The findMany of runCycle: delivered, in the window, on no bill.
CycleRead(p, w) ==
  /\ pass[p].pc = "idle"
  /\ pass' = [pass EXCEPT ![p] =
       [pc |-> "cycle", seen |-> Len(bills),
        items |-> {i \in delivered : Day[i] \in w /\ Unbilled(i)}]]
  /\ UNCHANGED <<delivered, bills, op, contended>>

\* One round of the loop over byCustomer: price the lines, create the bill.
CycleIssue(p, c) ==
  LET mine == {i \in pass[p].items : OwnerOf(i) = c} IN
  /\ pass[p].pc = "cycle"
  /\ mine # {}
  /\ bills' = Append(bills, NewBill(p, c, mine, FALSE))
  /\ pass' = [pass EXCEPT ![p] = Without(@, mine)]
  /\ UNCHANGED <<delivered, op, contended>>

CycleEnd(p) ==
  /\ pass[p].pc = "cycle"
  /\ pass[p].items = {}
  /\ pass' = [pass EXCEPT ![p] = IdlePass]
  /\ UNCHANGED <<delivered, bills, op, contended>>

\* Days of subscription s already on a bill that is not VOID.
BilledDays(s) == {Day[i] : i \in {j \in Item : SubOf[j] = s /\
                    \E b \in BillIds : bills[b].status # "VOID" /\ j \in bills[b].lines}}

PeriodStart(s) == IF BilledDays(s) = {} THEN StartDay[s] ELSE Max(BilledDays(s)) + 1

\* buildSettlementLines, first query: where the settlement period begins.
\* The pass keeps the items that may fall in the period.
SettlePeriod(p, s) ==
  /\ pass[p].pc = "idle"
  /\ pass' = [pass EXCEPT ![p] =
       [pc |-> "period", seen |-> 0,
        items |-> {i \in Item : SubOf[i] = s /\ Day[i] >= PeriodStart(s)}]]
  /\ UNCHANGED <<delivered, bills, op, contended>>

\* Second query: the delivered items of the period that are on no bill.
SettleRead(p) ==
  /\ pass[p].pc = "period"
  /\ pass' = [pass EXCEPT ![p] =
       [pc |-> "settle", seen |-> Len(bills),
        items |-> {i \in @.items : i \in delivered /\ Unbilled(i)}]]
  /\ UNCHANGED <<delivered, bills, op, contended>>

\* One bill with every line, or no bill when there is nothing to settle.
SettleIssue(p) ==
  /\ pass[p].pc = "settle"
  /\ bills' = IF pass[p].items = {} THEN bills
              ELSE Append(bills, NewBill(p, OwnerOf(CHOOSE i \in pass[p].items : TRUE),
                                         pass[p].items, TRUE))
  /\ pass' = [pass EXCEPT ![p] = IdlePass]
  /\ UNCHANGED <<delivered, op, contended>>

\* NO_ACTIVE_PRICING, a failed notification or a crash ends the pass where it
\* stands: bills already created stay, the other customers get none.
PassFails(p) ==
  /\ pass[p].pc # "idle"
  /\ pass' = [pass EXCEPT ![p] = IdlePass]
  /\ UNCHANGED <<delivered, bills, op, contended>>

----------------------------------------------------------------------------
(* recordPayment, addAdjustment, voidBill.                                 *)

Running(kind, b) ==
  {r \in Request : op[r].bill = b /\
     op[r].pc \in IF kind = "pay" THEN {"payRow", "payWrite"}
                                  ELSE {"adjRow", "adjWrite"}}

\* History only: a call that starts while another of its kind is in flight.
Contend(kind, b) ==
  contended' = IF Running(kind, b) = {} THEN contended ELSE contended \cup {<<kind, b>>}

At(o, pc) == [o EXCEPT !.pc = pc]

PayRead(r, b, a) ==
  /\ op[r].pc = "new"
  /\ bills[b].status # "VOID"
  /\ op' = [op EXCEPT ![r] = [pc |-> "payRow", bill |-> b, amount |-> a,
                              base |-> bills[b].amountPaid, limit |-> bills[b].total]]
  /\ Contend("pay", b)
  /\ UNCHANGED <<delivered, bills, pass>>

Received(bill, a) == [bill EXCEPT !.received = @ + a]

PayRow(r) ==
  /\ op[r].pc = "payRow"
  /\ bills' = [bills EXCEPT ![op[r].bill] = Received(@, op[r].amount)]
  /\ op' = [op EXCEPT ![r] = At(@, "payWrite")]
  /\ UNCHANGED <<delivered, pass, contended>>

\* Slip: any payment settles the bill.
PaidInFull(o) == o.limit

NewPaid(o) == o.base + o.amount

\* Slip: any money makes the bill PAID.
PaidOnceAnything(paid, total) == IF paid > 0 THEN "PAID" ELSE "PARTIALLY_PAID"

\* newPaid is positive, so the bill never keeps the status it had.
PaidStatus(paid, total) == IF paid >= total THEN "PAID" ELSE "PARTIALLY_PAID"

Paid(bill, o) ==
  [bill EXCEPT !.amountPaid = NewPaid(o), !.status = PaidStatus(NewPaid(o), o.limit)]

PayWrite(r) ==
  /\ op[r].pc = "payWrite"
  /\ bills' = [bills EXCEPT ![op[r].bill] = Paid(@, op[r])]
  /\ op' = [op EXCEPT ![r] = At(@, "done")]
  /\ UNCHANGED <<delivered, pass, contended>>

\* d is the signed delta: a CREDIT is negative.  Any status is accepted.
AdjRead(r, b, d) ==
  /\ op[r].pc = "new"
  /\ op' = [op EXCEPT ![r] = [pc |-> "adjRow", bill |-> b, amount |-> d,
                              base |-> bills[b].adjustments, limit |-> bills[b].subtotal]]
  /\ Contend("adjust", b)
  /\ UNCHANGED <<delivered, bills, pass>>

\* The billAdjustments row holds the type and the unsigned amount.
Booked(bill, d) == IF d < 0 THEN [bill EXCEPT !.credits = @ - d]
                            ELSE [bill EXCEPT !.debits = @ + d]

AdjRow(r) ==
  LET d == op[r].amount IN
  /\ op[r].pc = "adjRow"
  /\ bills' = [bills EXCEPT ![op[r].bill] = Booked(@, d)]
  /\ op' = [op EXCEPT ![r] = At(@, "adjWrite")]
  /\ UNCHANGED <<delivered, pass, contended>>

\* Slip: a credit is applied like a debit.
UnsignedAdjustments(o) == IF o.amount < 0 THEN o.base - o.amount ELSE o.base + o.amount

NewAdjustments(o) == o.base + o.amount

NewTotal(o) == o.limit + NewAdjustments(o)

Adjusted(bill, o) ==
  [bill EXCEPT !.adjustments = NewAdjustments(o), !.total = NewTotal(o)]

\* The status column is left alone, whatever the new total is.
AdjWrite(r) ==
  /\ op[r].pc = "adjWrite"
  /\ bills' = [bills EXCEPT ![op[r].bill] = Adjusted(@, op[r])]
  /\ op' = [op EXCEPT ![r] = At(@, "done")]
  /\ UNCHANGED <<delivered, pass, contended>>

WithStatus(bill, st) == [bill EXCEPT !.status = st]

VoidRead(r, b) ==
  /\ op[r].pc = "new"
  /\ bills[b].status # "PAID"
  /\ op' = [op EXCEPT ![r] = [pc |-> "voidWrite", bill |-> b, amount |-> 0, base |-> 0, limit |-> 0]]
  /\ UNCHANGED <<delivered, bills, pass, contended>>

VoidWrite(r) ==
  /\ op[r].pc = "voidWrite"
  /\ bills' = [bills EXCEPT ![op[r].bill] = WithStatus(@, "VOID")]
  /\ op' = [op EXCEPT ![r] = At(@, "done")]
  /\ UNCHANGED <<delivered, pass, contended>>

\* The handler dies between two of its queries.
OpFails(r) ==
  /\ op[r].pc \notin {"new", "done"}
  /\ contended' = contended \cup
       CASE op[r].pc = "payWrite" -> {<<"pay", op[r].bill>>}
         [] op[r].pc = "adjWrite" -> {<<"adjust", op[r].bill>>}
         [] OTHER -> {}
  /\ op' = [op EXCEPT ![r] = At(@, "done")]
  /\ UNCHANGED <<delivered, bills, pass>>

----------------------------------------------------------------------------
(* The due date and the 6 AM cron.                                         *)

PastDue(bill) == [bill EXCEPT !.late = TRUE]

DueDatePasses(b) ==
  /\ b \in ComesDue
  /\ ~bills[b].late
  /\ bills' = [bills EXCEPT ![b] = PastDue(@)]
  /\ UNCHANGED <<delivered, pass, op, contended>>

\* Slips: partly paid bills are overlooked; all but the paid ones are taken.
OverdueFromIssued == {"ISSUED"}
OverdueUnlessPaid == {"ISSUED", "PARTIALLY_PAID", "VOID"}

OverdueFrom == {"ISSUED", "PARTIALLY_PAID"}

\* A single updateMany: every late open bill at once.
MarkOverdue ==
  /\ bills' = [b \in BillIds |->
       IF bills[b].late /\ bills[b].status \in OverdueFrom
       THEN WithStatus(bills[b], "OVERDUE") ELSE bills[b]]
  /\ UNCHANGED <<delivered, pass, op, contended>>

----------------------------------------------------------------------------
PassStep(p) ==
  \/ \E w \in Window : CycleRead(p, w)
  \/ \E c \in Customer : CycleIssue(p, c)
  \/ CycleEnd(p)
  \/ \E s \in Sub : SettlePeriod(p, s)
  \/ SettleRead(p)
  \/ SettleIssue(p)
  \/ PassFails(p)

OpStep(r) ==
  \/ \E b \in BillIds, a \in Amount : PayRead(r, b, a)
  \/ PayRow(r)
  \/ PayWrite(r)
  \/ \E b \in BillIds, d \in Amount \cup {-a : a \in Amount} : AdjRead(r, b, d)
  \/ AdjRow(r)
  \/ AdjWrite(r)
  \/ \E b \in BillIds : VoidRead(r, b)
  \/ VoidWrite(r)
  \/ OpFails(r)

Next ==
  \/ \E i \in Item : Deliver(i) \/ AdminRevert(i)
  \/ \E p \in Pass : PassStep(p)
  \/ \E r \in Request : OpStep(r)
  \/ \E b \in BillIds : DueDatePasses(b)
  \/ MarkOverdue

Spec == Init /\ [][Next]_vars

\* The overdue cron runs every day.
FairSpec == Spec /\ WF_vars(MarkOverdue)

----------------------------------------------------------------------------
(* Properties.                                                             *)

\* Whatever calls interleave, a bill's total is its subtotal plus its
\* adjustments: addAdjustment derives both columns from one read.
TotalAddsUp ==
  \A b \in BillIds : bills[b].total = bills[b].subtotal + bills[b].adjustments

\* No money is invented: amountPaid never exceeds the bill's payment rows, not
\* even while recordPayment calls overwrite each other or die halfway.
PaidWithinReceived ==
  \A b \in BillIds : bills[b].amountPaid <= bills[b].received

\* The status column is backed by money: an ISSUED bill has nothing paid, a
\* PARTIALLY_PAID one something, and what a PAID bill was paid covers its
\* subtotal less the credits granted on it.
StatusBackedByMoney ==
  \A b \in BillIds :
    /\ bills[b].status = "ISSUED" => bills[b].amountPaid = 0
    /\ bills[b].status = "PARTIALLY_PAID" => bills[b].amountPaid > 0
    /\ bills[b].status = "PAID" =>
         bills[b].amountPaid + bills[b].credits >= bills[b].subtotal

\* A payment is lost from amountPaid, and an adjustment from its column, only
\* when two such calls on the bill overlapped, or one died between its row and
\* the bill's update.
ColumnsAddUp ==
  \A b \in BillIds :
    /\ <<"pay", b>> \notin contended /\ Running("pay", b) = {} =>
         bills[b].amountPaid = bills[b].received
    /\ <<"adjust", b>> \notin contended /\ Running("adjust", b) = {} =>
         bills[b].adjustments = bills[b].debits - bills[b].credits

\* An item is charged twice only by two passes that overlapped: neither could
\* see the other's bill when it read its items.
RebillNeedsOverlap ==
  \A x, y \in BillIds :
    x < y /\ bills[x].lines \cap bills[y].lines # {} =>
      bills[x].by # bills[y].by /\ bills[y].seen < x

\* "Double cron run -> no duplicates": a delivery item is on one bill at most.
NoDoubleBilling ==
  \A x, y \in BillIds : x # y => bills[x].lines \cap bills[y].lines = {}

LateOpen(b) ==
  b \in BillIds /\ bills[b].late /\ bills[b].status \in {"ISSUED", "PARTIALLY_PAID"}

\* A late open bill does not stay open: the cron gets to it, or it is paid or
\* voided first.
LateBillsLeaveOpen ==
  \A b \in ComesDue : LateOpen(b) ~> ~LateOpen(b)

\* getDues selects bills by status, and a PAID bill with an outstanding balance
\* escapes it: that takes a debit on the bill, or credits that overwrote each
\* other.
MissedDuesAreExplained ==
  \A b \in BillIds :
    bills[b].status = "PAID" /\ bills[b].amountPaid < bills[b].total =>
      bills[b].debits > 0 \/ <<"adjust", b>> \in contended

\* VOID is left only by a payment that read the bill before it was voided: no
\* call that starts later and no cron takes a voided bill back.
VoidUndoneOnlyByStalePayment ==
  [][\A b \in BillIds :
       bills[b].status = "VOID" /\ bills'[b].status # "VOID" =>
         \E r \in Request : op[r].pc = "payWrite" /\ op[r].bill = b /\ op'[r].pc = "done"]_vars
============================================================================
