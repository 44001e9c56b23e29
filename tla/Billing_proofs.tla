--------------------------- MODULE Billing_proofs ---------------------------
(***************************************************************************)
(* Proofs about Billing, for any items, passes, requests and amounts.      *)
(***************************************************************************)
EXTENDS Billing, SequenceTheorems, TLAPS

(***************************************************************************)
(* Records: the types of a bill's columns, and of the updates of a row.    *)
(***************************************************************************)
LEMMA BillUpdate ==
  ASSUME NEW bill \in Bill
  PROVE  /\ \A a \in Int : Received(bill, a) \in Bill
         /\ \A o \in OpState : Paid(bill, o) \in Bill
         /\ \A o \in OpState : Adjusted(bill, o) \in Bill
         /\ \A d \in Int : Booked(bill, d) \in Bill
         /\ \A st \in BillStatus : WithStatus(bill, st) \in Bill
         /\ PastDue(bill) \in Bill
<1>1. ASSUME NEW a \in Int PROVE Received(bill, a) \in Bill
  BY DEF Received, Bill, Money
<1>2. ASSUME NEW o \in OpState PROVE Paid(bill, o) \in Bill
  <2>1. NewPaid(o) \in Int /\ PaidStatus(NewPaid(o), o.limit) \in BillStatus
    BY DEF NewPaid, PaidStatus, OpState, Money, BillStatus
  <2> QED
    BY <2>1 DEF Paid, Bill, Money
<1>3. ASSUME NEW o \in OpState PROVE Adjusted(bill, o) \in Bill
  <2>1. NewAdjustments(o) \in Int /\ NewTotal(o) \in Int
    BY DEF NewAdjustments, NewTotal, OpState, Money
  <2> QED
    BY <2>1 DEF Adjusted, Bill, Money
<1>4. ASSUME NEW d \in Int PROVE Booked(bill, d) \in Bill
  BY DEF Booked, Bill, Money
<1>5. ASSUME NEW st \in BillStatus PROVE WithStatus(bill, st) \in Bill
  BY DEF WithStatus, Bill
<1>6. PastDue(bill) \in Bill
  BY DEF PastDue, Bill
<1> QED
  BY <1>1, <1>2, <1>3, <1>4, <1>5, <1>6

LEMMA BillTypes ==
  ASSUME NEW bill \in Bill
  PROVE  /\ bill.subtotal \in Nat /\ bill.adjustments \in Int /\ bill.total \in Int
         /\ bill.amountPaid \in Int /\ bill.status \in BillStatus
         /\ bill.received \in Int /\ bill.credits \in Nat /\ bill.debits \in Nat
         /\ bill.seen \in Nat
  BY DEF Bill, Money

LEMMA OpUpdate ==
  ASSUME NEW o \in OpState, NEW x \in {"payWrite", "adjWrite", "done"}
  PROVE  /\ At(o, x) \in OpState
         /\ At(o, x).pc = x
         /\ At(o, x).bill = o.bill
         /\ At(o, x).amount = o.amount
         /\ At(o, x).base = o.base
         /\ At(o, x).limit = o.limit
  BY DEF OpState, At

LEMMA PassUpdate ==
  ASSUME NEW ps \in PassState, NEW S \in SUBSET Item
  PROVE  /\ Without(ps, S) \in PassState
         /\ Without(ps, S).pc = ps.pc
         /\ Without(ps, S).seen = ps.seen
         /\ Without(ps, S).items = ps.items \ S
  BY DEF PassState, Without

LEMMA NewBillType ==
  ASSUME BillingConstants, TypeOK, NEW p \in Pass, NEW c \in Customer,
         NEW S \in SUBSET Item, NEW settlement \in BOOLEAN
  PROVE  NewBill(p, c, S, settlement) \in Bill
<1>1. pass[p].seen \in Nat
  BY DEF TypeOK, PassState
<1>2. Charge[S] \in Nat
  BY DEF BillingConstants
<1> QED
  BY <1>1, <1>2 DEF NewBill, Bill, BillStatus, Money

LEMMA AppendBill ==
  ASSUME TypeOK, NEW e \in Bill, bills' = Append(bills, e)
  PROVE  /\ bills' \in Seq(Bill)
         /\ Len(bills') = Len(bills) + 1
         /\ \A b \in BillIds : bills'[b] = bills[b]
         /\ bills'[Len(bills) + 1] = e
BY DEF TypeOK, BillIds

LEMMA ReplaceBill ==
  ASSUME TypeOK, NEW b \in BillIds, NEW e \in Bill,
         bills' = [bills EXCEPT ![b] = e]
  PROVE  /\ bills' \in Seq(Bill)
         /\ Len(bills') = Len(bills)
         /\ BillIds' = BillIds
         /\ bills'[b] = e
         /\ \A n \in BillIds : n # b => bills'[n] = bills[n]
BY ExceptSeq DEF TypeOK, BillIds

LEMMA BillFields ==
  ASSUME TypeOK, NEW b \in BillIds
  PROVE  bills[b] \in Bill
BY ElementOfSeq DEF TypeOK, BillIds

(***************************************************************************)
(* Type correctness.                                                       *)
(***************************************************************************)
LEMMA PassStepType ==
  ASSUME BillingConstants, TypeOK, NEW p \in Pass, PassStep(p)
  PROVE  TypeOK'
<1> USE DEF TypeOK, PassState
<1>1. ASSUME NEW w \in Window, CycleRead(p, w) PROVE TypeOK'
  BY <1>1 DEF CycleRead, BillIds, Running
<1>2. ASSUME NEW c \in Customer, CycleIssue(p, c) PROVE TypeOK'
  <2> DEFINE mine == {i \in pass[p].items : OwnerOf(i) = c}
             e    == NewBill(p, c, mine, FALSE)
  <2>1. mine \in SUBSET Item
    OBVIOUS
  <2>2. e \in Bill
    BY <2>1, NewBillType
  <2>3. bills' = Append(bills, e) /\ UNCHANGED <<delivered, op, contended>>
    BY <1>2 DEF CycleIssue
  <2>4. bills' \in Seq(Bill) /\ Len(bills') = Len(bills) + 1
    BY <2>2, <2>3, AppendBill
  <2>5. Without(pass[p], mine) \in PassState
    BY PassUpdate
  <2>6. pass' \in [Pass -> PassState]
    BY <1>2, <2>5 DEF CycleIssue
  <2>7. BillIds \subseteq BillIds'
    BY <2>4 DEF BillIds
  <2> QED
    BY <2>3, <2>4, <2>6, <2>7
<1>3. ASSUME CycleEnd(p) PROVE TypeOK'
  BY <1>3 DEF CycleEnd, IdlePass, BillIds
<1>4. ASSUME NEW s \in Sub, SettlePeriod(p, s) PROVE TypeOK'
  BY <1>4 DEF SettlePeriod, BillIds
<1>5. ASSUME SettleRead(p) PROVE TypeOK'
  BY <1>5 DEF SettleRead, BillIds
<1>6. ASSUME SettleIssue(p) PROVE TypeOK'
  <2> DEFINE c == OwnerOf(CHOOSE i \in pass[p].items : TRUE)
             e == NewBill(p, c, pass[p].items, TRUE)
  <2>1. pass' \in [Pass -> PassState] /\ UNCHANGED <<delivered, op, contended>>
    BY <1>6 DEF SettleIssue, IdlePass
  <2>2. CASE pass[p].items = {}
    BY <1>6, <2>1, <2>2 DEF SettleIssue, BillIds
  <2>3. CASE pass[p].items # {}
    <3>1. c \in Customer
      BY <2>3 DEF OwnerOf, BillingConstants
    <3>2. e \in Bill
      BY <3>1, NewBillType
    <3>3. bills' = Append(bills, e)
      BY <1>6, <2>3 DEF SettleIssue
    <3>4. bills' \in Seq(Bill) /\ Len(bills') = Len(bills) + 1
      BY <3>2, <3>3, AppendBill
    <3>5. BillIds \subseteq BillIds'
      BY <3>4 DEF BillIds
    <3> QED
      BY <2>1, <3>4, <3>5
  <2> QED
    BY <2>2, <2>3
<1>7. ASSUME PassFails(p) PROVE TypeOK'
  BY <1>7 DEF PassFails, IdlePass, BillIds
<1> QED
  BY <1>1, <1>2, <1>3, <1>4, <1>5, <1>6, <1>7 DEF PassStep

LEMMA OpStepType ==
  ASSUME BillingConstants, TypeOK, NEW r \in Request, OpStep(r)
  PROVE  TypeOK'
<1>a. op[r] \in OpState /\ (op[r].pc # "new" => op[r].bill \in BillIds)
  BY DEF TypeOK
<1>d. op[r].amount \in Int /\ op[r].base \in Int /\ op[r].limit \in Int
  BY <1>a DEF OpState, Money
<1>b. ASSUME NEW e \in Bill, NEW b \in BillIds, bills' = [bills EXCEPT ![b] = e],
             NEW x \in {"payWrite", "adjWrite", "done"},
             op' = [op EXCEPT ![r] = At(@, x)], op[r].pc # "new",
             UNCHANGED <<delivered, pass, contended>>
      PROVE  TypeOK'
  <2>1. bills' \in Seq(Bill) /\ BillIds' = BillIds
    BY <1>b, ReplaceBill
  <2>2. At(op[r], x) \in OpState /\ At(op[r], x).bill \in BillIds
    BY <1>a, <1>b, OpUpdate
  <2>3. op' \in [Request -> OpState]
    BY <2>2, <1>b DEF TypeOK
  <2>4. \A q \in Request : op'[q].pc # "new" => op'[q].bill \in BillIds
    BY <2>2, <1>b DEF TypeOK
  <2> QED
    BY <1>b, <2>1, <2>3, <2>4 DEF TypeOK
<1>c. ASSUME NEW o \in OpState, o.pc # "new", o.bill \in BillIds,
             op' = [op EXCEPT ![r] = o], UNCHANGED <<delivered, bills, pass>>,
             contended' \subseteq {"pay", "adjust"} \X BillIds
      PROVE  TypeOK'
  BY <1>c DEF TypeOK, BillIds
<1>1. ASSUME NEW b \in BillIds, NEW a \in Amount, PayRead(r, b, a) PROVE TypeOK'
  <2> DEFINE o == [pc |-> "payRow", bill |-> b, amount |-> a,
                   base |-> bills[b].amountPaid, limit |-> bills[b].total]
  <2>1. o \in OpState
    BY BillFields DEF OpState, Bill, Money, BillingConstants, BillIds
  <2>2. contended' \subseteq {"pay", "adjust"} \X BillIds
    BY <1>1 DEF PayRead, Contend, TypeOK
  <2> QED
    BY <1>1, <1>c, <2>1, <2>2 DEF PayRead
<1>2. ASSUME PayRow(r) PROVE TypeOK'
  <2> DEFINE b == op[r].bill
             e == Received(bills[b], op[r].amount)
  <2>1. b \in BillIds /\ bills[b] \in Bill
    BY <1>2, <1>a, BillFields DEF PayRow
  <2>2. e \in Bill
    BY <2>1, <1>a, <1>d, BillUpdate
  <2> HIDE DEF e
  <2>3. bills' = [bills EXCEPT ![b] = e]
    BY <1>2 DEF PayRow, e
  <2> QED
    BY <1>2, <1>b, <2>1, <2>2, <2>3 DEF PayRow
<1>3. ASSUME PayWrite(r) PROVE TypeOK'
  <2> DEFINE b == op[r].bill
             e == Paid(bills[b], op[r])
  <2>1. b \in BillIds /\ bills[b] \in Bill
    BY <1>3, <1>a, BillFields DEF PayWrite
  <2>2. e \in Bill
    BY <2>1, <1>a, <1>d, BillUpdate
  <2> HIDE DEF e
  <2>3. bills' = [bills EXCEPT ![b] = e]
    BY <1>3 DEF PayWrite, e
  <2> QED
    BY <1>3, <1>b, <2>1, <2>2, <2>3 DEF PayWrite
<1>4. ASSUME NEW b \in BillIds, NEW d \in Amount \cup {-a : a \in Amount}, AdjRead(r, b, d)
      PROVE  TypeOK'
  <2> DEFINE o == [pc |-> "adjRow", bill |-> b, amount |-> d,
                   base |-> bills[b].adjustments, limit |-> bills[b].subtotal]
  <2>1. d \in Int
    BY DEF BillingConstants
  <2>2. o \in OpState
    BY <2>1, BillFields DEF OpState, Bill, Money, BillIds
  <2>3. contended' \subseteq {"pay", "adjust"} \X BillIds
    BY <1>4 DEF AdjRead, Contend, TypeOK
  <2> QED
    BY <1>4, <1>c, <2>2, <2>3 DEF AdjRead
<1>5. ASSUME AdjRow(r) PROVE TypeOK'
  <2> DEFINE b == op[r].bill
             e == Booked(bills[b], op[r].amount)
  <2>1. b \in BillIds /\ bills[b] \in Bill
    BY <1>5, <1>a, BillFields DEF AdjRow
  <2>2. e \in Bill
    BY <2>1, <1>a, <1>d, BillUpdate
  <2> HIDE DEF e
  <2>3. bills' = [bills EXCEPT ![b] = e]
    BY <1>5 DEF AdjRow, e
  <2> QED
    BY <1>5, <1>b, <2>1, <2>2, <2>3 DEF AdjRow
<1>6. ASSUME AdjWrite(r) PROVE TypeOK'
  <2> DEFINE b == op[r].bill
             e == Adjusted(bills[b], op[r])
  <2>1. b \in BillIds /\ bills[b] \in Bill
    BY <1>6, <1>a, BillFields DEF AdjWrite
  <2>2. e \in Bill
    BY <2>1, <1>a, <1>d, BillUpdate
  <2> HIDE DEF e
  <2>3. bills' = [bills EXCEPT ![b] = e]
    BY <1>6 DEF AdjWrite, e
  <2> QED
    BY <1>6, <1>b, <2>1, <2>2, <2>3 DEF AdjWrite
<1>7. ASSUME NEW b \in BillIds, VoidRead(r, b) PROVE TypeOK'
  <2> DEFINE o == [pc |-> "voidWrite", bill |-> b, amount |-> 0, base |-> 0, limit |-> 0]
  <2>1. o \in OpState
    BY DEF OpState, Money, BillIds
  <2>2. contended' \subseteq {"pay", "adjust"} \X BillIds
    BY <1>7 DEF VoidRead, TypeOK
  <2> QED
    BY <1>7, <1>c, <2>1, <2>2 DEF VoidRead
<1>8. ASSUME VoidWrite(r) PROVE TypeOK'
  <2> DEFINE b == op[r].bill
             e == WithStatus(bills[b], "VOID")
  <2>1. b \in BillIds /\ bills[b] \in Bill
    BY <1>8, <1>a, BillFields DEF VoidWrite
  <2>2. e \in Bill
    BY <2>1, <1>a, <1>d, BillUpdate DEF BillStatus
  <2> HIDE DEF e
  <2>3. bills' = [bills EXCEPT ![b] = e]
    BY <1>8 DEF VoidWrite, e
  <2> QED
    BY <1>8, <1>b, <2>1, <2>2, <2>3 DEF VoidWrite
<1>9. ASSUME OpFails(r) PROVE TypeOK'
  <2> DEFINE o == At(op[r], "done")
  <2>1. o \in OpState /\ o.pc # "new" /\ o.bill \in BillIds
    BY <1>9, <1>a, OpUpdate DEF OpFails
  <2>2. contended' \subseteq {"pay", "adjust"} \X BillIds
    BY <1>9, <1>a DEF OpFails, TypeOK
  <2> QED
    BY <1>9, <1>c, <2>1, <2>2 DEF OpFails
<1> QED
  BY <1>1, <1>2, <1>3, <1>4, <1>5, <1>6, <1>7, <1>8, <1>9 DEF OpStep

LEMMA MarkOverdueBills ==
  ASSUME TypeOK, MarkOverdue
  PROVE  /\ bills' \in Seq(Bill)
         /\ BillIds' = BillIds
         /\ \A b \in BillIds :
              bills'[b] = bills[b] \/
                /\ bills'[b] = WithStatus(bills[b], "OVERDUE")
                /\ bills[b].status \in {"ISSUED", "PARTIALLY_PAID"}
<1> DEFINE e(b) == IF bills[b].late /\ bills[b].status \in OverdueFrom
                   THEN WithStatus(bills[b], "OVERDUE") ELSE bills[b]
<1>1. \A b \in BillIds : e(b) \in Bill
  BY BillFields, BillUpdate DEF BillStatus
<1>2. bills' = [b \in 1 .. Len(bills) |-> e(b)]
  BY DEF MarkOverdue, BillIds
<1>3. bills' \in [1 .. Len(bills) -> Bill] /\ Len(bills) \in Nat
  BY <1>1, <1>2 DEF BillIds, TypeOK
<1>4. bills' \in Seq(Bill)
  BY <1>3, SeqDef
<1>5. Len(bills') = Len(bills)
  BY <1>3, <1>4, LenProperties
<1> QED
  BY <1>2, <1>4, <1>5 DEF BillIds, OverdueFrom

LEMMA TypeStep ==
  ASSUME BillingConstants, TypeOK, [Next]_vars
  PROVE  TypeOK'
<1>1. ASSUME NEW i \in Item, Deliver(i) \/ AdminRevert(i) PROVE TypeOK'
  BY <1>1 DEF Deliver, AdminRevert, TypeOK, BillIds
<1>2. ASSUME NEW b \in BillIds, DueDatePasses(b) PROVE TypeOK'
  <2> DEFINE e == PastDue(bills[b])
  <2>1. e \in Bill
    BY BillFields, BillUpdate
  <2>2. bills' = [bills EXCEPT ![b] = e]
    BY <1>2 DEF DueDatePasses
  <2>3. bills' \in Seq(Bill) /\ BillIds' = BillIds
    BY <2>1, <2>2, ReplaceBill
  <2> QED
    BY <1>2, <2>3 DEF DueDatePasses, TypeOK
<1>3. ASSUME MarkOverdue PROVE TypeOK'
  BY <1>3, MarkOverdueBills DEF MarkOverdue, TypeOK
<1>4. CASE UNCHANGED vars
  BY <1>4 DEF vars, TypeOK, BillIds
<1> QED
  BY <1>1, <1>2, <1>3, <1>4, PassStepType, OpStepType DEF Next

(* Every reachable row and every handler's snapshot has its declared type.  *)
THEOREM TypeCorrect == Spec => []TypeOK
<1>1. Init => TypeOK
  BY DEF Init, TypeOK, BillIds, PassState, OpState, IdlePass, NewOp, Money
<1> QED
  BY <1>1, TypeStep, BillingConstants, PTL DEF Spec

(***************************************************************************)
(* Double billing.  The columns a bill keeps for life, and who may add a   *)
(* bill.                                                                   *)
(***************************************************************************)
Core(bill) == <<bill.lines, bill.by, bill.seen, bill.subtotal>>

LEMMA UpdateKeepsCore ==
  ASSUME NEW bill \in Bill
  PROVE  /\ \A a \in Int : Core(Received(bill, a)) = Core(bill)
         /\ \A o \in OpState : Core(Paid(bill, o)) = Core(bill)
         /\ \A o \in OpState : Core(Adjusted(bill, o)) = Core(bill)
         /\ \A d \in Int : Core(Booked(bill, d)) = Core(bill)
         /\ \A st \in BillStatus : Core(WithStatus(bill, st)) = Core(bill)
         /\ Core(PastDue(bill)) = Core(bill)
BY DEF Core, Bill, Received, Paid, Adjusted, Booked, WithStatus, PastDue

\* Nothing but a pass touches the lines of a bill or the number of bills.
LEMMA OthersKeepCore ==
  ASSUME BillingConstants, TypeOK,
         \/ \E i \in Item : Deliver(i) \/ AdminRevert(i)
         \/ \E r \in Request : OpStep(r)
         \/ \E b \in BillIds : DueDatePasses(b)
         \/ MarkOverdue
         \/ UNCHANGED vars
  PROVE  /\ Len(bills') = Len(bills)
         /\ pass' = pass
         /\ \A b \in BillIds : Core(bills'[b]) = Core(bills[b])
<1> DEFINE Kept == /\ Len(bills') = Len(bills)
                   /\ pass' = pass
                   /\ \A b \in BillIds : Core(bills'[b]) = Core(bills[b])
<1>1. ASSUME NEW b \in BillIds, NEW e \in Bill, Core(e) = Core(bills[b]),
             bills' = [bills EXCEPT ![b] = e], pass' = pass
      PROVE  Kept
  BY <1>1, ReplaceBill DEF BillIds
<1>2. ASSUME bills' = bills, pass' = pass PROVE Kept
  BY <1>2
<1>3. ASSUME NEW i \in Item, Deliver(i) \/ AdminRevert(i) PROVE Kept
  BY <1>2, <1>3 DEF Deliver, AdminRevert
<1>4. ASSUME NEW r \in Request, OpStep(r) PROVE Kept
  <2> DEFINE b == op[r].bill
  <2>1. op[r] \in OpState /\ (op[r].pc # "new" => b \in BillIds /\ bills[b] \in Bill)
    BY BillFields DEF TypeOK
  <2>2. op[r].amount \in Int
    BY <2>1 DEF OpState, Money
  <2>3. CASE PayRow(r)
    <3>1. Core(Received(bills[b], op[r].amount)) = Core(bills[b])
      BY <2>1, <2>2, <2>3, UpdateKeepsCore DEF PayRow
    <3>2. Received(bills[b], op[r].amount) \in Bill
      BY <2>1, <2>2, <2>3, BillUpdate DEF PayRow
    <3> QED
      BY <1>1, <2>1, <2>3, <3>1, <3>2 DEF PayRow
  <2>4. CASE PayWrite(r)
    <3>1. Core(Paid(bills[b], op[r])) = Core(bills[b])
      BY <2>1, <2>4, UpdateKeepsCore DEF PayWrite
    <3>2. Paid(bills[b], op[r]) \in Bill
      BY <2>1, <2>4, BillUpdate DEF PayWrite
    <3> QED
      BY <1>1, <2>1, <2>4, <3>1, <3>2 DEF PayWrite
  <2>5. CASE AdjRow(r)
    <3>1. Core(Booked(bills[b], op[r].amount)) = Core(bills[b])
      BY <2>1, <2>2, <2>5, UpdateKeepsCore DEF AdjRow
    <3>2. Booked(bills[b], op[r].amount) \in Bill
      BY <2>1, <2>2, <2>5, BillUpdate DEF AdjRow
    <3> QED
      BY <1>1, <2>1, <2>5, <3>1, <3>2 DEF AdjRow
  <2>6. CASE AdjWrite(r)
    <3>1. Core(Adjusted(bills[b], op[r])) = Core(bills[b])
      BY <2>1, <2>6, UpdateKeepsCore DEF AdjWrite
    <3>2. Adjusted(bills[b], op[r]) \in Bill
      BY <2>1, <2>6, BillUpdate DEF AdjWrite
    <3> QED
      BY <1>1, <2>1, <2>6, <3>1, <3>2 DEF AdjWrite
  <2>7. CASE VoidWrite(r)
    <3>1. "VOID" \in BillStatus
      BY DEF BillStatus
    <3>2. Core(WithStatus(bills[b], "VOID")) = Core(bills[b])
      BY <2>1, <2>7, <3>1, UpdateKeepsCore DEF VoidWrite
    <3>3. WithStatus(bills[b], "VOID") \in Bill
      BY <2>1, <2>7, <3>1, BillUpdate DEF VoidWrite
    <3> QED
      BY <1>1, <2>1, <2>7, <3>2, <3>3 DEF VoidWrite
  <2>8. CASE \/ \E n \in BillIds, a \in Amount : PayRead(r, n, a)
             \/ \E n \in BillIds, d \in Amount \cup {-a : a \in Amount} : AdjRead(r, n, d)
             \/ \E n \in BillIds : VoidRead(r, n)
             \/ OpFails(r)
    BY <1>2, <2>8 DEF PayRead, AdjRead, VoidRead, OpFails
  <2> QED
    BY <1>4, <2>3, <2>4, <2>5, <2>6, <2>7, <2>8 DEF OpStep
<1>5. ASSUME NEW b \in BillIds, DueDatePasses(b) PROVE Kept
  <2>1. PastDue(bills[b]) \in Bill /\ Core(PastDue(bills[b])) = Core(bills[b])
    BY BillFields, BillUpdate, UpdateKeepsCore
  <2> QED
    BY <1>1, <1>5, <2>1 DEF DueDatePasses
<1>6. ASSUME MarkOverdue PROVE Kept
  <2>1. "OVERDUE" \in BillStatus
    BY DEF BillStatus
  <2>2. Len(bills) \in Nat /\ Len(bills') \in Nat
    BY <1>6, MarkOverdueBills DEF TypeOK
  <2>3. Len(bills') = Len(bills)
    BY <1>6, <2>2, MarkOverdueBills DEF BillIds
  <2> QED
    BY <1>6, <2>1, <2>3, MarkOverdueBills, BillFields, UpdateKeepsCore DEF MarkOverdue
<1>7. ASSUME UNCHANGED vars PROVE Kept
  BY <1>2, <1>7 DEF vars
<1> QED
  BY <1>3, <1>4, <1>5, <1>6, <1>7

(***************************************************************************)
(* What a pass holds: an item it may still bill is on no bill that existed *)
(* when it read its items, nor on any bill of its own.                     *)
(***************************************************************************)
Fresh(p) ==
  pass[p].pc \in {"cycle", "settle"} =>
    /\ pass[p].seen <= Len(bills)
    /\ \A i \in pass[p].items, x \in BillIds :
         i \in bills[x].lines => x > pass[p].seen /\ bills[x].by # p

RebillInv == RebillNeedsOverlap /\ \A p \in Pass : Fresh(p)

\* A pass that appends a bill with the items S it takes out of its own.
LEMMA IssueKeepsRebillInv ==
  ASSUME BillingConstants, TypeOK, RebillInv, NEW p \in Pass,
         pass[p].pc \in {"cycle", "settle"},
         NEW S \in SUBSET pass[p].items,
         NEW c \in Customer, NEW settlement \in BOOLEAN,
         bills' = Append(bills, NewBill(p, c, S, settlement)),
         NEW ps \in PassState, pass' = [pass EXCEPT ![p] = ps],
         \/ ps = IdlePass
         \/ ps.items = pass[p].items \ S /\ ps.seen = pass[p].seen
  PROVE  RebillInv'
<1> DEFINE e == NewBill(p, c, S, settlement)
<1>1. pass[p] \in PassState /\ pass[p].seen \in Nat /\ S \in SUBSET Item
  BY DEF TypeOK, PassState
<1>2. e \in Bill
  BY <1>1, NewBillType
<1>3. /\ Len(bills') = Len(bills) + 1
      /\ \A b \in BillIds : bills'[b] = bills[b]
      /\ bills'[Len(bills) + 1] = e
  BY <1>2, AppendBill
<1>4. e.lines = S /\ e.by = p /\ e.seen = pass[p].seen
  BY DEF NewBill
<1> HIDE DEF e
<1>5. Len(bills) \in Nat /\ pass \in [Pass -> PassState]
  BY DEF TypeOK
<1>6. BillIds' = BillIds \cup {Len(bills) + 1}
  BY <1>3, <1>5 DEF BillIds
<1>7. RebillNeedsOverlap'
  <2> SUFFICES ASSUME NEW x \in BillIds', NEW y \in BillIds', x < y,
                      bills'[x].lines \cap bills'[y].lines # {}
               PROVE  bills'[x].by # bills'[y].by /\ bills'[y].seen < x
    BY DEF RebillNeedsOverlap
  <2>1. x \in BillIds /\ bills'[x] = bills[x]
    BY <1>3, <1>5, <1>6 DEF BillIds
  <2>2. CASE y \in BillIds
    <3>1. bills'[y] = bills[y]
      BY <1>3, <2>2
    <3>2. bills[x].lines \cap bills[y].lines # {}
      BY <2>1, <3>1
    <3>3. bills[x].by # bills[y].by /\ bills[y].seen < x
      BY <2>1, <2>2, <3>2 DEF RebillInv, RebillNeedsOverlap
    <3> QED
      BY <2>1, <3>1, <3>3
  <2>3. CASE y = Len(bills) + 1
    <3>1. PICK i \in S : i \in bills[x].lines
      BY <1>3, <1>4, <2>1, <2>3
    <3>2. x > pass[p].seen /\ bills[x].by # p
      BY <3>1, <2>1 DEF RebillInv, Fresh
    <3> QED
      BY <1>1, <1>3, <1>4, <2>1, <2>3, <3>2 DEF BillIds
  <2> QED
    BY <1>6, <2>2, <2>3
<1>8. ASSUME NEW q \in Pass PROVE Fresh(q)'
  <2> SUFFICES ASSUME pass'[q].pc \in {"cycle", "settle"}
               PROVE  /\ pass'[q].seen <= Len(bills')
                      /\ \A i \in pass'[q].items, x \in BillIds' :
                           i \in bills'[x].lines => x > pass'[q].seen /\ bills'[x].by # q
    BY DEF Fresh
  <2>1. CASE q = p
    <3>1. pass'[q] = ps
      BY <2>1, <1>5
    <3>3. CASE ps.items = pass[p].items \ S /\ ps.seen = pass[p].seen
      <4>1. pass[p].seen <= Len(bills)
        BY DEF RebillInv, Fresh
      <4>2. ASSUME NEW i \in ps.items, NEW x \in BillIds', i \in bills'[x].lines
            PROVE  x > pass[p].seen /\ bills'[x].by # p
        <5>1. x # Len(bills) + 1
          BY <1>3, <1>4, <3>3, <4>2
        <5>2. x \in BillIds /\ bills'[x] = bills[x]
          BY <1>3, <1>6, <5>1
        <5> QED
          BY <3>3, <4>2, <5>2 DEF RebillInv, Fresh
      <4>3. ps.seen <= Len(bills')
        BY <1>1, <1>3, <1>5, <3>3, <4>1
      <4> QED
        BY <2>1, <3>1, <3>3, <4>2, <4>3
    <3>4. CASE ps = IdlePass
      BY <3>1, <3>4 DEF IdlePass
    <3> QED
      BY <3>3, <3>4
  <2>2. CASE q # p
    <3>1. pass'[q] = pass[q] /\ pass[q] \in PassState /\ pass[q].seen \in Nat
      BY <2>2, <1>5 DEF PassState
    <3>2. Fresh(q)
      BY DEF RebillInv
    <3>3. pass[q].seen <= Len(bills)
      BY <3>1, <3>2 DEF Fresh
    <3>4. ASSUME NEW i \in pass[q].items, NEW x \in BillIds', i \in bills'[x].lines
          PROVE  x > pass[q].seen /\ bills'[x].by # q
      <4>1. CASE x \in BillIds
        BY <1>3, <3>1, <3>2, <3>4, <4>1 DEF Fresh
      <4>2. CASE x = Len(bills) + 1
        BY <1>3, <1>4, <1>5, <2>2, <3>1, <3>3, <4>2
      <4> QED
        BY <1>6, <4>1, <4>2
    <3>5. pass[q].seen <= Len(bills')
      BY <1>3, <1>5, <3>1, <3>3
    <3> QED
      BY <3>1, <3>4, <3>5
  <2> QED
    BY <2>1, <2>2
<1> QED
  BY <1>7, <1>8 DEF RebillInv

\* A step of p that adds no bill and leaves p with items that are on no bill.
LEMMA ReadKeepsRebillInv ==
  ASSUME TypeOK, RebillInv, NEW p \in Pass, NEW ps \in PassState,
         pass' = [pass EXCEPT ![p] = ps], UNCHANGED bills,
         \/ ps.pc \in {"idle", "period"}
         \/ ps.seen = Len(bills) /\ \A i \in ps.items : Unbilled(i)
  PROVE  RebillInv'
<1>1. RebillNeedsOverlap'
  BY DEF RebillInv, RebillNeedsOverlap, BillIds
<1>2. ASSUME NEW q \in Pass PROVE Fresh(q)'
  <2>1. Len(bills) \in Nat /\ pass'[q] = IF q = p THEN ps ELSE pass[q]
    BY DEF TypeOK
  <2>2. CASE q = p
    BY <2>1, <2>2 DEF Fresh, Unbilled, BillIds
  <2>3. CASE q # p
    BY <2>1, <2>3 DEF RebillInv, Fresh, BillIds
  <2> QED
    BY <2>2, <2>3
<1> QED
  BY <1>1, <1>2 DEF RebillInv

LEMMA RebillStep ==
  ASSUME BillingConstants, TypeOK, RebillInv, [Next]_vars
  PROVE  RebillInv'
<1>1. ASSUME NEW p \in Pass, PassStep(p) PROVE RebillInv'
  <2>0. pass[p] \in PassState /\ Len(bills) \in Nat
    BY DEF TypeOK
  <2>1. ASSUME NEW w \in Window, CycleRead(p, w) PROVE RebillInv'
    <3> DEFINE ps == [pc |-> "cycle", seen |-> Len(bills),
                      items |-> {i \in delivered : Day[i] \in w /\ Unbilled(i)}]
    <3>1. ps \in PassState
      BY <2>0 DEF PassState, TypeOK
    <3>2. ps.seen = Len(bills) /\ \A i \in ps.items : Unbilled(i)
      OBVIOUS
    <3>3. pass' = [pass EXCEPT ![p] = ps] /\ UNCHANGED bills
      BY <2>1 DEF CycleRead
    <3> QED
      BY <3>1, <3>2, <3>3, ReadKeepsRebillInv
  <2>2. ASSUME NEW c \in Customer, CycleIssue(p, c) PROVE RebillInv'
    <3> DEFINE mine == {i \in pass[p].items : OwnerOf(i) = c}
    <3>1. /\ pass[p].pc \in {"cycle", "settle"}
          /\ bills' = Append(bills, NewBill(p, c, mine, FALSE))
          /\ pass' = [pass EXCEPT ![p] = Without(pass[p], mine)]
      BY <2>2 DEF CycleIssue
    <3>2. mine \in SUBSET pass[p].items /\ mine \in SUBSET Item /\ FALSE \in BOOLEAN
      BY <2>0 DEF PassState
    <3>3. /\ Without(pass[p], mine) \in PassState
          /\ Without(pass[p], mine).items = pass[p].items \ mine
          /\ Without(pass[p], mine).seen = pass[p].seen
      BY <2>0, <3>2, PassUpdate
    <3> QED
      BY <3>1, <3>2, <3>3, IssueKeepsRebillInv
  <2>3. ASSUME SettleRead(p) PROVE RebillInv'
    <3> DEFINE ps == [pc |-> "settle", seen |-> Len(bills),
                      items |-> {i \in pass[p].items : i \in delivered /\ Unbilled(i)}]
    <3>1. ps \in PassState
      BY <2>0 DEF PassState
    <3>2. ps.seen = Len(bills) /\ \A i \in ps.items : Unbilled(i)
      OBVIOUS
    <3>3. pass' = [pass EXCEPT ![p] = ps] /\ UNCHANGED bills
      BY <2>3 DEF SettleRead
    <3> QED
      BY <3>1, <3>2, <3>3, ReadKeepsRebillInv
  <2>4. IdlePass \in PassState /\ IdlePass.pc = "idle"
    BY DEF PassState, IdlePass
  <2>5. ASSUME SettleIssue(p) PROVE RebillInv'
    <3>1. CASE pass[p].items = {}
      BY <2>4, <2>5, <3>1, ReadKeepsRebillInv DEF SettleIssue
    <3>2. CASE pass[p].items # {}
      <4> DEFINE c == OwnerOf(CHOOSE i \in pass[p].items : TRUE)
      <4>1. c \in Customer
        BY <2>0, <3>2 DEF OwnerOf, BillingConstants, PassState
      <4>2. /\ pass[p].pc \in {"cycle", "settle"}
            /\ bills' = Append(bills, NewBill(p, c, pass[p].items, TRUE))
            /\ pass' = [pass EXCEPT ![p] = IdlePass]
        BY <2>5, <3>2 DEF SettleIssue
      <4> HIDE DEF c
      <4>3. pass[p].items \in SUBSET pass[p].items /\ TRUE \in BOOLEAN
        OBVIOUS
      <4> QED
        BY <2>4, <4>1, <4>2, <4>3, IssueKeepsRebillInv
    <3> QED
      BY <3>1, <3>2
  <2>6. ASSUME NEW s \in Sub, SettlePeriod(p, s) PROVE RebillInv'
    <3> DEFINE ps == [pc |-> "period", seen |-> 0,
                      items |-> {i \in Item : SubOf[i] = s /\ Day[i] >= PeriodStart(s)}]
    <3>1. ps \in PassState /\ ps.pc \in {"idle", "period"}
      BY DEF PassState
    <3>2. pass' = [pass EXCEPT ![p] = ps] /\ UNCHANGED bills
      BY <2>6 DEF SettlePeriod
    <3> QED
      BY <3>1, <3>2, ReadKeepsRebillInv
  <2>7. ASSUME CycleEnd(p) \/ PassFails(p) PROVE RebillInv'
    BY <2>4, <2>7, ReadKeepsRebillInv DEF CycleEnd, PassFails
  <2> QED
    BY <1>1, <2>1, <2>2, <2>3, <2>5, <2>6, <2>7 DEF PassStep
<1>2. ASSUME Len(bills') = Len(bills), pass' = pass,
             \A b \in BillIds : Core(bills'[b]) = Core(bills[b])
      PROVE  RebillInv'
  <2>1. BillIds' = BillIds
    BY <1>2 DEF BillIds
  <2>2. \A b \in BillIds : /\ bills'[b].lines = bills[b].lines
                           /\ bills'[b].by = bills[b].by
                           /\ bills'[b].seen = bills[b].seen
    BY <1>2 DEF Core
  <2>3. RebillNeedsOverlap'
    BY <2>1, <2>2 DEF RebillInv, RebillNeedsOverlap
  <2>4. ASSUME NEW q \in Pass PROVE Fresh(q)'
    BY SMTT(30), <1>2, <2>1, <2>2 DEF RebillInv, Fresh
  <2> QED
    BY <2>3, <2>4 DEF RebillInv
<1>3. ASSUME \/ \E i \in Item : Deliver(i) \/ AdminRevert(i)
             \/ \E r \in Request : OpStep(r)
             \/ \E b \in BillIds : DueDatePasses(b)
             \/ MarkOverdue
             \/ UNCHANGED vars
      PROVE  RebillInv'
  BY <1>2, <1>3, OthersKeepCore
<1> QED
  BY <1>1, <1>3 DEF Next

(* An item is charged twice only by two passes that overlapped, whatever   *)
(* the payments, adjustments, voids and failures around them.              *)
THEOREM RebillOnlyByOverlap == Spec => []RebillNeedsOverlap
<1>1. Init => RebillInv
  BY DEF Init, RebillInv, RebillNeedsOverlap, Fresh, IdlePass, BillIds
<1>2. TypeOK /\ RebillInv /\ [Next]_vars => RebillInv'
  BY RebillStep, BillingConstants
<1>3. RebillInv => RebillNeedsOverlap
  BY DEF RebillInv
<1> QED
  BY <1>1, <1>2, <1>3, TypeCorrect, PTL DEF Spec

(* With one pass at a time, as when only the nightly cron bills, no        *)
(* delivery is ever on two bills.                                          *)
THEOREM OnePassNeverDoubleBills ==
  ASSUME NEW thePass, Pass = {thePass}
  PROVE  Spec => []NoDoubleBilling
<1>1. TypeOK /\ RebillNeedsOverlap => NoDoubleBilling
  <2> SUFFICES ASSUME TypeOK, RebillNeedsOverlap,
                      NEW x \in BillIds, NEW y \in BillIds, x < y
               PROVE  bills[x].lines \cap bills[y].lines = {}
    BY DEF NoDoubleBilling, BillIds
  <2>1. bills[x].by = bills[y].by
    BY BillFields DEF Bill
  <2> QED
    BY <2>1 DEF RebillNeedsOverlap
<1> QED
  BY <1>1, TypeCorrect, RebillOnlyByOverlap, PTL

(***************************************************************************)
(* The ledger.  LedgerOk is what every bill satisfies, CallOk what the     *)
(* snapshot of a running call still says about its bill.                   *)
(***************************************************************************)
LedgerOk(bill) ==
  /\ bill.total = bill.subtotal + bill.adjustments
  /\ bill.adjustments + bill.credits >= 0
  /\ bill.amountPaid >= 0
  /\ bill.amountPaid <= bill.received
  /\ bill.status = "ISSUED" => bill.amountPaid = 0
  /\ bill.status = "PARTIALLY_PAID" => bill.amountPaid > 0
  /\ bill.status = "PAID" => bill.amountPaid + bill.credits >= bill.subtotal

CallOk(o, bill) ==
  /\ o.pc \in {"payRow", "payWrite"} =>
       o.amount > 0 /\ o.base >= 0 /\ o.limit + bill.credits >= bill.subtotal
  /\ o.pc = "payRow" => o.base <= bill.received
  /\ o.pc = "payWrite" => o.base + o.amount <= bill.received
  /\ o.pc \in {"adjRow", "adjWrite"} => o.limit = bill.subtotal
  /\ o.pc = "adjRow" => o.base + bill.credits >= 0
  /\ o.pc = "adjWrite" => o.base + o.amount + bill.credits >= 0

LedgerInv ==
  /\ \A b \in BillIds : LedgerOk(bills[b])
  /\ \A r \in Request : op[r].pc # "new" => CallOk(op[r], bills[op[r].bill])

\* Rows are only ever added, and the subtotal is never rewritten.
Grows(bill, e) ==
  /\ e.subtotal = bill.subtotal
  /\ e.credits >= bill.credits
  /\ e.received >= bill.received

LEMMA CallOkGrows ==
  ASSUME NEW bill \in Bill, NEW e \in Bill, Grows(bill, e),
         NEW o \in OpState, CallOk(o, bill)
  PROVE  CallOk(o, e)
BY BillTypes DEF Grows, CallOk, OpState, Money

LEMMA PaidLedger ==
  ASSUME NEW bill \in Bill, LedgerOk(bill),
         NEW o \in OpState, o.pc = "payWrite", CallOk(o, bill)
  PROVE  LedgerOk(Paid(bill, o)) /\ Grows(bill, Paid(bill, o))
<1> DEFINE e == Paid(bill, o)
<1>1. o.base \in Int /\ o.amount \in Int /\ o.limit \in Int
  BY DEF OpState, Money
<1>2. NewPaid(o) \in Int /\ NewPaid(o) > 0 /\ NewPaid(o) <= bill.received
  BY <1>1, BillTypes DEF NewPaid, CallOk
<1>3. /\ e.amountPaid = NewPaid(o)
      /\ e.status = PaidStatus(NewPaid(o), o.limit)
      /\ e.total = bill.total /\ e.subtotal = bill.subtotal
      /\ e.adjustments = bill.adjustments
      /\ e.received = bill.received /\ e.credits = bill.credits
  BY DEF Paid, Bill
<1> HIDE DEF e
<1>4. e.status = "PAID" => NewPaid(o) + bill.credits >= bill.subtotal
  BY <1>1, <1>2, <1>3, BillTypes DEF PaidStatus, CallOk
<1>5. e.status # "ISSUED"
  BY <1>3 DEF PaidStatus
<1>6. LedgerOk(e)
  BY <1>2, <1>3, <1>4, <1>5, BillTypes DEF LedgerOk
<1>7. Grows(bill, e)
  BY <1>3, BillTypes DEF Grows
<1> QED
  BY <1>6, <1>7 DEF e

LEMMA AdjustedLedger ==
  ASSUME NEW bill \in Bill, LedgerOk(bill),
         NEW o \in OpState, o.pc = "adjWrite", CallOk(o, bill)
  PROVE  LedgerOk(Adjusted(bill, o)) /\ Grows(bill, Adjusted(bill, o))
<1> DEFINE e == Adjusted(bill, o)
<1>1. o.base \in Int /\ o.amount \in Int /\ o.limit \in Int
  BY DEF OpState, Money
<1>2. /\ e.adjustments = o.base + o.amount
      /\ e.total = o.limit + (o.base + o.amount)
      /\ e.amountPaid = bill.amountPaid /\ e.status = bill.status
      /\ e.subtotal = bill.subtotal
      /\ e.received = bill.received /\ e.credits = bill.credits
  BY DEF Adjusted, Bill, NewTotal, NewAdjustments
<1> HIDE DEF e
<1>3. LedgerOk(e)
  BY <1>1, <1>2, BillTypes DEF LedgerOk, CallOk
<1>4. Grows(bill, e)
  BY <1>2, BillTypes DEF Grows
<1> QED
  BY <1>3, <1>4 DEF e

LEMMA RowLedger ==
  ASSUME NEW bill \in Bill, LedgerOk(bill)
  PROVE  /\ \A a \in Int : a > 0 =>
              LedgerOk(Received(bill, a)) /\ Grows(bill, Received(bill, a))
         /\ \A d \in Int : LedgerOk(Booked(bill, d)) /\ Grows(bill, Booked(bill, d))
<1>1. ASSUME NEW a \in Int, a > 0
      PROVE  LedgerOk(Received(bill, a)) /\ Grows(bill, Received(bill, a))
  <2> DEFINE e == Received(bill, a)
  <2>1. /\ e.received = bill.received + a
        /\ e.total = bill.total /\ e.subtotal = bill.subtotal
        /\ e.adjustments = bill.adjustments /\ e.credits = bill.credits
        /\ e.amountPaid = bill.amountPaid /\ e.status = bill.status
    BY DEF Received, Bill
  <2> HIDE DEF e
  <2>2. LedgerOk(e) /\ Grows(bill, e)
    BY <1>1, <2>1, BillTypes DEF LedgerOk, Grows
  <2> QED
    BY <2>2 DEF e
<1>2. ASSUME NEW d \in Int
      PROVE  LedgerOk(Booked(bill, d)) /\ Grows(bill, Booked(bill, d))
  <2> DEFINE e == Booked(bill, d)
  <2>1. /\ e.credits = IF d < 0 THEN bill.credits - d ELSE bill.credits
        /\ e.total = bill.total /\ e.subtotal = bill.subtotal
        /\ e.adjustments = bill.adjustments /\ e.received = bill.received
        /\ e.amountPaid = bill.amountPaid /\ e.status = bill.status
    BY DEF Booked, Bill
  <2> HIDE DEF e
  <2>2. LedgerOk(e) /\ Grows(bill, e)
    BY <2>1, BillTypes DEF LedgerOk, Grows
  <2> QED
    BY <2>2 DEF e
<1> QED
  BY <1>1, <1>2

LEMMA StatusLedger ==
  ASSUME NEW bill \in Bill, LedgerOk(bill)
  PROVE  /\ \A st \in {"VOID", "OVERDUE"} :
              LedgerOk(WithStatus(bill, st)) /\ Grows(bill, WithStatus(bill, st))
         /\ LedgerOk(PastDue(bill)) /\ Grows(bill, PastDue(bill))
BY BillTypes DEF WithStatus, PastDue, LedgerOk, Grows, Bill

\* A step that grows bills and leaves the calls alone, or moves one of them.
LEMMA GrowKeepsLedger ==
  ASSUME TypeOK, TypeOK', LedgerInv, BillIds \subseteq BillIds',
         \A n \in BillIds : LedgerOk(bills'[n]) /\ Grows(bills[n], bills'[n]),
         \A n \in BillIds' \ BillIds : LedgerOk(bills'[n]),
         \A q \in Request : op'[q] = op[q] \/ op'[q].pc = "new" \/ CallOk(op'[q], bills'[op'[q].bill])
  PROVE  LedgerInv'
<1>1. \A n \in BillIds' : LedgerOk(bills'[n])
  OBVIOUS
<1>2. ASSUME NEW q \in Request, op'[q].pc # "new", op'[q] = op[q]
      PROVE  CallOk(op'[q], bills'[op'[q].bill])
  <2> DEFINE n == op[q].bill
  <2>1. n \in BillIds /\ n \in BillIds' /\ op[q] \in OpState
    BY <1>2 DEF TypeOK
  <2>2. bills[n] \in Bill /\ bills'[n] \in Bill
    BY <2>1, ElementOfSeq DEF TypeOK, BillIds
  <2>3. CallOk(op[q], bills[n])
    BY <1>2 DEF LedgerInv
  <2> QED
    BY <1>2, <2>1, <2>2, <2>3, CallOkGrows
<1> QED
  BY <1>1, <1>2 DEF LedgerInv

LEMMA SameGrows ==
  ASSUME NEW bill \in Bill
  PROVE  Grows(bill, bill)
BY BillTypes DEF Grows

LEMMA OpStepLedger ==
  ASSUME BillingConstants, TypeOK, TypeOK', LedgerInv, NEW r \in Request, OpStep(r)
  PROVE  LedgerInv'
<1>a. op \in [Request -> OpState] /\ op[r] \in OpState
  BY DEF TypeOK
<1>b. ASSUME NEW b \in BillIds, NEW e \in Bill, LedgerOk(e), Grows(bills[b], e),
             bills' = [bills EXCEPT ![b] = e], b = op[r].bill,
             NEW o \in OpState, op' = [op EXCEPT ![r] = o], o.bill = b, CallOk(o, e)
      PROVE  LedgerInv'
  <2>1. /\ BillIds' = BillIds /\ bills'[b] = e
        /\ \A n \in BillIds : n # b => bills'[n] = bills[n]
    BY <1>b, ReplaceBill
  <2>2. \A n \in BillIds : LedgerOk(bills'[n]) /\ Grows(bills[n], bills'[n])
    BY <1>b, <2>1, BillFields, SameGrows DEF LedgerInv
  <2>3. \A q \in Request : op'[q] = op[q] \/ CallOk(op'[q], bills'[op'[q].bill])
    BY <1>a, <1>b, <2>1
  <2> QED
    BY <2>1, <2>2, <2>3, GrowKeepsLedger
<1>c. ASSUME bills' = bills, NEW o \in OpState, op' = [op EXCEPT ![r] = o],
             o.bill \in BillIds, CallOk(o, bills[o.bill])
      PROVE  LedgerInv'
  <2>1. BillIds' = BillIds
    BY <1>c DEF BillIds
  <2>2. \A n \in BillIds : LedgerOk(bills'[n]) /\ Grows(bills[n], bills'[n])
    BY <1>c, BillFields, SameGrows DEF LedgerInv
  <2>3. \A q \in Request : op'[q] = op[q] \/ CallOk(op'[q], bills'[op'[q].bill])
    BY <1>a, <1>c
  <2> QED
    BY <2>1, <2>2, <2>3, GrowKeepsLedger
<1>d. ASSUME op[r].pc # "new"
      PROVE  /\ op[r].bill \in BillIds
             /\ bills[op[r].bill] \in Bill
             /\ LedgerOk(bills[op[r].bill])
             /\ CallOk(op[r], bills[op[r].bill])
  BY <1>d, BillFields DEF TypeOK, LedgerInv
<1>e. op[r].amount \in Int /\ op[r].base \in Int /\ op[r].limit \in Int
  BY <1>a DEF OpState, Money
<1>f. ASSUME NEW e \in Bill
      PROVE  CallOk(At(op[r], "done"), e) /\ At(op[r], "done") \in OpState
             /\ At(op[r], "done").bill = op[r].bill
  BY <1>a, OpUpdate DEF CallOk
<1>1. ASSUME NEW b \in BillIds, NEW a \in Amount, PayRead(r, b, a) PROVE LedgerInv'
  <2> DEFINE o == [pc |-> "payRow", bill |-> b, amount |-> a,
                   base |-> bills[b].amountPaid, limit |-> bills[b].total]
  <2>0. a \in Int /\ a > 0
    BY DEF BillingConstants
  <2>1. bills[b] \in Bill /\ LedgerOk(bills[b])
    BY BillFields DEF LedgerInv
  <2>2. o \in OpState
    BY <2>0, <2>1, BillTypes DEF OpState, Money, BillIds
  <2>3. CallOk(o, bills[b])
    BY <2>0, <2>1, BillTypes DEF LedgerOk, CallOk
  <2> QED
    BY <1>1, <1>c, <2>2, <2>3 DEF PayRead
<1>2. ASSUME PayRow(r) PROVE LedgerInv'
  <2> DEFINE b == op[r].bill
             e == Received(bills[b], op[r].amount)
             o == At(op[r], "payWrite")
  <2>1. op[r].pc = "payRow" /\ op[r].amount > 0
    BY <1>2, <1>d DEF PayRow, CallOk
  <2>2. e \in Bill /\ LedgerOk(e) /\ Grows(bills[b], e)
    BY <1>d, <1>e, <2>1, BillUpdate, RowLedger
  <2>3. /\ o \in OpState /\ o.bill = b /\ o.pc = "payWrite"
        /\ o.amount = op[r].amount /\ o.base = op[r].base /\ o.limit = op[r].limit
    BY <1>a, OpUpdate
  <2>4. e.received = bills[b].received + op[r].amount
        /\ e.credits = bills[b].credits /\ e.subtotal = bills[b].subtotal
    BY <1>d, <2>1 DEF Received, Bill
  <2>5. CallOk(o, e)
    BY <1>d, <1>e, <2>1, <2>3, <2>4, BillTypes DEF CallOk
  <2>6. bills' = [bills EXCEPT ![b] = e] /\ op' = [op EXCEPT ![r] = o]
    BY <1>2 DEF PayRow
  <2> HIDE DEF e, o
  <2> QED
    BY <1>b, <1>d, <2>1, <2>2, <2>3, <2>5, <2>6
<1>3. ASSUME PayWrite(r) PROVE LedgerInv'
  <2> DEFINE b == op[r].bill
             e == Paid(bills[b], op[r])
             o == At(op[r], "done")
  <2>1. op[r].pc = "payWrite"
    BY <1>3 DEF PayWrite
  <2>2. e \in Bill /\ LedgerOk(e) /\ Grows(bills[b], e)
    BY <1>a, <1>d, <2>1, BillUpdate, PaidLedger
  <2>3. bills' = [bills EXCEPT ![b] = e] /\ op' = [op EXCEPT ![r] = o]
    BY <1>3 DEF PayWrite
  <2>4. o \in OpState /\ o.bill = b /\ CallOk(o, e)
    BY <1>f, <2>2
  <2> HIDE DEF e, o
  <2> QED
    BY <1>b, <1>d, <2>1, <2>2, <2>3, <2>4
<1>4. ASSUME NEW b \in BillIds, NEW d \in Amount \cup {-a : a \in Amount}, AdjRead(r, b, d)
      PROVE  LedgerInv'
  <2> DEFINE o == [pc |-> "adjRow", bill |-> b, amount |-> d,
                   base |-> bills[b].adjustments, limit |-> bills[b].subtotal]
  <2>0. d \in Int
    BY DEF BillingConstants
  <2>1. bills[b] \in Bill /\ LedgerOk(bills[b])
    BY BillFields DEF LedgerInv
  <2>2. o \in OpState
    BY <2>0, <2>1, BillTypes DEF OpState, Money, BillIds
  <2>3. CallOk(o, bills[b])
    BY <2>0, <2>1, BillTypes DEF LedgerOk, CallOk
  <2> QED
    BY <1>4, <1>c, <2>2, <2>3 DEF AdjRead
<1>5. ASSUME AdjRow(r) PROVE LedgerInv'
  <2> DEFINE b == op[r].bill
             e == Booked(bills[b], op[r].amount)
             o == At(op[r], "adjWrite")
  <2>1. op[r].pc = "adjRow"
    BY <1>5 DEF AdjRow
  <2>2. e \in Bill /\ LedgerOk(e) /\ Grows(bills[b], e)
    BY <1>d, <1>e, <2>1, BillUpdate, RowLedger
  <2>3. /\ o \in OpState /\ o.bill = b /\ o.pc = "adjWrite"
        /\ o.amount = op[r].amount /\ o.base = op[r].base /\ o.limit = op[r].limit
    BY <1>a, OpUpdate
  <2>4. /\ e.credits = IF op[r].amount < 0 THEN bills[b].credits - op[r].amount
                       ELSE bills[b].credits
        /\ e.subtotal = bills[b].subtotal
    BY <1>d, <2>1 DEF Booked, Bill
  <2>5. CallOk(o, e)
    BY <1>d, <1>e, <2>1, <2>3, <2>4, BillTypes DEF CallOk
  <2>6. bills' = [bills EXCEPT ![b] = e] /\ op' = [op EXCEPT ![r] = o]
    BY <1>5 DEF AdjRow
  <2> HIDE DEF e, o
  <2> QED
    BY <1>b, <1>d, <2>1, <2>2, <2>3, <2>5, <2>6
<1>6. ASSUME AdjWrite(r) PROVE LedgerInv'
  <2> DEFINE b == op[r].bill
             e == Adjusted(bills[b], op[r])
             o == At(op[r], "done")
  <2>1. op[r].pc = "adjWrite"
    BY <1>6 DEF AdjWrite
  <2>2. e \in Bill /\ LedgerOk(e) /\ Grows(bills[b], e)
    BY <1>a, <1>d, <2>1, BillUpdate, AdjustedLedger
  <2>3. bills' = [bills EXCEPT ![b] = e] /\ op' = [op EXCEPT ![r] = o]
    BY <1>6 DEF AdjWrite
  <2>4. o \in OpState /\ o.bill = b /\ CallOk(o, e)
    BY <1>f, <2>2
  <2> HIDE DEF e, o
  <2> QED
    BY <1>b, <1>d, <2>1, <2>2, <2>3, <2>4
<1>7. ASSUME NEW b \in BillIds, VoidRead(r, b) PROVE LedgerInv'
  <2> DEFINE o == [pc |-> "voidWrite", bill |-> b, amount |-> 0, base |-> 0, limit |-> 0]
  <2>1. o \in OpState /\ CallOk(o, bills[b])
    BY DEF OpState, Money, BillIds, CallOk
  <2> QED
    BY <1>7, <1>c, <2>1 DEF VoidRead
<1>8. ASSUME VoidWrite(r) PROVE LedgerInv'
  <2> DEFINE b == op[r].bill
             e == WithStatus(bills[b], "VOID")
             o == At(op[r], "done")
  <2>1. op[r].pc = "voidWrite"
    BY <1>8 DEF VoidWrite
  <2>2. e \in Bill /\ LedgerOk(e) /\ Grows(bills[b], e)
    BY <1>d, <2>1, BillUpdate, StatusLedger DEF BillStatus
  <2>3. bills' = [bills EXCEPT ![b] = e] /\ op' = [op EXCEPT ![r] = o]
    BY <1>8 DEF VoidWrite
  <2>4. o \in OpState /\ o.bill = b /\ CallOk(o, e)
    BY <1>f, <2>2
  <2> HIDE DEF e, o
  <2> QED
    BY <1>b, <1>d, <2>1, <2>2, <2>3, <2>4
<1>9. ASSUME OpFails(r) PROVE LedgerInv'
  <2> DEFINE o == At(op[r], "done")
  <2>1. op[r].pc # "new" /\ bills' = bills /\ op' = [op EXCEPT ![r] = o]
    BY <1>9 DEF OpFails
  <2>2. o \in OpState /\ o.bill \in BillIds /\ CallOk(o, bills[o.bill])
    BY <1>d, <1>f, <2>1
  <2> HIDE DEF o
  <2> QED
    BY <1>c, <2>1, <2>2
<1> QED
  BY <1>1, <1>2, <1>3, <1>4, <1>5, <1>6, <1>7, <1>8, <1>9 DEF OpStep

LEMMA LedgerStep ==
  ASSUME BillingConstants, TypeOK, TypeOK', LedgerInv, [Next]_vars
  PROVE  LedgerInv'
<1>1. ASSUME bills' = bills, op' = op PROVE LedgerInv'
  BY <1>1 DEF LedgerInv, BillIds
<1>2. ASSUME NEW p \in Pass, NEW c \in Customer, NEW S \in SUBSET Item,
             NEW settlement \in BOOLEAN, op' = op,
             bills' = Append(bills, NewBill(p, c, S, settlement))
      PROVE  LedgerInv'
  <2> DEFINE e == NewBill(p, c, S, settlement)
  <2>1. e \in Bill
    BY NewBillType
  <2>2. LedgerOk(e)
    BY <2>1, BillTypes DEF NewBill, LedgerOk
  <2>3. bills' = Append(bills, e)
    BY <1>2
  <2> HIDE DEF e
  <2>4. /\ Len(bills') = Len(bills) + 1
        /\ \A b \in BillIds : bills'[b] = bills[b]
        /\ bills'[Len(bills) + 1] = e
    BY <2>1, <2>3, AppendBill
  <2>5. BillIds \subseteq BillIds' /\ BillIds' \ BillIds = {Len(bills) + 1}
    BY <2>4 DEF BillIds, TypeOK
  <2>6. \A n \in BillIds : LedgerOk(bills'[n]) /\ Grows(bills[n], bills'[n])
    BY <2>4, BillFields, SameGrows DEF LedgerInv
  <2> QED
    BY <1>2, <2>2, <2>4, <2>5, <2>6, GrowKeepsLedger
<1>3. ASSUME NEW p \in Pass, PassStep(p) PROVE LedgerInv'
  <2>0. pass[p].items \in SUBSET Item
    BY DEF TypeOK, PassState
  <2>1. ASSUME NEW c \in Customer, CycleIssue(p, c) PROVE LedgerInv'
    <3> DEFINE mine == {i \in pass[p].items : OwnerOf(i) = c}
    <3>1. mine \in SUBSET Item /\ FALSE \in BOOLEAN
      BY <2>0
    <3> QED
      BY <1>2, <2>1, <3>1 DEF CycleIssue
  <2>2. ASSUME SettleIssue(p) PROVE LedgerInv'
    <3>1. CASE pass[p].items = {}
      BY <1>1, <2>2, <3>1 DEF SettleIssue
    <3>2. CASE pass[p].items # {}
      <4> DEFINE c == OwnerOf(CHOOSE i \in pass[p].items : TRUE)
      <4>1. c \in Customer
        BY <2>0, <3>2 DEF OwnerOf, BillingConstants
      <4>2. bills' = Append(bills, NewBill(p, c, pass[p].items, TRUE)) /\ op' = op
        BY <2>2, <3>2 DEF SettleIssue
      <4> HIDE DEF c
      <4> QED
        BY <1>2, <2>0, <4>1, <4>2
    <3> QED
      BY <3>1, <3>2
  <2>3. ASSUME \/ \E w \in Window : CycleRead(p, w)
               \/ CycleEnd(p)
               \/ \E s \in Sub : SettlePeriod(p, s)
               \/ SettleRead(p)
               \/ PassFails(p)
        PROVE  LedgerInv'
    BY <1>1, <2>3 DEF CycleRead, CycleEnd, SettlePeriod, SettleRead, PassFails
  <2> QED
    BY <1>3, <2>1, <2>2, <2>3 DEF PassStep
<1>4. ASSUME NEW b \in BillIds, DueDatePasses(b) PROVE LedgerInv'
  <2> DEFINE e == PastDue(bills[b])
  <2>1. e \in Bill /\ LedgerOk(e) /\ Grows(bills[b], e)
    BY BillFields, BillUpdate, StatusLedger DEF LedgerInv
  <2>2. bills' = [bills EXCEPT ![b] = e] /\ op' = op
    BY <1>4 DEF DueDatePasses
  <2> HIDE DEF e
  <2>3. /\ BillIds' = BillIds /\ bills'[b] = e
        /\ \A n \in BillIds : n # b => bills'[n] = bills[n]
    BY <2>1, <2>2, ReplaceBill
  <2>4. \A n \in BillIds : LedgerOk(bills'[n]) /\ Grows(bills[n], bills'[n])
    BY <2>1, <2>3, BillFields, SameGrows DEF LedgerInv
  <2> QED
    BY <2>2, <2>3, <2>4, GrowKeepsLedger
<1>5. ASSUME MarkOverdue PROVE LedgerInv'
  <2>1. /\ BillIds' = BillIds /\ op' = op
        /\ \A b \in BillIds : bills'[b] = bills[b] \/ bills'[b] = WithStatus(bills[b], "OVERDUE")
    BY <1>5, MarkOverdueBills DEF MarkOverdue
  <2>2. \A n \in BillIds : LedgerOk(bills'[n]) /\ Grows(bills[n], bills'[n])
    BY <2>1, BillFields, SameGrows, StatusLedger DEF LedgerInv
  <2> QED
    BY <2>1, <2>2, GrowKeepsLedger
<1>6. ASSUME NEW i \in Item, Deliver(i) \/ AdminRevert(i) PROVE LedgerInv'
  BY <1>1, <1>6 DEF Deliver, AdminRevert
<1>7. CASE UNCHANGED vars
  BY <1>1, <1>7 DEF vars
<1> QED
  BY <1>3, <1>4, <1>5, <1>6, <1>7, OpStepLedger DEF Next

LEMMA LedgerCorrect == Spec => []LedgerInv
<1>1. Init => LedgerInv
  BY DEF Init, LedgerInv, BillIds, NewOp
<1>2. TypeOK /\ TypeOK' /\ LedgerInv /\ [Next]_vars => LedgerInv'
  BY LedgerStep, BillingConstants
<1> QED
  BY <1>1, <1>2, TypeCorrect, PTL DEF Spec

(* The total and the adjustments never drift apart, although addAdjustment *)
(* calls overwrite each other: both columns come from one read.            *)
THEOREM TotalAlwaysAddsUp == Spec => []TotalAddsUp
<1>1. LedgerInv => TotalAddsUp
  BY DEF LedgerInv, LedgerOk, TotalAddsUp
<1> QED
  BY <1>1, LedgerCorrect, PTL

(* amountPaid never exceeds the payment rows, through lost updates, races  *)
(* with voids and handlers that die between the row and the bill.          *)
THEOREM NoMoneyInvented == Spec => []PaidWithinReceived
<1>1. LedgerInv => PaidWithinReceived
  BY DEF LedgerInv, LedgerOk, PaidWithinReceived
<1> QED
  BY <1>1, LedgerCorrect, PTL

(* A bill shows PAID only when payments and credits cover its subtotal.    *)
THEOREM PaidIsCovered == Spec => []StatusBackedByMoney
<1>1. LedgerInv => StatusBackedByMoney
  BY DEF LedgerInv, LedgerOk, StatusBackedByMoney
<1> QED
  BY <1>1, LedgerCorrect, PTL
(***************************************************************************)
(* The columns against the rows.  While a bill is not contended, at most   *)
(* one call of each kind runs on it, and what it read is still there.      *)
(***************************************************************************)
Paying(o, b)    == o.bill = b /\ o.pc \in {"payRow", "payWrite"}
Adjusting(o, b) == o.bill = b /\ o.pc \in {"adjRow", "adjWrite"}

PayKept(o, bill) ==
  /\ bill.amountPaid = o.base
  /\ o.pc = "payRow" => bill.received = o.base
  /\ o.pc = "payWrite" => bill.received = o.base + o.amount

AdjKept(o, bill) ==
  /\ bill.adjustments = o.base
  /\ o.pc = "adjRow" => bill.debits - bill.credits = o.base
  /\ o.pc = "adjWrite" => bill.debits - bill.credits = o.base + o.amount

PayColumn(b) ==
  <<"pay", b>> \notin contended =>
    /\ \A q, s \in Request : Paying(op[q], b) /\ Paying(op[s], b) => q = s
    /\ \A q \in Request : Paying(op[q], b) => PayKept(op[q], bills[b])
    /\ (\A q \in Request : ~Paying(op[q], b)) => bills[b].amountPaid = bills[b].received

AdjColumn(b) ==
  <<"adjust", b>> \notin contended =>
    /\ \A q, s \in Request : Adjusting(op[q], b) /\ Adjusting(op[s], b) => q = s
    /\ \A q \in Request : Adjusting(op[q], b) => AdjKept(op[q], bills[b])
    /\ (\A q \in Request : ~Adjusting(op[q], b)) =>
         bills[b].adjustments = bills[b].debits - bills[b].credits

ColumnInv == \A b \in BillIds : PayColumn(b) /\ AdjColumn(b)

LEMMA RunningIs ==
  ASSUME NEW b
  PROVE  /\ Running("pay", b) = {q \in Request : Paying(op[q], b)}
         /\ Running("adjust", b) = {q \in Request : Adjusting(op[q], b)}
BY DEF Running, Paying, Adjusting

\* A step that leaves the calls of a kind on bill b and their columns alone.
LEMMA PayLeftAlone ==
  ASSUME NEW b, PayColumn(b), contended \subseteq contended',
         bills'[b].amountPaid = bills[b].amountPaid,
         bills'[b].received = bills[b].received,
         \A q \in Request : op'[q] = op[q] \/ (~Paying(op[q], b) /\ ~Paying(op'[q], b))
  PROVE  PayColumn(b)'
<1>1. \A q \in Request : Paying(op'[q], b) <=> Paying(op[q], b)
  OBVIOUS
<1>2. \A q \in Request : Paying(op'[q], b) => op'[q] = op[q]
  OBVIOUS
<1> QED
  BY <1>1, <1>2 DEF PayColumn, PayKept

LEMMA AdjLeftAlone ==
  ASSUME NEW b, AdjColumn(b), contended \subseteq contended',
         bills'[b].adjustments = bills[b].adjustments,
         bills'[b].debits = bills[b].debits,
         bills'[b].credits = bills[b].credits,
         \A q \in Request : op'[q] = op[q] \/ (~Adjusting(op[q], b) /\ ~Adjusting(op'[q], b))
  PROVE  AdjColumn(b)'
<1>1. \A q \in Request : Adjusting(op'[q], b) <=> Adjusting(op[q], b)
  OBVIOUS
<1>2. \A q \in Request : Adjusting(op'[q], b) => op'[q] = op[q]
  OBVIOUS
<1> QED
  BY <1>1, <1>2 DEF AdjColumn, AdjKept

\* A call on bill b that moves on, to a state that still fits the bill.
LEMMA PayMoves ==
  ASSUME TypeOK, NEW r \in Request, NEW o \in OpState, op' = [op EXCEPT ![r] = o],
         NEW b, PayColumn(b), contended \subseteq contended',
         Paying(op[r], b),
         <<"pay", b>> \notin contended' =>
           IF Paying(o, b) THEN PayKept(o, bills'[b])
                           ELSE bills'[b].amountPaid = bills'[b].received
  PROVE  PayColumn(b)'
<1> SUFFICES ASSUME <<"pay", b>> \notin contended'
    PROVE  /\ \A q, s \in Request : Paying(op'[q], b) /\ Paying(op'[s], b) => q = s
           /\ \A q \in Request : Paying(op'[q], b) => PayKept(op'[q], bills'[b])
           /\ (\A q \in Request : ~Paying(op'[q], b)) =>
                bills'[b].amountPaid = bills'[b].received
  BY DEF PayColumn
<1>1. \A q \in Request : Paying(op[q], b) => q = r
  BY DEF PayColumn
<1>2. op'[r] = o /\ \A q \in Request : q # r => op'[q] = op[q]
  BY DEF TypeOK
<1>3. \A q \in Request : Paying(op'[q], b) => q = r
  BY <1>1, <1>2
<1> QED
  BY <1>2, <1>3

LEMMA AdjMoves ==
  ASSUME TypeOK, NEW r \in Request, NEW o \in OpState, op' = [op EXCEPT ![r] = o],
         NEW b, AdjColumn(b), contended \subseteq contended',
         Adjusting(op[r], b),
         <<"adjust", b>> \notin contended' =>
           IF Adjusting(o, b) THEN AdjKept(o, bills'[b])
           ELSE bills'[b].adjustments = bills'[b].debits - bills'[b].credits
  PROVE  AdjColumn(b)'
<1> SUFFICES ASSUME <<"adjust", b>> \notin contended'
    PROVE  /\ \A q, s \in Request : Adjusting(op'[q], b) /\ Adjusting(op'[s], b) => q = s
           /\ \A q \in Request : Adjusting(op'[q], b) => AdjKept(op'[q], bills'[b])
           /\ (\A q \in Request : ~Adjusting(op'[q], b)) =>
                bills'[b].adjustments = bills'[b].debits - bills'[b].credits
  BY DEF AdjColumn
<1>1. \A q \in Request : Adjusting(op[q], b) => q = r
  BY DEF AdjColumn
<1>2. op'[r] = o /\ \A q \in Request : q # r => op'[q] = op[q]
  BY DEF TypeOK
<1>3. \A q \in Request : Adjusting(op'[q], b) => q = r
  BY <1>1, <1>2
<1> QED
  BY <1>2, <1>3

\* A call that starts on bill b: alone, or the bill becomes contended.
LEMMA PayStarts ==
  ASSUME TypeOK, NEW r \in Request, NEW o \in OpState, op' = [op EXCEPT ![r] = o],
         NEW b, PayColumn(b), Contend("pay", b), bills' = bills,
         op[r].pc = "new", o.pc = "payRow", o.bill = b, o.base = bills[b].amountPaid
  PROVE  PayColumn(b)'
<1> SUFFICES ASSUME <<"pay", b>> \notin contended'
    PROVE  /\ \A q, s \in Request : Paying(op'[q], b) /\ Paying(op'[s], b) => q = s
           /\ \A q \in Request : Paying(op'[q], b) => PayKept(op'[q], bills'[b])
           /\ (\A q \in Request : ~Paying(op'[q], b)) =>
                bills'[b].amountPaid = bills'[b].received
  BY DEF PayColumn
<1>1. Running("pay", b) = {} /\ <<"pay", b>> \notin contended
  BY DEF Contend
<1>2. \A q \in Request : ~Paying(op[q], b)
  BY <1>1, RunningIs
<1>3. bills[b].amountPaid = bills[b].received
  BY <1>1, <1>2 DEF PayColumn
<1>4. op'[r] = o /\ \A q \in Request : q # r => op'[q] = op[q]
  BY DEF TypeOK
<1>5. Paying(o, b) /\ PayKept(o, bills[b])
  BY <1>3 DEF Paying, PayKept
<1> QED
  BY <1>2, <1>4, <1>5

LEMMA AdjStarts ==
  ASSUME TypeOK, NEW r \in Request, NEW o \in OpState, op' = [op EXCEPT ![r] = o],
         NEW b, AdjColumn(b), Contend("adjust", b), bills' = bills,
         op[r].pc = "new", o.pc = "adjRow", o.bill = b, o.base = bills[b].adjustments
  PROVE  AdjColumn(b)'
<1> SUFFICES ASSUME <<"adjust", b>> \notin contended'
    PROVE  /\ \A q, s \in Request : Adjusting(op'[q], b) /\ Adjusting(op'[s], b) => q = s
           /\ \A q \in Request : Adjusting(op'[q], b) => AdjKept(op'[q], bills'[b])
           /\ (\A q \in Request : ~Adjusting(op'[q], b)) =>
                bills'[b].adjustments = bills'[b].debits - bills'[b].credits
  BY DEF AdjColumn
<1>1. Running("adjust", b) = {} /\ <<"adjust", b>> \notin contended
  BY DEF Contend
<1>2. \A q \in Request : ~Adjusting(op[q], b)
  BY <1>1, RunningIs
<1>3. bills[b].adjustments = bills[b].debits - bills[b].credits
  BY <1>1, <1>2 DEF AdjColumn
<1>4. op'[r] = o /\ \A q \in Request : q # r => op'[q] = op[q]
  BY DEF TypeOK
<1>5. Adjusting(o, b) /\ AdjKept(o, bills[b])
  BY <1>3 DEF Adjusting, AdjKept
<1> QED
  BY <1>2, <1>4, <1>5

\* A call moves to state o, and bill b to e: all other bills and calls stay.
LEMMA OneCallMoves ==
  ASSUME TypeOK, NEW r \in Request, NEW b \in BillIds, NEW e \in Bill, NEW o \in OpState,
         op[r].pc = "new" \/ op[r].bill = b, o.bill = b,
         bills' = [bills EXCEPT ![b] = e], op' = [op EXCEPT ![r] = o],
         contended \subseteq contended', ColumnInv, PayColumn(b)', AdjColumn(b)'
  PROVE  ColumnInv'
<1>1. /\ BillIds' = BillIds
      /\ \A n \in BillIds : n # b => bills'[n] = bills[n]
  BY ReplaceBill
<1>2. op'[r] = o /\ \A q \in Request : q # r => op'[q] = op[q]
  BY DEF TypeOK
<1>3. ASSUME NEW n \in BillIds, n # b PROVE PayColumn(n)' /\ AdjColumn(n)'
  <2>1. ~Paying(op[r], n) /\ ~Paying(o, n) /\ ~Adjusting(op[r], n) /\ ~Adjusting(o, n)
    BY <1>3 DEF Paying, Adjusting
  <2>2. \A q \in Request : op'[q] = op[q] \/ (~Paying(op[q], n) /\ ~Paying(op'[q], n))
    BY <1>2, <2>1
  <2>3. \A q \in Request : op'[q] = op[q] \/ (~Adjusting(op[q], n) /\ ~Adjusting(op'[q], n))
    BY <1>2, <2>1
  <2>4. bills'[n] = bills[n] /\ PayColumn(n) /\ AdjColumn(n)
    BY <1>1, <1>3 DEF ColumnInv
  <2> QED
    BY <2>2, <2>3, <2>4, PayLeftAlone, AdjLeftAlone
<1> QED
  BY <1>1, <1>3 DEF ColumnInv

LEMMA OpStepColumns ==
  ASSUME BillingConstants, TypeOK, ColumnInv, NEW r \in Request, OpStep(r)
  PROVE  ColumnInv'
<1>a. /\ op \in [Request -> OpState] /\ op[r] \in OpState
      /\ op[r].pc # "new" => op[r].bill \in BillIds /\ bills[op[r].bill] \in Bill
  BY BillFields DEF TypeOK
<1>b. op[r].amount \in Int /\ op[r].base \in Int /\ op[r].limit \in Int
  BY <1>a DEF OpState, Money
<1>c. ASSUME NEW b \in BillIds
      PROVE  /\ bills[b] \in Bill /\ bills = [bills EXCEPT ![b] = bills[b]]
             /\ PayColumn(b) /\ AdjColumn(b)
  BY BillFields DEF ColumnInv, TypeOK, BillIds
<1>p. ASSUME NEW b, PayColumn(b), NEW o \in OpState, op' = [op EXCEPT ![r] = o],
             contended \subseteq contended', ~Paying(op[r], b), ~Paying(o, b),
             bills'[b].amountPaid = bills[b].amountPaid, bills'[b].received = bills[b].received
      PROVE  PayColumn(b)'
  <2>1. \A q \in Request : op'[q] = op[q] \/ (~Paying(op[q], b) /\ ~Paying(op'[q], b))
    BY <1>a, <1>p
  <2> QED
    BY <1>p, <2>1, PayLeftAlone
<1>q. ASSUME NEW b, AdjColumn(b), NEW o \in OpState, op' = [op EXCEPT ![r] = o],
             contended \subseteq contended', ~Adjusting(op[r], b), ~Adjusting(o, b),
             bills'[b].adjustments = bills[b].adjustments,
             bills'[b].debits = bills[b].debits, bills'[b].credits = bills[b].credits
      PROVE  AdjColumn(b)'
  <2>1. \A q \in Request : op'[q] = op[q] \/ (~Adjusting(op[q], b) /\ ~Adjusting(op'[q], b))
    BY <1>a, <1>q
  <2> QED
    BY <1>q, <2>1, AdjLeftAlone
<1>1. ASSUME NEW b \in BillIds, NEW a \in Amount, PayRead(r, b, a) PROVE ColumnInv'
  <2> DEFINE o == [pc |-> "payRow", bill |-> b, amount |-> a,
                   base |-> bills[b].amountPaid, limit |-> bills[b].total]
  <2>1. o \in OpState
    BY <1>c, BillTypes DEF OpState, Money, BillIds, BillingConstants
  <2>2. /\ op[r].pc = "new" /\ op' = [op EXCEPT ![r] = o] /\ bills' = bills
        /\ Contend("pay", b) /\ contended \subseteq contended'
    BY <1>1 DEF PayRead, Contend
  <2>3. PayColumn(b)'
    BY <1>c, <2>1, <2>2, PayStarts
  <2>4. ~Adjusting(op[r], b) /\ ~Adjusting(o, b)
    BY <2>2 DEF Adjusting
  <2>5. AdjColumn(b)'
    BY <1>c, <1>q, <2>1, <2>2, <2>4
  <2>6. o.bill = b
    OBVIOUS
  <2> HIDE DEF o
  <2> QED
    BY <1>c, <2>1, <2>2, <2>3, <2>5, <2>6, OneCallMoves
<1>2. ASSUME PayRow(r) PROVE ColumnInv'
  <2>0. PICK b \in BillIds : op[r].bill = b
    BY <1>2, <1>a DEF PayRow
  <2> DEFINE e == Received(bills[b], op[r].amount)
             o == At(op[r], "payWrite")
  <2>1. op[r].pc = "payRow" /\ op[r].bill = b /\ bills[b] \in Bill
    BY <1>2, <1>a, <2>0 DEF PayRow
  <2>2. e \in Bill /\ o \in OpState
    BY <1>a, <1>b, <2>1, BillUpdate, OpUpdate
  <2>3. bills' = [bills EXCEPT ![b] = e] /\ op' = [op EXCEPT ![r] = o] /\ contended' = contended
    BY <1>2, <2>0 DEF PayRow
  <2>c. PayColumn(b) /\ AdjColumn(b) /\ contended \subseteq contended'
    BY <1>c, <2>3
  <2>4. bills'[b] = e
    BY <2>1, <2>2, <2>3, ReplaceBill
  <2>5. /\ e.amountPaid = bills[b].amountPaid
        /\ e.received = bills[b].received + op[r].amount
        /\ e.adjustments = bills[b].adjustments
        /\ e.debits = bills[b].debits /\ e.credits = bills[b].credits
    BY <2>1 DEF Received, Bill
  <2>6. /\ o.pc = "payWrite" /\ o.bill = b
        /\ o.amount = op[r].amount /\ o.base = op[r].base
    BY <1>a, <2>0, OpUpdate
  <2> HIDE DEF e, o
  <2>7. Paying(op[r], b) /\ Paying(o, b) /\ ~Adjusting(op[r], b) /\ ~Adjusting(o, b)
    BY <2>1, <2>6 DEF Paying, Adjusting
  <2>8. <<"pay", b>> \notin contended' => PayKept(o, bills'[b])
    <3> SUFFICES ASSUME <<"pay", b>> \notin contended PROVE PayKept(o, e)
      BY <2>3, <2>4
    <3>1. PayKept(op[r], bills[b])
      BY <1>c, <2>1, <2>7 DEF PayColumn
    <3> QED
      BY <2>1, <2>5, <2>6, <3>1 DEF PayKept
  <2>9. PayColumn(b)'
    BY <1>c, <2>1, <2>2, <2>3, <2>7, <2>8, PayMoves
  <2>10. AdjColumn(b)'
    BY <1>q, <2>1, <2>2, <2>c, <2>3, <2>4, <2>5, <2>7
  <2> QED
    BY <2>1, <2>2, <2>3, <2>6, <2>9, <2>10, OneCallMoves
<1>3. ASSUME PayWrite(r) PROVE ColumnInv'
  <2>0. PICK b \in BillIds : op[r].bill = b
    BY <1>3, <1>a DEF PayWrite
  <2> DEFINE e == Paid(bills[b], op[r])
             o == At(op[r], "done")
  <2>1. op[r].pc = "payWrite" /\ op[r].bill = b /\ bills[b] \in Bill
    BY <1>3, <1>a, <2>0 DEF PayWrite
  <2>2. e \in Bill /\ o \in OpState
    BY <1>a, <2>1, BillUpdate, OpUpdate
  <2>3. bills' = [bills EXCEPT ![b] = e] /\ op' = [op EXCEPT ![r] = o] /\ contended' = contended
    BY <1>3, <2>0 DEF PayWrite
  <2>c. PayColumn(b) /\ AdjColumn(b) /\ contended \subseteq contended'
    BY <1>c, <2>3
  <2>4. bills'[b] = e
    BY <2>1, <2>2, <2>3, ReplaceBill
  <2>5. /\ e.amountPaid = op[r].base + op[r].amount
        /\ e.received = bills[b].received
        /\ e.adjustments = bills[b].adjustments
        /\ e.debits = bills[b].debits /\ e.credits = bills[b].credits
    BY <2>1 DEF Paid, NewPaid, Bill
  <2>6. o.pc = "done" /\ o.bill = b
    BY <1>a, <2>0, OpUpdate
  <2> HIDE DEF e, o
  <2>7. Paying(op[r], b) /\ ~Paying(o, b) /\ ~Adjusting(op[r], b) /\ ~Adjusting(o, b)
    BY <2>1, <2>6 DEF Paying, Adjusting
  <2>8. <<"pay", b>> \notin contended' => bills'[b].amountPaid = bills'[b].received
    <3> SUFFICES ASSUME <<"pay", b>> \notin contended PROVE e.amountPaid = e.received
      BY <2>3, <2>4
    <3>1. PayKept(op[r], bills[b])
      BY <1>c, <2>1, <2>7 DEF PayColumn
    <3> QED
      BY <2>1, <2>5, <3>1 DEF PayKept
  <2>9. PayColumn(b)'
    BY <1>c, <2>1, <2>2, <2>3, <2>7, <2>8, PayMoves
  <2>10. AdjColumn(b)'
    BY <1>q, <2>1, <2>2, <2>c, <2>3, <2>4, <2>5, <2>7
  <2> QED
    BY <2>1, <2>2, <2>3, <2>6, <2>9, <2>10, OneCallMoves
<1>4. ASSUME NEW b \in BillIds, NEW d \in Amount \cup {-a : a \in Amount}, AdjRead(r, b, d)
      PROVE  ColumnInv'
  <2> DEFINE o == [pc |-> "adjRow", bill |-> b, amount |-> d,
                   base |-> bills[b].adjustments, limit |-> bills[b].subtotal]
  <2>0. d \in Int
    BY DEF BillingConstants
  <2>1. o \in OpState
    BY <1>c, <2>0, BillTypes DEF OpState, Money, BillIds
  <2>2. /\ op[r].pc = "new" /\ op' = [op EXCEPT ![r] = o] /\ bills' = bills
        /\ Contend("adjust", b) /\ contended \subseteq contended'
    BY <1>4 DEF AdjRead, Contend
  <2>3. AdjColumn(b)'
    BY <1>c, <2>1, <2>2, AdjStarts
  <2>4. ~Paying(op[r], b) /\ ~Paying(o, b)
    BY <2>2 DEF Paying
  <2>5. PayColumn(b)'
    BY <1>c, <1>p, <2>1, <2>2, <2>4
  <2>6. o.bill = b
    OBVIOUS
  <2> HIDE DEF o
  <2> QED
    BY <1>c, <2>1, <2>2, <2>3, <2>5, <2>6, OneCallMoves
<1>5. ASSUME AdjRow(r) PROVE ColumnInv'
  <2>0. PICK b \in BillIds : op[r].bill = b
    BY <1>5, <1>a DEF AdjRow
  <2> DEFINE e == Booked(bills[b], op[r].amount)
             o == At(op[r], "adjWrite")
  <2>1. op[r].pc = "adjRow" /\ op[r].bill = b /\ bills[b] \in Bill
    BY <1>5, <1>a, <2>0 DEF AdjRow
  <2>2. e \in Bill /\ o \in OpState
    BY <1>a, <1>b, <2>1, BillUpdate, OpUpdate
  <2>3. bills' = [bills EXCEPT ![b] = e] /\ op' = [op EXCEPT ![r] = o] /\ contended' = contended
    BY <1>5, <2>0 DEF AdjRow
  <2>c. PayColumn(b) /\ AdjColumn(b) /\ contended \subseteq contended'
    BY <1>c, <2>3
  <2>4. bills'[b] = e
    BY <2>1, <2>2, <2>3, ReplaceBill
  <2>5. /\ e.amountPaid = bills[b].amountPaid /\ e.received = bills[b].received
        /\ e.adjustments = bills[b].adjustments
        /\ e.debits - e.credits = bills[b].debits - bills[b].credits + op[r].amount
    <3>1. /\ e.amountPaid = bills[b].amountPaid /\ e.received = bills[b].received
          /\ e.adjustments = bills[b].adjustments
          /\ e.credits = IF op[r].amount < 0 THEN bills[b].credits - op[r].amount
                         ELSE bills[b].credits
          /\ e.debits = IF op[r].amount < 0 THEN bills[b].debits
                        ELSE bills[b].debits + op[r].amount
      BY <2>1 DEF Booked, Bill
    <3> HIDE DEF e
    <3> QED
      BY <1>b, <2>1, <3>1, BillTypes
  <2>6. /\ o.pc = "adjWrite" /\ o.bill = b
        /\ o.amount = op[r].amount /\ o.base = op[r].base
    BY <1>a, <2>0, OpUpdate
  <2> HIDE DEF e, o
  <2>7. Adjusting(op[r], b) /\ Adjusting(o, b) /\ ~Paying(op[r], b) /\ ~Paying(o, b)
    BY <2>1, <2>6 DEF Paying, Adjusting
  <2>8. <<"adjust", b>> \notin contended' => AdjKept(o, bills'[b])
    <3> SUFFICES ASSUME <<"adjust", b>> \notin contended PROVE AdjKept(o, e)
      BY <2>3, <2>4
    <3>1. AdjKept(op[r], bills[b])
      BY <1>c, <2>1, <2>7 DEF AdjColumn
    <3> QED
      BY <2>1, <2>5, <2>6, <3>1 DEF AdjKept
  <2>9. AdjColumn(b)'
    BY <1>c, <2>1, <2>2, <2>3, <2>7, <2>8, AdjMoves
  <2>10. PayColumn(b)'
    BY <1>p, <2>1, <2>2, <2>c, <2>3, <2>4, <2>5, <2>7
  <2> QED
    BY <2>1, <2>2, <2>3, <2>6, <2>9, <2>10, OneCallMoves
<1>6. ASSUME AdjWrite(r) PROVE ColumnInv'
  <2>0. PICK b \in BillIds : op[r].bill = b
    BY <1>6, <1>a DEF AdjWrite
  <2> DEFINE e == Adjusted(bills[b], op[r])
             o == At(op[r], "done")
  <2>1. op[r].pc = "adjWrite" /\ op[r].bill = b /\ bills[b] \in Bill
    BY <1>6, <1>a, <2>0 DEF AdjWrite
  <2>2. e \in Bill /\ o \in OpState
    BY <1>a, <2>1, BillUpdate, OpUpdate
  <2>3. bills' = [bills EXCEPT ![b] = e] /\ op' = [op EXCEPT ![r] = o] /\ contended' = contended
    BY <1>6, <2>0 DEF AdjWrite
  <2>c. PayColumn(b) /\ AdjColumn(b) /\ contended \subseteq contended'
    BY <1>c, <2>3
  <2>4. bills'[b] = e
    BY <2>1, <2>2, <2>3, ReplaceBill
  <2>5. /\ e.amountPaid = bills[b].amountPaid /\ e.received = bills[b].received
        /\ e.adjustments = op[r].base + op[r].amount
        /\ e.debits = bills[b].debits /\ e.credits = bills[b].credits
    BY <2>1 DEF Adjusted, NewAdjustments, Bill
  <2>6. o.pc = "done" /\ o.bill = b
    BY <1>a, <2>0, OpUpdate
  <2> HIDE DEF e, o
  <2>7. Adjusting(op[r], b) /\ ~Adjusting(o, b) /\ ~Paying(op[r], b) /\ ~Paying(o, b)
    BY <2>1, <2>6 DEF Paying, Adjusting
  <2>8. <<"adjust", b>> \notin contended' =>
          bills'[b].adjustments = bills'[b].debits - bills'[b].credits
    <3> SUFFICES ASSUME <<"adjust", b>> \notin contended
                 PROVE  e.adjustments = e.debits - e.credits
      BY <2>3, <2>4
    <3>1. AdjKept(op[r], bills[b])
      BY <1>c, <2>1, <2>7 DEF AdjColumn
    <3> QED
      BY <2>1, <2>5, <3>1 DEF AdjKept
  <2>9. AdjColumn(b)'
    BY <1>c, <2>1, <2>2, <2>3, <2>7, <2>8, AdjMoves
  <2>10. PayColumn(b)'
    BY <1>p, <2>1, <2>2, <2>c, <2>3, <2>4, <2>5, <2>7
  <2> QED
    BY <2>1, <2>2, <2>3, <2>6, <2>9, <2>10, OneCallMoves
<1>7. ASSUME NEW b \in BillIds, VoidRead(r, b) PROVE ColumnInv'
  <2> DEFINE o == [pc |-> "voidWrite", bill |-> b, amount |-> 0, base |-> 0, limit |-> 0]
  <2>1. o \in OpState /\ o.bill = b
    BY DEF OpState, Money, BillIds
  <2>2. /\ op[r].pc = "new" /\ op' = [op EXCEPT ![r] = o]
        /\ bills' = bills /\ contended' = contended
    BY <1>7 DEF VoidRead
  <2>3. ~Paying(op[r], b) /\ ~Paying(o, b) /\ ~Adjusting(op[r], b) /\ ~Adjusting(o, b)
    BY <2>2 DEF Paying, Adjusting
  <2> HIDE DEF o
  <2>4. PayColumn(b)' /\ AdjColumn(b)'
    BY <1>c, <1>p, <1>q, <2>1, <2>2, <2>3
  <2> QED
    BY <1>c, <2>1, <2>2, <2>4, OneCallMoves
<1>8. ASSUME VoidWrite(r) PROVE ColumnInv'
  <2>0. PICK b \in BillIds : op[r].bill = b
    BY <1>8, <1>a DEF VoidWrite
  <2> DEFINE e == WithStatus(bills[b], "VOID")
             o == At(op[r], "done")
  <2>1. op[r].pc = "voidWrite" /\ op[r].bill = b /\ bills[b] \in Bill
    BY <1>8, <1>a, <2>0 DEF VoidWrite
  <2>2. e \in Bill /\ o \in OpState
    BY <1>a, <2>1, BillUpdate, OpUpdate DEF BillStatus
  <2>3. bills' = [bills EXCEPT ![b] = e] /\ op' = [op EXCEPT ![r] = o] /\ contended' = contended
    BY <1>8, <2>0 DEF VoidWrite
  <2>c. PayColumn(b) /\ AdjColumn(b) /\ contended \subseteq contended'
    BY <1>c, <2>3
  <2>4. bills'[b] = e
    BY <2>1, <2>2, <2>3, ReplaceBill
  <2>5. /\ e.amountPaid = bills[b].amountPaid /\ e.received = bills[b].received
        /\ e.adjustments = bills[b].adjustments
        /\ e.debits = bills[b].debits /\ e.credits = bills[b].credits
    BY <2>1 DEF WithStatus, Bill
  <2>6. o.pc = "done" /\ o.bill = b
    BY <1>a, <2>0, OpUpdate
  <2> HIDE DEF e, o
  <2>7. ~Paying(op[r], b) /\ ~Paying(o, b) /\ ~Adjusting(op[r], b) /\ ~Adjusting(o, b)
    BY <2>1, <2>6 DEF Paying, Adjusting
  <2>8. PayColumn(b)'
    BY <1>p, <2>1, <2>2, <2>c, <2>3, <2>4, <2>5, <2>7
  <2>9. AdjColumn(b)'
    BY <1>q, <2>1, <2>2, <2>c, <2>3, <2>4, <2>5, <2>7
  <2> QED
    BY <2>1, <2>2, <2>3, <2>6, <2>8, <2>9, OneCallMoves
<1>9. ASSUME OpFails(r) PROVE ColumnInv'
  <2>0. PICK b \in BillIds : op[r].bill = b
    BY <1>9, <1>a DEF OpFails
  <2> DEFINE o == At(op[r], "done")
  <2>1. /\ op[r].pc \notin {"new", "done"} /\ op[r].bill = b /\ bills[b] \in Bill
        /\ bills' = bills /\ op' = [op EXCEPT ![r] = o] /\ contended \subseteq contended'
        /\ op[r].pc = "payWrite" => <<"pay", b>> \in contended'
        /\ op[r].pc = "adjWrite" => <<"adjust", b>> \in contended'
    BY <1>9, <1>a, <2>0 DEF OpFails
  <2>2. o \in OpState /\ o.pc = "done" /\ o.bill = b
    BY <1>a, <2>0, OpUpdate
  <2> HIDE DEF o
  <2>3. ~Paying(o, b) /\ ~Adjusting(o, b)
    BY <2>2 DEF Paying, Adjusting
  <2>4. PayColumn(b)'
    <3>1. CASE Paying(op[r], b)
      <4>1. ASSUME <<"pay", b>> \notin contended' PROVE bills[b].amountPaid = bills[b].received
        <5>1. op[r].pc = "payRow"
          BY <2>1, <3>1, <4>1 DEF Paying
        <5>2. PayKept(op[r], bills[b])
          BY <1>c, <2>1, <3>1, <4>1 DEF PayColumn
        <5> QED
          BY <5>1, <5>2 DEF PayKept
      <4> QED
        BY <1>c, <2>1, <2>2, <2>3, <3>1, <4>1, PayMoves
    <3>2. CASE ~Paying(op[r], b)
      BY <1>c, <1>p, <2>1, <2>2, <2>3, <3>2
    <3> QED
      BY <3>1, <3>2
  <2>5. AdjColumn(b)'
    <3>1. CASE Adjusting(op[r], b)
      <4>1. ASSUME <<"adjust", b>> \notin contended'
            PROVE  bills[b].adjustments = bills[b].debits - bills[b].credits
        <5>1. op[r].pc = "adjRow"
          BY <2>1, <3>1, <4>1 DEF Adjusting
        <5>2. AdjKept(op[r], bills[b])
          BY <1>c, <2>1, <3>1, <4>1 DEF AdjColumn
        <5> QED
          BY <5>1, <5>2 DEF AdjKept
      <4> QED
        BY <1>c, <2>1, <2>2, <2>3, <3>1, <4>1, AdjMoves
    <3>2. CASE ~Adjusting(op[r], b)
      BY <1>c, <1>q, <2>1, <2>2, <2>3, <3>2
    <3> QED
      BY <3>1, <3>2
  <2> QED
    BY <1>c, <2>1, <2>2, <2>4, <2>5, OneCallMoves
<1> QED
  BY <1>1, <1>2, <1>3, <1>4, <1>5, <1>6, <1>7, <1>8, <1>9 DEF OpStep

\* Nothing but a ledger call touches the columns; a new bill starts at zero.
LEMMA ColumnsUntouched ==
  ASSUME TypeOK, ColumnInv, op' = op, contended' = contended,
         BillIds \subseteq BillIds',
         \A n \in BillIds : /\ bills'[n].amountPaid = bills[n].amountPaid
                            /\ bills'[n].received = bills[n].received
                            /\ bills'[n].adjustments = bills[n].adjustments
                            /\ bills'[n].debits = bills[n].debits
                            /\ bills'[n].credits = bills[n].credits,
         \A n \in BillIds' \ BillIds :
           /\ bills'[n].amountPaid = 0 /\ bills'[n].received = 0
           /\ bills'[n].adjustments = 0
           /\ bills'[n].debits = 0 /\ bills'[n].credits = 0
  PROVE  ColumnInv'
<1>1. ASSUME NEW n \in BillIds PROVE PayColumn(n)' /\ AdjColumn(n)'
  BY PayLeftAlone, AdjLeftAlone DEF ColumnInv
<1>2. ASSUME NEW n \in BillIds' \ BillIds PROVE PayColumn(n)' /\ AdjColumn(n)'
  <2>1. \A q \in Request : ~Paying(op'[q], n) /\ ~Adjusting(op'[q], n)
    BY DEF TypeOK, Paying, Adjusting
  <2> QED
    BY <2>1 DEF PayColumn, AdjColumn
<1> QED
  BY <1>1, <1>2 DEF ColumnInv

\* A billing pass leaves calls and rows alone; the row it adds starts at zero.
LEMMA PassStepBills ==
  ASSUME BillingConstants, TypeOK, NEW p \in Pass, PassStep(p)
  PROVE  /\ op' = op /\ contended' = contended
         /\ BillIds \subseteq BillIds'
         /\ \A n \in BillIds : bills'[n] = bills[n]
         /\ \A n \in BillIds' \ BillIds :
              /\ bills'[n].amountPaid = 0 /\ bills'[n].received = 0
              /\ bills'[n].adjustments = 0
              /\ bills'[n].debits = 0 /\ bills'[n].credits = 0
              /\ bills'[n].status = "ISSUED"
<1> DEFINE Goal ==
      /\ op' = op /\ contended' = contended
      /\ BillIds \subseteq BillIds'
      /\ \A n \in BillIds : bills'[n] = bills[n]
      /\ \A n \in BillIds' \ BillIds :
           /\ bills'[n].amountPaid = 0 /\ bills'[n].received = 0
           /\ bills'[n].adjustments = 0
           /\ bills'[n].debits = 0 /\ bills'[n].credits = 0
           /\ bills'[n].status = "ISSUED"
<1>0. pass[p].items \in SUBSET Item
  BY DEF TypeOK, PassState
<1>1. ASSUME bills' = bills, op' = op, contended' = contended PROVE Goal
  BY <1>1 DEF BillIds
<1>2. ASSUME NEW c \in Customer, NEW S \in SUBSET Item, NEW settlement \in BOOLEAN,
             op' = op, contended' = contended,
             bills' = Append(bills, NewBill(p, c, S, settlement))
      PROVE  Goal
  <2> DEFINE e == NewBill(p, c, S, settlement)
  <2>1. e \in Bill
    BY NewBillType
  <2>2. /\ e.amountPaid = 0 /\ e.received = 0 /\ e.adjustments = 0
        /\ e.debits = 0 /\ e.credits = 0 /\ e.status = "ISSUED"
    BY DEF NewBill
  <2>3. bills' = Append(bills, e)
    BY <1>2
  <2> HIDE DEF e
  <2>4. /\ Len(bills') = Len(bills) + 1
        /\ \A b \in BillIds : bills'[b] = bills[b]
        /\ bills'[Len(bills) + 1] = e
    BY <2>1, <2>3, AppendBill
  <2>5. BillIds \subseteq BillIds' /\ BillIds' \ BillIds = {Len(bills) + 1}
    BY <2>4 DEF BillIds, TypeOK
  <2> QED
    BY <1>2, <2>2, <2>4, <2>5
<1>3. ASSUME NEW c \in Customer, CycleIssue(p, c) PROVE Goal
  <2> DEFINE mine == {i \in pass[p].items : OwnerOf(i) = c}
  <2>1. mine \in SUBSET Item /\ FALSE \in BOOLEAN
    BY <1>0
  <2>2. op' = op /\ contended' = contended /\ bills' = Append(bills, NewBill(p, c, mine, FALSE))
    BY <1>3 DEF CycleIssue
  <2> HIDE DEF mine, Goal
  <2> QED
    BY <1>2, <2>1, <2>2
<1>4. ASSUME SettleIssue(p) PROVE Goal
  <2> HIDE DEF Goal
  <2>1. CASE pass[p].items = {}
    BY <1>1, <1>4, <2>1 DEF SettleIssue
  <2>2. CASE pass[p].items # {}
    <3> DEFINE c == OwnerOf(CHOOSE i \in pass[p].items : TRUE)
    <3>1. c \in Customer
      BY <1>0, <2>2 DEF OwnerOf, BillingConstants
    <3>2. /\ bills' = Append(bills, NewBill(p, c, pass[p].items, TRUE))
          /\ op' = op /\ contended' = contended
      BY <1>4, <2>2 DEF SettleIssue
    <3> HIDE DEF c
    <3> QED
      BY <1>0, <1>2, <3>1, <3>2
  <2> QED
    BY <2>1, <2>2
<1>5. ASSUME \/ \E w \in Window : CycleRead(p, w)
             \/ CycleEnd(p)
             \/ \E s \in Sub : SettlePeriod(p, s)
             \/ SettleRead(p)
             \/ PassFails(p)
      PROVE  Goal
  <2> HIDE DEF Goal
  <2> QED
    BY <1>1, <1>5 DEF CycleRead, CycleEnd, SettlePeriod, SettleRead, PassFails
<1> QED
  BY <1>3, <1>4, <1>5 DEF PassStep

LEMMA ColumnStep ==
  ASSUME BillingConstants, TypeOK, ColumnInv, [Next]_vars
  PROVE  ColumnInv'
<1>1. ASSUME bills' = bills, op' = op, contended' = contended PROVE ColumnInv'
  BY <1>1, ColumnsUntouched DEF BillIds
<1>3. ASSUME NEW p \in Pass, PassStep(p) PROVE ColumnInv'
  BY <1>3, PassStepBills, ColumnsUntouched
<1>4. ASSUME NEW b \in BillIds, DueDatePasses(b) PROVE ColumnInv'
  <2> DEFINE e == PastDue(bills[b])
  <2>1. e \in Bill /\ bills[b] \in Bill
    BY BillFields, BillUpdate
  <2>2. bills' = [bills EXCEPT ![b] = e] /\ op' = op /\ contended' = contended
    BY <1>4 DEF DueDatePasses
  <2>3. /\ e.amountPaid = bills[b].amountPaid /\ e.received = bills[b].received
        /\ e.adjustments = bills[b].adjustments
        /\ e.debits = bills[b].debits /\ e.credits = bills[b].credits
    BY <2>1 DEF PastDue, Bill
  <2> HIDE DEF e
  <2>4. /\ BillIds' = BillIds /\ bills'[b] = e
        /\ \A n \in BillIds : n # b => bills'[n] = bills[n]
    BY <2>1, <2>2, ReplaceBill
  <2> QED
    BY <2>2, <2>3, <2>4, ColumnsUntouched
<1>5. ASSUME MarkOverdue PROVE ColumnInv'
  <2>1. /\ BillIds' = BillIds /\ op' = op /\ contended' = contended
        /\ \A b \in BillIds : bills'[b] = bills[b] \/ bills'[b] = WithStatus(bills[b], "OVERDUE")
    BY <1>5, MarkOverdueBills DEF MarkOverdue
  <2>2. ASSUME NEW n \in BillIds
        PROVE  /\ bills'[n].amountPaid = bills[n].amountPaid
               /\ bills'[n].received = bills[n].received
               /\ bills'[n].adjustments = bills[n].adjustments
               /\ bills'[n].debits = bills[n].debits
               /\ bills'[n].credits = bills[n].credits
    BY <2>1, BillFields DEF WithStatus, Bill
  <2> QED
    BY <2>1, <2>2, ColumnsUntouched
<1>6. ASSUME NEW i \in Item, Deliver(i) \/ AdminRevert(i) PROVE ColumnInv'
  BY <1>1, <1>6 DEF Deliver, AdminRevert
<1>7. CASE UNCHANGED vars
  BY <1>1, <1>7 DEF vars
<1> QED
  BY <1>3, <1>4, <1>5, <1>6, <1>7, OpStepColumns DEF Next

LEMMA ColumnsCorrect == Spec => []ColumnInv
<1>1. Init => ColumnInv
  BY DEF Init, ColumnInv, BillIds
<1>2. TypeOK /\ ColumnInv /\ [Next]_vars => ColumnInv'
  BY ColumnStep, BillingConstants
<1> QED
  BY <1>1, <1>2, TypeCorrect, PTL DEF Spec

(* A payment missing from amountPaid, or an adjustment missing from its     *)
(* column, is the work of calls that overlapped or of one that died halfway. *)
THEOREM LossNeedsContention == Spec => []ColumnsAddUp
<1>1. ColumnInv => ColumnsAddUp
  <2> SUFFICES ASSUME ColumnInv, NEW b \in BillIds
      PROVE  /\ <<"pay", b>> \notin contended /\ Running("pay", b) = {} =>
                  bills[b].amountPaid = bills[b].received
             /\ <<"adjust", b>> \notin contended /\ Running("adjust", b) = {} =>
                  bills[b].adjustments = bills[b].debits - bills[b].credits
    BY DEF ColumnsAddUp
  <2>1. Running("pay", b) = {} => \A q \in Request : ~Paying(op[q], b)
    BY RunningIs
  <2>2. Running("adjust", b) = {} => \A q \in Request : ~Adjusting(op[q], b)
    BY RunningIs
  <2> QED
    BY <2>1, <2>2 DEF ColumnInv, PayColumn, AdjColumn
<1> QED
  BY <1>1, ColumnsCorrect, PTL

(***************************************************************************)
(* Dues that getDues misses.  On a bill without debits whose adjustments   *)
(* did not overwrite each other the total only falls, so what a payment    *)
(* read still bounds it.                                                   *)
(***************************************************************************)
Plain(b) == bills[b].debits = 0 /\ <<"adjust", b>> \notin contended

Covered(bill) == bill.status = "PAID" => bill.amountPaid >= bill.total

DebitBooked(o, bill) ==
  o.pc \in {"adjRow", "adjWrite"} =>
    /\ o.amount # 0
    /\ o.pc = "adjWrite" /\ o.amount > 0 => bill.debits > 0

DuesInv ==
  /\ \A b \in BillIds : Plain(b) => Covered(bills[b])
  /\ \A r \in Request : DebitBooked(op[r], bills[op[r].bill])
  /\ \A r \in Request, b \in BillIds :
       Paying(op[r], b) /\ Plain(b) => op[r].limit >= bills[b].total

\* How a step may change a row that no payment is being written to.
Falls(b) ==
  /\ bills'[b].debits >= bills[b].debits
  /\ Plain(b)' => bills'[b].total <= bills[b].total

\* A step after which every bill is covered, and every call that moved fits.
LEMMA FallsKeepsDues ==
  ASSUME TypeOK, TypeOK', DuesInv, BillIds \subseteq BillIds',
         contended \subseteq contended',
         \A b \in BillIds : Falls(b),
         \A b \in BillIds' : Plain(b)' => Covered(bills'[b]),
         \A q \in Request : op'[q] = op[q] \/
           /\ DebitBooked(op'[q], bills'[op'[q].bill])
           /\ \A b \in BillIds' : Paying(op'[q], b) /\ Plain(b)' => op'[q].limit >= bills'[b].total
  PROVE  DuesInv'
<1>1. ASSUME NEW b \in BillIds
      PROVE  /\ bills[b].debits \in Nat /\ bills'[b].debits \in Nat
             /\ bills[b].total \in Int /\ bills'[b].total \in Int
             /\ bills'[b].debits >= bills[b].debits
             /\ Plain(b)' => Plain(b) /\ bills'[b].total <= bills[b].total
  <2>1. bills[b] \in Bill /\ bills'[b] \in Bill
    BY ElementOfSeq DEF TypeOK, BillIds
  <2>2. /\ bills[b].debits \in Nat /\ bills'[b].debits \in Nat
        /\ bills[b].total \in Int /\ bills'[b].total \in Int
    BY <2>1, BillTypes
  <2>3. bills'[b].debits >= bills[b].debits
    BY DEF Falls
  <2>4. Plain(b)' => Plain(b)
    BY <2>2, <2>3 DEF Plain
  <2> QED
    BY <2>2, <2>3, <2>4 DEF Falls
<1>2. ASSUME NEW q \in Request, op'[q] = op[q]
      PROVE  /\ DebitBooked(op'[q], bills'[op'[q].bill])
             /\ \A b \in BillIds' : Paying(op'[q], b) /\ Plain(b)' => op'[q].limit >= bills'[b].total
  <2>1. op[q] \in OpState /\ (op[q].pc # "new" => op[q].bill \in BillIds)
    BY DEF TypeOK
  <2>2. DebitBooked(op[q], bills'[op[q].bill])
    <3>1. CASE op[q].pc \in {"adjRow", "adjWrite"}
      BY <1>1, <2>1, <3>1 DEF DuesInv, DebitBooked
    <3>2. CASE op[q].pc \notin {"adjRow", "adjWrite"}
      BY <3>2 DEF DebitBooked
    <3> QED
      BY <3>1, <3>2
  <2>3. ASSUME NEW b \in BillIds', Paying(op[q], b), Plain(b)'
        PROVE  op[q].limit >= bills'[b].total
    <3>1. b \in BillIds
      BY <2>1, <2>3 DEF Paying
    <3>2. op[q].limit >= bills[b].total
      BY <1>1, <2>3, <3>1 DEF DuesInv
    <3>3. op[q].limit \in Int
      BY <2>1 DEF OpState, Money
    <3> QED
      BY <1>1, <2>3, <3>1, <3>2, <3>3
  <2> QED
    BY <1>2, <2>2, <2>3
<1> QED
  BY <1>2 DEF DuesInv

LEMMA DuesMove ==
  ASSUME TypeOK, TypeOK', DuesInv, NEW r \in Request, NEW b \in BillIds,
         NEW e \in Bill, NEW o \in OpState, o.bill = b,
         bills' = [bills EXCEPT ![b] = e], op' = [op EXCEPT ![r] = o],
         contended \subseteq contended', e.debits >= bills[b].debits,
         DebitBooked(o, e),
         Plain(b)' => /\ e.total <= bills[b].total
                      /\ Covered(e)
                      /\ Paying(o, b) => o.limit >= e.total
  PROVE  DuesInv'
<1>1. /\ BillIds' = BillIds /\ bills'[b] = e
      /\ \A n \in BillIds : n # b => bills'[n] = bills[n]
  BY ReplaceBill
<1>2. op'[r] = o /\ \A q \in Request : q # r => op'[q] = op[q]
  BY DEF TypeOK
<1>3. ASSUME NEW n \in BillIds PROVE Falls(n) /\ (Plain(n)' => Covered(bills'[n]))
  <2>1. CASE n = b
    BY <1>1, <2>1 DEF Falls
  <2>2. CASE n # b
    <3>1. bills'[n] = bills[n] /\ bills[n].total \in Int /\ bills[n].debits \in Nat
      BY <1>1, <2>2, BillFields, BillTypes
    <3>2. Plain(n)' => Plain(n)
      BY <3>1 DEF Plain
    <3> QED
      BY <3>1, <3>2 DEF Falls, DuesInv
  <2> QED
    BY <2>1, <2>2
<1>4. /\ DebitBooked(op'[r], bills'[op'[r].bill])
      /\ \A n \in BillIds' : Paying(op'[r], n) /\ Plain(n)' => op'[r].limit >= bills'[n].total
  BY <1>1, <1>2 DEF Paying
<1> QED
  BY <1>1, <1>2, <1>3, <1>4, FallsKeepsDues

LEMMA OpStepDues ==
  ASSUME BillingConstants, TypeOK, TypeOK', LedgerInv, ColumnInv, DuesInv,
         NEW r \in Request, OpStep(r)
  PROVE  DuesInv'
<1>a. /\ op \in [Request -> OpState] /\ op[r] \in OpState
      /\ op[r].pc # "new" => op[r].bill \in BillIds /\ bills[op[r].bill] \in Bill
  BY BillFields DEF TypeOK
<1>b. op[r].amount \in Int /\ op[r].base \in Int /\ op[r].limit \in Int
  BY <1>a DEF OpState, Money
<1>c. ASSUME NEW b \in BillIds
      PROVE  /\ bills[b] \in Bill /\ bills = [bills EXCEPT ![b] = bills[b]]
             /\ bills[b].total \in Int /\ bills[b].debits \in Nat
             /\ bills[b].credits \in Nat /\ bills[b].amountPaid \in Int
             /\ bills[b].subtotal \in Nat /\ bills[b].adjustments \in Int
             /\ bills[b].total = bills[b].subtotal + bills[b].adjustments
             /\ Plain(b) => Covered(bills[b])
  BY BillFields, BillTypes DEF LedgerInv, LedgerOk, DuesInv, TypeOK, BillIds
<1>d. DebitBooked(op[r], bills[op[r].bill])
  BY DEF DuesInv
<1>1. ASSUME NEW b \in BillIds, NEW a \in Amount, PayRead(r, b, a) PROVE DuesInv'
  <2> DEFINE o == [pc |-> "payRow", bill |-> b, amount |-> a,
                   base |-> bills[b].amountPaid, limit |-> bills[b].total]
  <2>1. o \in OpState
    BY <1>c DEF OpState, Money, BillIds, BillingConstants
  <2>2. /\ op' = [op EXCEPT ![r] = o] /\ bills' = bills /\ contended \subseteq contended'
    BY <1>1 DEF PayRead, Contend
  <2>3. o.bill = b /\ o.limit = bills[b].total /\ DebitBooked(o, bills[b])
    BY DEF DebitBooked
  <2>4. Plain(b)' => Plain(b)
    BY <2>2 DEF Plain
  <2> HIDE DEF o
  <2>y. bills[b].debits >= bills[b].debits
    BY <1>c, <2>1, <2>2, <2>3, <2>4
  <2>z. Plain(b)' => /\ bills[b].total <= bills[b].total
                     /\ Covered(bills[b])
                     /\ Paying(o, b) => o.limit >= bills[b].total
    BY <1>c, <2>1, <2>2, <2>3, <2>4
  <2>w. bills[b] \in Bill /\ bills' = [bills EXCEPT ![b] = bills[b]]
    BY <1>c, <2>2
  <2> QED
    BY <2>1, <2>2, <2>3, <2>4, <2>w, <2>y, <2>z, DuesMove
<1>2. ASSUME PayRow(r) PROVE DuesInv'
  <2>0. PICK b \in BillIds : op[r].bill = b
    BY <1>2, <1>a DEF PayRow
  <2> DEFINE e == Received(bills[b], op[r].amount)
             o == At(op[r], "payWrite")
  <2>1. op[r].pc = "payRow" /\ bills[b] \in Bill
    BY <1>2, <1>c DEF PayRow
  <2>2. e \in Bill /\ o \in OpState
    BY <1>a, <1>b, <2>1, BillUpdate, OpUpdate
  <2>3. bills' = [bills EXCEPT ![b] = e] /\ op' = [op EXCEPT ![r] = o] /\ contended' = contended
    BY <1>2, <2>0 DEF PayRow
  <2>4. /\ e.amountPaid = bills[b].amountPaid /\ e.status = bills[b].status
        /\ e.total = bills[b].total /\ e.debits = bills[b].debits
    BY <2>1 DEF Received, Bill
  <2>5. o.pc = "payWrite" /\ o.bill = b /\ o.limit = op[r].limit
    BY <1>a, <2>0, OpUpdate
  <2> HIDE DEF e, o
  <2>6. bills'[b] = e
    BY <2>1, <2>2, <2>3, ReplaceBill
  <2>7. Plain(b)' => Plain(b)
    BY <2>3, <2>4, <2>6 DEF Plain
  <2>8. Plain(b) => Covered(e) /\ o.limit >= e.total
    BY <1>c, <2>0, <2>1, <2>4, <2>5 DEF Covered, DuesInv, Paying
  <2>9. DebitBooked(o, e)
    BY <2>5 DEF DebitBooked
  <2>y. e.debits >= bills[b].debits
    BY <1>c, <2>2, <2>3, <2>4, <2>5, <2>7, <2>8, <2>9
  <2>z. Plain(b)' => /\ e.total <= bills[b].total
                     /\ Covered(e)
                     /\ Paying(o, b) => o.limit >= e.total
    BY <1>c, <2>2, <2>3, <2>4, <2>5, <2>7, <2>8, <2>9
  <2> QED
    BY <2>2, <2>3, <2>4, <2>5, <2>7, <2>8, <2>9, <2>y, <2>z, DuesMove
<1>3. ASSUME PayWrite(r) PROVE DuesInv'
  <2>0. PICK b \in BillIds : op[r].bill = b
    BY <1>3, <1>a DEF PayWrite
  <2> DEFINE e == Paid(bills[b], op[r])
             o == At(op[r], "done")
  <2>1. op[r].pc = "payWrite" /\ bills[b] \in Bill
    BY <1>3, <1>c DEF PayWrite
  <2>2. e \in Bill /\ o \in OpState
    BY <1>a, <2>1, BillUpdate, OpUpdate
  <2>3. bills' = [bills EXCEPT ![b] = e] /\ op' = [op EXCEPT ![r] = o] /\ contended' = contended
    BY <1>3, <2>0 DEF PayWrite
  <2>4. /\ e.amountPaid = NewPaid(op[r]) /\ e.status = PaidStatus(NewPaid(op[r]), op[r].limit)
        /\ e.total = bills[b].total /\ e.debits = bills[b].debits
    BY <2>1 DEF Paid, Bill
  <2>5. o.pc = "done" /\ o.bill = b
    BY <1>a, <2>0, OpUpdate
  <2> HIDE DEF e, o
  <2>6. bills'[b] = e
    BY <2>1, <2>2, <2>3, ReplaceBill
  <2>7. Plain(b)' => Plain(b)
    BY <2>3, <2>4, <2>6 DEF Plain
  <2>8. Plain(b) => op[r].limit >= e.total
    BY <2>0, <2>1, <2>4 DEF DuesInv, Paying
  <2>9. Plain(b) => Covered(e)
    <3>1. NewPaid(op[r]) \in Int
      BY <1>b DEF NewPaid
    <3> QED
      BY <1>b, <1>c, <2>4, <2>8, <3>1 DEF Covered, PaidStatus
  <2>10. DebitBooked(o, e) /\ ~Paying(o, b)
    BY <2>5 DEF DebitBooked, Paying
  <2>y. e.debits >= bills[b].debits
    BY <1>c, <2>2, <2>3, <2>4, <2>5, <2>7, <2>9, <2>10
  <2>z. Plain(b)' => /\ e.total <= bills[b].total
                     /\ Covered(e)
                     /\ Paying(o, b) => o.limit >= e.total
    BY <1>c, <2>2, <2>3, <2>4, <2>5, <2>7, <2>9, <2>10
  <2> QED
    BY <2>2, <2>3, <2>4, <2>5, <2>7, <2>9, <2>10, <2>y, <2>z, DuesMove
<1>4. ASSUME NEW b \in BillIds, NEW d \in Amount \cup {-a : a \in Amount}, AdjRead(r, b, d)
      PROVE  DuesInv'
  <2> DEFINE o == [pc |-> "adjRow", bill |-> b, amount |-> d,
                   base |-> bills[b].adjustments, limit |-> bills[b].subtotal]
  <2>0. d \in Int /\ d # 0
    BY DEF BillingConstants
  <2>1. o \in OpState
    BY <1>c, <2>0 DEF OpState, Money, BillIds
  <2>2. /\ op' = [op EXCEPT ![r] = o] /\ bills' = bills /\ contended \subseteq contended'
    BY <1>4 DEF AdjRead, Contend
  <2>3. o.bill = b /\ ~Paying(o, b) /\ DebitBooked(o, bills[b])
    BY <2>0 DEF DebitBooked, Paying
  <2>4. Plain(b)' => Plain(b)
    BY <2>2 DEF Plain
  <2> HIDE DEF o
  <2>y. bills[b].debits >= bills[b].debits
    BY <1>c, <2>1, <2>2, <2>3, <2>4
  <2>z. Plain(b)' => /\ bills[b].total <= bills[b].total
                     /\ Covered(bills[b])
                     /\ Paying(o, b) => o.limit >= bills[b].total
    BY <1>c, <2>1, <2>2, <2>3, <2>4
  <2>w. bills[b] \in Bill /\ bills' = [bills EXCEPT ![b] = bills[b]]
    BY <1>c, <2>2
  <2> QED
    BY <2>1, <2>2, <2>3, <2>4, <2>w, <2>y, <2>z, DuesMove
<1>5. ASSUME AdjRow(r) PROVE DuesInv'
  <2>0. PICK b \in BillIds : op[r].bill = b
    BY <1>5, <1>a DEF AdjRow
  <2> DEFINE e == Booked(bills[b], op[r].amount)
             o == At(op[r], "adjWrite")
  <2>1. op[r].pc = "adjRow" /\ bills[b] \in Bill
    BY <1>5, <1>c DEF AdjRow
  <2>2. e \in Bill /\ o \in OpState
    BY <1>a, <1>b, <2>1, BillUpdate, OpUpdate
  <2>3. bills' = [bills EXCEPT ![b] = e] /\ op' = [op EXCEPT ![r] = o] /\ contended' = contended
    BY <1>5, <2>0 DEF AdjRow
  <2>4. /\ e.amountPaid = bills[b].amountPaid /\ e.status = bills[b].status
        /\ e.total = bills[b].total
        /\ e.debits = IF op[r].amount < 0 THEN bills[b].debits
                      ELSE bills[b].debits + op[r].amount
    BY <2>1 DEF Booked, Bill
  <2>5. o.pc = "adjWrite" /\ o.bill = b /\ o.amount = op[r].amount
    BY <1>a, <2>0, OpUpdate
  <2> HIDE DEF e, o
  <2>6. bills'[b] = e /\ e.debits \in Nat
    BY <2>1, <2>2, <2>3, ReplaceBill, BillTypes
  <2>7. e.debits >= bills[b].debits /\ (op[r].amount > 0 => e.debits > 0)
    BY <1>b, <1>c, <2>4
  <2>8. Plain(b)' => Plain(b)
    BY <1>c, <2>3, <2>6, <2>7 DEF Plain
  <2>9. DebitBooked(o, e)
    BY <1>d, <2>1, <2>5, <2>7 DEF DebitBooked
  <2>10. ~Paying(o, b) /\ (Plain(b) => Covered(e))
    BY <1>c, <2>4, <2>5 DEF Covered, Paying
  <2>y. e.debits >= bills[b].debits
    BY <1>c, <2>2, <2>3, <2>4, <2>5, <2>7, <2>8, <2>9, <2>10
  <2>z. Plain(b)' => /\ e.total <= bills[b].total
                     /\ Covered(e)
                     /\ Paying(o, b) => o.limit >= e.total
    BY <1>c, <2>2, <2>3, <2>4, <2>5, <2>7, <2>8, <2>9, <2>10
  <2> QED
    BY <2>2, <2>3, <2>4, <2>5, <2>7, <2>8, <2>9, <2>10, <2>y, <2>z, DuesMove
<1>6. ASSUME AdjWrite(r) PROVE DuesInv'
  <2>0. PICK b \in BillIds : op[r].bill = b
    BY <1>6, <1>a DEF AdjWrite
  <2> DEFINE e == Adjusted(bills[b], op[r])
             o == At(op[r], "done")
  <2>1. op[r].pc = "adjWrite" /\ bills[b] \in Bill
    BY <1>6, <1>c DEF AdjWrite
  <2>2. e \in Bill /\ o \in OpState
    BY <1>a, <2>1, BillUpdate, OpUpdate
  <2>3. bills' = [bills EXCEPT ![b] = e] /\ op' = [op EXCEPT ![r] = o] /\ contended' = contended
    BY <1>6, <2>0 DEF AdjWrite
  <2>4. /\ e.amountPaid = bills[b].amountPaid /\ e.status = bills[b].status
        /\ e.debits = bills[b].debits
        /\ e.total = op[r].limit + (op[r].base + op[r].amount)
    BY <2>1 DEF Adjusted, NewTotal, NewAdjustments, Bill
  <2>5. o.pc = "done" /\ o.bill = b
    BY <1>a, <2>0, OpUpdate
  <2> HIDE DEF e, o
  <2>6. bills'[b] = e
    BY <2>1, <2>2, <2>3, ReplaceBill
  <2>7. Plain(b)' => Plain(b)
    BY <2>3, <2>4, <2>6 DEF Plain
  <2>8. Plain(b) => e.total <= bills[b].total
    <3>1. Plain(b) => op[r].amount < 0
      BY <1>b, <1>d, <2>0, <2>1 DEF Plain, DebitBooked
    <3>2. Plain(b) => bills[b].adjustments = op[r].base
      BY <2>0, <2>1 DEF Plain, ColumnInv, AdjColumn, Adjusting, AdjKept
    <3>3. op[r].limit = bills[b].subtotal
      BY <2>0, <2>1 DEF LedgerInv, CallOk
    <3> QED
      BY <1>b, <1>c, <2>4, <3>1, <3>2, <3>3
  <2>9. Plain(b) => Covered(e)
    <3>1. e.total \in Int
      BY <1>b, <2>4
    <3>2. bills[b].total \in Int /\ bills[b].amountPaid \in Int
      BY <1>c
    <3>3. Plain(b) => Covered(bills[b])
      BY <1>c
    <3> QED
      BY <2>4, <2>8, <3>1, <3>2, <3>3 DEF Covered
  <2>10. DebitBooked(o, e) /\ ~Paying(o, b)
    BY <2>5 DEF DebitBooked, Paying
  <2>y. e.debits >= bills[b].debits
    BY <1>c, <2>2, <2>3, <2>4, <2>5, <2>7, <2>8, <2>9, <2>10
  <2>z. Plain(b)' => /\ e.total <= bills[b].total
                     /\ Covered(e)
                     /\ Paying(o, b) => o.limit >= e.total
    BY <1>c, <2>2, <2>3, <2>4, <2>5, <2>7, <2>8, <2>9, <2>10
  <2> QED
    BY <2>2, <2>3, <2>4, <2>5, <2>7, <2>8, <2>9, <2>10, <2>y, <2>z, DuesMove
<1>7. ASSUME NEW b \in BillIds, VoidRead(r, b) PROVE DuesInv'
  <2> DEFINE o == [pc |-> "voidWrite", bill |-> b, amount |-> 0, base |-> 0, limit |-> 0]
  <2>1. o \in OpState /\ o.bill = b /\ ~Paying(o, b) /\ DebitBooked(o, bills[b])
    BY DEF OpState, Money, BillIds, Paying, DebitBooked
  <2>2. op' = [op EXCEPT ![r] = o] /\ bills' = bills /\ contended' = contended
    BY <1>7 DEF VoidRead
  <2>3. Plain(b)' => Plain(b)
    BY <2>2 DEF Plain
  <2> HIDE DEF o
  <2>y. bills[b].debits >= bills[b].debits
    BY <1>c, <2>1, <2>2, <2>3
  <2>z. Plain(b)' => /\ bills[b].total <= bills[b].total
                     /\ Covered(bills[b])
                     /\ Paying(o, b) => o.limit >= bills[b].total
    BY <1>c, <2>1, <2>2, <2>3
  <2>w. bills[b] \in Bill /\ bills' = [bills EXCEPT ![b] = bills[b]]
    BY <1>c, <2>2
  <2> QED
    BY <2>1, <2>2, <2>3, <2>w, <2>y, <2>z, DuesMove
<1>8. ASSUME VoidWrite(r) PROVE DuesInv'
  <2>0. PICK b \in BillIds : op[r].bill = b
    BY <1>8, <1>a DEF VoidWrite
  <2> DEFINE e == WithStatus(bills[b], "VOID")
             o == At(op[r], "done")
  <2>1. op[r].pc = "voidWrite" /\ bills[b] \in Bill
    BY <1>8, <1>c DEF VoidWrite
  <2>2. e \in Bill /\ o \in OpState
    BY <1>a, <2>1, BillUpdate, OpUpdate DEF BillStatus
  <2>3. bills' = [bills EXCEPT ![b] = e] /\ op' = [op EXCEPT ![r] = o] /\ contended' = contended
    BY <1>8, <2>0 DEF VoidWrite
  <2>4. e.status = "VOID" /\ e.total = bills[b].total /\ e.debits = bills[b].debits
    BY <2>1 DEF WithStatus, Bill
  <2>5. o.pc = "done" /\ o.bill = b
    BY <1>a, <2>0, OpUpdate
  <2> HIDE DEF e, o
  <2>6. Covered(e) /\ DebitBooked(o, e) /\ ~Paying(o, b)
    BY <2>4, <2>5 DEF Covered, DebitBooked, Paying
  <2>y. e.debits >= bills[b].debits
    BY <1>c, <2>2, <2>3, <2>4, <2>5, <2>6
  <2>z. Plain(b)' => /\ e.total <= bills[b].total
                     /\ Covered(e)
                     /\ Paying(o, b) => o.limit >= e.total
    BY <1>c, <2>2, <2>3, <2>4, <2>5, <2>6
  <2> QED
    BY <2>2, <2>3, <2>4, <2>5, <2>6, <2>y, <2>z, DuesMove
<1>9. ASSUME OpFails(r) PROVE DuesInv'
  <2>0. PICK b \in BillIds : op[r].bill = b
    BY <1>9, <1>a DEF OpFails
  <2> DEFINE o == At(op[r], "done")
  <2>1. bills' = bills /\ op' = [op EXCEPT ![r] = o] /\ contended \subseteq contended'
    BY <1>9 DEF OpFails
  <2>2. o \in OpState /\ o.pc = "done" /\ o.bill = b
    BY <1>a, <2>0, OpUpdate
  <2> HIDE DEF o
  <2>3. DebitBooked(o, bills[b]) /\ ~Paying(o, b)
    BY <2>2 DEF DebitBooked, Paying
  <2>4. Plain(b)' => Plain(b)
    BY <2>1 DEF Plain
  <2>y. bills[b].debits >= bills[b].debits
    BY <1>c, <2>1, <2>2, <2>3, <2>4
  <2>z. Plain(b)' => /\ bills[b].total <= bills[b].total
                     /\ Covered(bills[b])
                     /\ Paying(o, b) => o.limit >= bills[b].total
    BY <1>c, <2>1, <2>2, <2>3, <2>4
  <2>w. bills[b] \in Bill /\ bills' = [bills EXCEPT ![b] = bills[b]]
    BY <1>c, <2>1
  <2> QED
    BY <2>1, <2>2, <2>3, <2>4, <2>w, <2>y, <2>z, DuesMove
<1> QED
  BY <1>1, <1>2, <1>3, <1>4, <1>5, <1>6, <1>7, <1>8, <1>9 DEF OpStep

LEMMA DuesStep ==
  ASSUME BillingConstants, TypeOK, TypeOK', LedgerInv, ColumnInv, DuesInv, [Next]_vars
  PROVE  DuesInv'
<1>1. ASSUME op' = op, contended' = contended, BillIds \subseteq BillIds',
             \A n \in BillIds : /\ bills'[n].total = bills[n].total
                                /\ bills'[n].debits = bills[n].debits
                                /\ bills'[n].amountPaid = bills[n].amountPaid
                                /\ bills'[n].status = "PAID" => bills[n].status = "PAID",
             \A n \in BillIds' \ BillIds : bills'[n].status # "PAID"
      PROVE  DuesInv'
  <2>1. ASSUME NEW n \in BillIds PROVE Falls(n) /\ (Plain(n)' => Covered(bills'[n]))
    <3>1. bills[n].total \in Int /\ bills[n].debits \in Nat
      BY BillFields, BillTypes
    <3>2. Plain(n)' => Plain(n)
      BY <1>1 DEF Plain
    <3>3. Plain(n) => Covered(bills[n])
      BY DEF DuesInv
    <3> QED
      BY <1>1, <3>1, <3>2, <3>3 DEF Falls, Covered
  <2>2. \A n \in BillIds' \ BillIds : Covered(bills'[n])
    BY <1>1 DEF Covered
  <2> QED
    BY <1>1, <2>1, <2>2, FallsKeepsDues
<1>2. ASSUME bills' = bills, op' = op, contended' = contended PROVE DuesInv'
  BY <1>1, <1>2 DEF BillIds
<1>3. ASSUME NEW p \in Pass, PassStep(p) PROVE DuesInv'
  BY <1>1, <1>3, PassStepBills
<1>4. ASSUME NEW b \in BillIds, DueDatePasses(b) PROVE DuesInv'
  <2> DEFINE e == PastDue(bills[b])
  <2>1. e \in Bill /\ bills[b] \in Bill
    BY BillFields, BillUpdate
  <2>2. bills' = [bills EXCEPT ![b] = e] /\ op' = op /\ contended' = contended
    BY <1>4 DEF DueDatePasses
  <2>3. /\ e.total = bills[b].total /\ e.debits = bills[b].debits
        /\ e.amountPaid = bills[b].amountPaid /\ e.status = bills[b].status
    BY <2>1 DEF PastDue, Bill
  <2> HIDE DEF e
  <2>4. /\ BillIds' = BillIds /\ bills'[b] = e
        /\ \A n \in BillIds : n # b => bills'[n] = bills[n]
    BY <2>1, <2>2, ReplaceBill
  <2> QED
    BY <1>1, <2>2, <2>3, <2>4
<1>5. ASSUME MarkOverdue PROVE DuesInv'
  <2>1. /\ BillIds' = BillIds /\ op' = op /\ contended' = contended
        /\ \A b \in BillIds : bills'[b] = bills[b] \/ bills'[b] = WithStatus(bills[b], "OVERDUE")
    BY <1>5, MarkOverdueBills DEF MarkOverdue
  <2>2. ASSUME NEW n \in BillIds
        PROVE  /\ bills'[n].total = bills[n].total
               /\ bills'[n].debits = bills[n].debits
               /\ bills'[n].amountPaid = bills[n].amountPaid
               /\ bills'[n].status = "PAID" => bills[n].status = "PAID"
    BY <2>1, BillFields DEF WithStatus, Bill
  <2> QED
    BY <1>1, <2>1, <2>2
<1>6. ASSUME NEW i \in Item, Deliver(i) \/ AdminRevert(i) PROVE DuesInv'
  BY <1>2, <1>6 DEF Deliver, AdminRevert
<1>7. CASE UNCHANGED vars
  BY <1>2, <1>7 DEF vars
<1> QED
  BY <1>3, <1>4, <1>5, <1>6, <1>7, OpStepDues DEF Next

(* A bill is PAID with something outstanding, where getDues overlooks it,   *)
(* only after a debit or after adjustments that overwrote each other.       *)
THEOREM MissedDuesNeedDebit == Spec => []MissedDuesAreExplained
<1>1. Init => DuesInv
  BY DEF Init, DuesInv, BillIds, NewOp, DebitBooked, Paying
<1>2. /\ TypeOK /\ TypeOK' /\ LedgerInv /\ ColumnInv /\ DuesInv /\ [Next]_vars
      => DuesInv'
  BY DuesStep, BillingConstants
<1>3. TypeOK /\ DuesInv => MissedDuesAreExplained
  <2> SUFFICES ASSUME TypeOK, DuesInv, NEW b \in BillIds, bills[b].status = "PAID",
                      bills[b].amountPaid < bills[b].total, <<"adjust", b>> \notin contended
               PROVE  bills[b].debits > 0
    BY DEF MissedDuesAreExplained
  <2>1. /\ bills[b].debits \in Nat /\ bills[b].amountPaid \in Int
        /\ bills[b].total \in Int
    BY BillFields, BillTypes
  <2>2. ~Covered(bills[b])
    BY <2>1 DEF Covered
  <2>3. bills[b].debits # 0
    BY <2>2 DEF DuesInv, Plain
  <2> QED
    BY <2>1, <2>3
<1> QED
  BY <1>1, <1>2, <1>3, TypeCorrect, LedgerCorrect, ColumnsCorrect, PTL DEF Spec

(***************************************************************************)
(* Voided bills.                                                           *)
(***************************************************************************)
(* A voided bill comes back only through the write of a payment that read   *)
(* it before it was voided.                                                 *)
THEOREM VoidStandsButForStalePayments == Spec => VoidUndoneOnlyByStalePayment
<1> DEFINE Undone(b) == bills[b].status = "VOID" /\ bills'[b].status # "VOID"
           Stale(b)  == \E r \in Request : op[r].pc = "payWrite" /\ op[r].bill = b
                                             /\ op'[r].pc = "done"
<1>1. ASSUME TypeOK, [Next]_vars PROVE \A b \in BillIds : Undone(b) => Stale(b)
  <2> SUFFICES ASSUME NEW b \in BillIds, Undone(b) PROVE Stale(b)
    OBVIOUS
  <2>0. bills[b] \in Bill /\ bills' # bills /\ bills'[b] # bills[b]
    BY <1>1, BillFields
  <2>1. ASSUME NEW n \in BillIds, NEW e \in Bill, bills' = [bills EXCEPT ![n] = e]
        PROVE  n = b /\ e.status # "VOID"
    BY <1>1, <2>0, <2>1, ReplaceBill
  <2>2. ASSUME NEW p \in Pass, PassStep(p) PROVE FALSE
    BY <1>1, <2>0, <2>2, PassStepBills, BillingConstants
  <2>3. ASSUME NEW r \in Request, OpStep(r) PROVE Stale(b)
    <3>1. op \in [Request -> OpState] /\ op[r] \in OpState
          /\ (op[r].pc # "new" => op[r].bill \in BillIds /\ bills[op[r].bill] \in Bill)
      BY <1>1, BillFields DEF TypeOK
    <3>2. op[r].amount \in Int
      BY <3>1 DEF OpState, Money
    <3>3. ASSUME PayRow(r) PROVE FALSE
      <4>1. op[r].bill \in BillIds /\ bills[op[r].bill] \in Bill
        BY <3>1, <3>3 DEF PayRow
      <4>2. Received(bills[op[r].bill], op[r].amount) \in Bill
        BY <3>2, <4>1, BillUpdate
      <4>3. Received(bills[op[r].bill], op[r].amount).status = bills[op[r].bill].status
        BY <4>1 DEF Received, Bill
      <4> QED
        BY <2>1, <3>3, <4>1, <4>2, <4>3 DEF PayRow
    <3>4. ASSUME PayWrite(r) PROVE Stale(b)
      <4>1. op[r].pc = "payWrite" /\ op[r].bill \in BillIds /\ bills[op[r].bill] \in Bill
        BY <3>1, <3>4 DEF PayWrite
      <4>2. Paid(bills[op[r].bill], op[r]) \in Bill
        BY <3>1, <4>1, BillUpdate
      <4>3. op[r].bill = b
        BY <2>1, <3>4, <4>1, <4>2 DEF PayWrite
      <4>4. op'[r] = At(op[r], "done") /\ At(op[r], "done").pc = "done"
        BY <3>1, <3>4, OpUpdate DEF PayWrite
      <4> QED
        BY <4>1, <4>3, <4>4
    <3>5. ASSUME AdjRow(r) PROVE FALSE
      <4>1. op[r].bill \in BillIds /\ bills[op[r].bill] \in Bill
        BY <3>1, <3>5 DEF AdjRow
      <4>2. Booked(bills[op[r].bill], op[r].amount) \in Bill
        BY <3>2, <4>1, BillUpdate
      <4>3. Booked(bills[op[r].bill], op[r].amount).status = bills[op[r].bill].status
        BY <4>1 DEF Booked, Bill
      <4> QED
        BY <2>1, <3>5, <4>1, <4>2, <4>3 DEF AdjRow
    <3>6. ASSUME AdjWrite(r) PROVE FALSE
      <4>1. op[r].bill \in BillIds /\ bills[op[r].bill] \in Bill
        BY <3>1, <3>6 DEF AdjWrite
      <4>2. Adjusted(bills[op[r].bill], op[r]) \in Bill
        BY <3>1, <4>1, BillUpdate
      <4>3. Adjusted(bills[op[r].bill], op[r]).status = bills[op[r].bill].status
        BY <4>1 DEF Adjusted, Bill
      <4> QED
        BY <2>1, <3>6, <4>1, <4>2, <4>3 DEF AdjWrite
    <3>7. ASSUME VoidWrite(r) PROVE FALSE
      <4>1. op[r].bill \in BillIds /\ bills[op[r].bill] \in Bill
        BY <3>1, <3>7 DEF VoidWrite
      <4>2. WithStatus(bills[op[r].bill], "VOID") \in Bill
        BY <4>1, BillUpdate DEF BillStatus
      <4>3. WithStatus(bills[op[r].bill], "VOID").status = "VOID"
        BY <4>1 DEF WithStatus, Bill
      <4> QED
        BY <2>1, <3>7, <4>1, <4>2, <4>3 DEF VoidWrite
    <3>8. ASSUME \/ \E n \in BillIds, a \in Amount : PayRead(r, n, a)
                 \/ \E n \in BillIds, d \in Amount \cup {-a : a \in Amount} : AdjRead(r, n, d)
                 \/ \E n \in BillIds : VoidRead(r, n)
                 \/ OpFails(r)
          PROVE  FALSE
      BY <2>0, <3>8 DEF PayRead, AdjRead, VoidRead, OpFails
    <3> QED
      BY <2>3, <3>3, <3>4, <3>5, <3>6, <3>7, <3>8 DEF OpStep
  <2>4. ASSUME NEW n \in BillIds, DueDatePasses(n) PROVE FALSE
    <3>1. PastDue(bills[n]) \in Bill /\ PastDue(bills[n]).status = bills[n].status
      BY <1>1, BillFields, BillUpdate DEF PastDue, Bill
    <3> QED
      BY <2>1, <2>4, <3>1 DEF DueDatePasses
  <2>5. ASSUME MarkOverdue PROVE FALSE
    BY <1>1, <2>0, <2>5, MarkOverdueBills
  <2>6. ASSUME NEW i \in Item, Deliver(i) \/ AdminRevert(i) PROVE FALSE
    BY <2>0, <2>6 DEF Deliver, AdminRevert
  <2>7. CASE UNCHANGED vars
    BY <2>0, <2>7 DEF vars
  <2> QED
    BY <1>1, <2>2, <2>3, <2>4, <2>5, <2>6, <2>7 DEF Next
<1> QED
  BY <1>1, TypeCorrect, PTL DEF Spec, VoidUndoneOnlyByStalePayment
=============================================================================
