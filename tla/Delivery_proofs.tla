--------------------------- MODULE Delivery_proofs --------------------------
(***************************************************************************)
(* Proofs about Delivery, for any subscriptions, slots, products and       *)
(* handlers.                                                               *)
(*                                                                         *)
(* After the types (Typed) three invariants, one for each of the safety    *)
(* properties: ListInv, of what the generations in flight have read of the *)
(* subscriptions; QtyInv, of the quantity an update is about to write; and *)
(* AwayInv, of who has still to skip what is pending on an unavailable     *)
(* day.                                                                    *)
(***************************************************************************)
EXTENDS Delivery, TLAPS

Goals == {"none", "generate", "journey", "update", "bulk", "away"}

RunStatus == {"none", "GENERATED", "IN_PROGRESS", "COMPLETED"}

PlanSnaps == UNION {[S -> Plan] : S \in SUBSET Sub}
QtySnaps  == UNION {[S -> Qty] : S \in SUBSET Key}
RunSnaps  == UNION {[S -> RunStatus] : S \in SUBSET Slot}

Local ==
  [pc : Steps, goal : Goals, slots : SUBSET Slot, snap : PlanSnaps \cup QtySnaps \cup RunSnaps,
   cur : SUBSET Slot, key : SUBSET Key, saw : Status, st : Status \cup {"same"},
   qty : Qty \cup {Unset}, admin : BOOLEAN, clean : BOOLEAN]

Reading == {"slots", "items"}

\* What a handler holds at its step, keys being those of the items there are.
CallOk(k, keys) ==
  /\ k.key \subseteq keys
  /\ k.pc \in Reading => k.snap \in PlanSnaps
  /\ k.pc \in {"write", "bulk", "skip"} => k.snap \in QtySnaps /\ DOMAIN k.snap \subseteq keys
  /\ k.pc = "start" => k.snap \in RunSnaps /\ k.slots \subseteq DOMAIN k.snap
  /\ k.pc = "write" => MaySet(k.admin, k.saw, k.st) /\ \E x \in keys : k.key = {x}
  /\ k.pc # "write" => k.key = {}
  /\ k.pc \in {"pending", "skip"} <=> k.goal = "away"

ItemsOk == DOMAIN item \subseteq Key /\ \A x \in DOMAIN item : item[x] \in Item

CallsOk == call \in [Call -> Local] /\ \A c \in Call : CallOk(call[c], DOMAIN item)

Typed ==
  /\ sub \in [Sub -> Plan] /\ ItemsOk /\ run \in [Slot -> RunStatus]
  /\ away \in BOOLEAN /\ fresh \in BOOLEAN /\ muddled \in BOOLEAN
  /\ raced \subseteq DOMAIN item
  /\ CallsOk

(***************************************************************************)
(* Records and functions.                                                  *)
(***************************************************************************)
LEMMA PlanFields ==
  ASSUME NEW row \in Plan
  PROVE  row.active \in BOOLEAN /\ row.slot \in Slot /\ row.product \in Product
         /\ row.want \in Qty \cup {0} /\ Qty \subseteq Nat \ {0}
  BY DeliveryConstants

LEMMA SnapIs ==
  /\ \A f : f \in PlanSnaps <=> \E S \in SUBSET Sub : f \in [S -> Plan]
  /\ \A f : f \in QtySnaps  <=> \E S \in SUBSET Key : f \in [S -> Qty]
  /\ \A f : f \in RunSnaps  <=> \E S \in SUBSET Slot : f \in [S -> RunStatus]
  BY DEF PlanSnaps, QtySnaps, RunSnaps

LEMMA DropIs ==
  ASSUME NEW f, NEW S
  PROVE  /\ DOMAIN Drop(f, S) = DOMAIN f \ S
         /\ \A x \in DOMAIN f \ S : Drop(f, S)[x] = f[x]
         /\ f \in PlanSnaps => Drop(f, S) \in PlanSnaps
         /\ f \in QtySnaps => Drop(f, S) \in QtySnaps
<1>1. /\ DOMAIN Drop(f, S) = DOMAIN f \ S
      /\ \A x \in DOMAIN f \ S : Drop(f, S)[x] = f[x]
  BY DEF Drop
<1>2. ASSUME f \in PlanSnaps PROVE Drop(f, S) \in PlanSnaps
  <2>1. PICK T \in SUBSET Sub : f \in [T -> Plan]
    BY <1>2, SnapIs
  <2>2. Drop(f, S) \in [T \ S -> Plan] /\ T \ S \in SUBSET Sub
    BY <2>1 DEF Drop
  <2> QED
    BY <2>2, SnapIs
<1>3. ASSUME f \in QtySnaps PROVE Drop(f, S) \in QtySnaps
  <2>1. PICK T \in SUBSET Key : f \in [T -> Qty]
    BY <1>3, SnapIs
  <2>2. Drop(f, S) \in [T \ S -> Qty] /\ T \ S \in SUBSET Key
    BY <2>1 DEF Drop
  <2> QED
    BY <2>2, SnapIs
<1> QED
  BY <1>1, <1>2, <1>3

LEMMA IdleOk ==
  /\ IdleCall \in Local /\ \A keys : CallOk(IdleCall, keys)
  /\ IdleCall.pc = "idle" /\ IdleCall.goal = "none" /\ IdleCall.key = {}
<1>1. NoItem \in [{} -> Plan] /\ {} \in SUBSET Sub
  BY DEF NoItem
<1>2. NoItem \in PlanSnaps
  BY <1>1, SnapIs
<1> QED
  BY <1>2 DEF IdleCall, Local, CallOk, Steps, Goals, Status, Unset, Reading

\* One handler is as k, the others as before.
LEMMA OneMoves ==
  ASSUME Typed, NEW c \in Call, NEW k \in Local, CallOk(k, DOMAIN item'),
         call' = [call EXCEPT ![c] = k], DOMAIN item \subseteq DOMAIN item'
  PROVE  CallsOk' /\ \A d \in Call : call'[d] = IF d = c THEN k ELSE call[d]
<1>1. call' \in [Call -> Local] /\ \A d \in Call : call'[d] = IF d = c THEN k ELSE call[d]
  BY DEF Typed, CallsOk
<1>2. \A d \in Call : CallOk(call[d], DOMAIN item')
  BY DEF Typed, CallsOk, CallOk
<1> QED
  BY <1>1, <1>2 DEF CallsOk

(***************************************************************************)
(* What each step makes of its handler.                                    *)
(***************************************************************************)
Move(c, k) == call' = [call EXCEPT ![c] = k]

LEMMA FinishIs ==
  ASSUME NEW c \in Call, Finish(c)
  PROVE  Move(c, IdleCall)
  BY DEF Finish, Move

LEMMA GenerateBeginIs ==
  ASSUME Typed, NEW c \in Call, NEW goal \in {"generate", "journey"}, NEW S \in SlotFilter,
         GenerateBegin(c, goal, S)
  PROVE  \E k \in Local :
           /\ Move(c, k) /\ CallOk(k, DOMAIN item) /\ call[c].pc = "idle"
           /\ k.pc \in {"subs", "runs", "idle"} /\ (k.pc = "subs" => ~away)
           /\ k.key = {} /\ k.goal = goal /\ ~k.clean
<1> DEFINE pc == IF Delivers THEN "subs" ELSE IF goal = "journey" THEN "runs" ELSE "idle"
           k == [IdleCall EXCEPT !.goal = goal, !.slots = S, !.pc = pc]
<1>1. pc \in {"subs", "runs", "idle"} /\ (pc = "subs" => ~away)
  BY DEF Delivers
<1>2. call[c].pc = "idle" /\ call' = [call EXCEPT ![c] = k]
  BY DEF GenerateBegin, Begin
<1> HIDE DEF pc
<1>3. S \in SUBSET Slot
  BY DEF SlotFilter
<1>4. /\ k \in Local /\ k.pc = pc /\ k.goal = goal /\ k.key = {} /\ k.clean = FALSE
      /\ k.snap = NoItem /\ k.slots = S
  BY <1>1, <1>3, IdleOk DEF Local, IdleCall, Steps, Goals
<1> HIDE DEF k
<1> QED
  BY <1>1, <1>2, <1>4 DEF CallOk, Move, Reading

\* A step of a generation or a journey: key and goal are as they were, or it ends.
Going(c, k) ==
  \/ k = IdleCall
  \/ k.key = call[c].key /\ k.goal = call[c].goal /\ k.st = call[c].st

LEMMA GenerateSlotIs ==
  ASSUME Typed, NEW c \in Call, NEW sl \in Slot, GenerateSlot(c, sl)
  PROVE  \E k \in Local :
           /\ Move(c, k) /\ CallOk(k, DOMAIN item) /\ call[c].pc = "slots" /\ k.pc = "items"
           /\ k.snap = call[c].snap /\ k.clean = call[c].clean /\ Going(c, k)
<1> DEFINE k == [call[c] EXCEPT !.pc = "items", !.cur = {sl}]
<1>1. call' = [call EXCEPT ![c] = k] /\ call[c].pc = "slots" /\ call[c] \in Local
  BY DEF GenerateSlot, Typed, CallsOk
<1>2. /\ k \in Local /\ k.pc = "items" /\ k.goal = call[c].goal /\ k.key = call[c].key
      /\ k.snap = call[c].snap /\ k.clean = call[c].clean /\ k.st = call[c].st
  BY <1>1 DEF Local, Steps
<1>3. CallOk(call[c], DOMAIN item)
  BY DEF Typed, CallsOk
<1> HIDE DEF k
<1>4. CallOk(k, DOMAIN item)
  BY <1>1, <1>2, <1>3 DEF CallOk, Reading
<1> QED
  BY <1>1, <1>2, <1>4 DEF Move, Going

LEMMA GenerateItemIs ==
  ASSUME Typed, NEW c \in Call, NEW s \in Sub, s \in DOMAIN call[c].snap, GenerateItem(c, s)
  PROVE  \E k \in Local :
           /\ Move(c, k) /\ CallOk(k, DOMAIN item) /\ call[c].pc = "items" /\ k.pc = "items"
           /\ k.snap = Drop(call[c].snap, {s}) /\ k.clean = call[c].clean /\ Going(c, k)
<1> DEFINE k == [call[c] EXCEPT !.snap = Drop(call[c].snap, {s})]
<1>1. call' = [call EXCEPT ![c] = k] /\ call[c].pc = "items" /\ call[c] \in Local
  BY DEF GenerateItem, Typed, CallsOk
<1>2. CallOk(call[c], DOMAIN item)
  BY DEF Typed, CallsOk
<1>3. Drop(call[c].snap, {s}) \in PlanSnaps
  BY <1>1, <1>2, DropIs DEF CallOk, Reading
<1>4. /\ k \in Local /\ k.pc = "items" /\ k.goal = call[c].goal /\ k.key = call[c].key
      /\ k.snap = Drop(call[c].snap, {s}) /\ k.clean = call[c].clean /\ k.st = call[c].st
  BY <1>1, <1>3 DEF Local
<1> HIDE DEF k
<1>5. CallOk(k, DOMAIN item)
  BY <1>1, <1>2, <1>3, <1>4 DEF CallOk, Reading
<1> QED
  BY <1>1, <1>4, <1>5 DEF Move, Going

LEMMA GenerateSlotEndIs ==
  ASSUME Typed, NEW c \in Call, GenerateSlotEnd(c)
  PROVE  \E k \in Local :
           /\ Move(c, k) /\ CallOk(k, DOMAIN item) /\ call[c].pc = "items" /\ k.pc = "slots"
           /\ k.snap = call[c].snap /\ k.clean = call[c].clean /\ Going(c, k)
<1> DEFINE k == [call[c] EXCEPT !.pc = "slots", !.cur = {}]
<1>1. call' = [call EXCEPT ![c] = k] /\ call[c].pc = "items" /\ call[c] \in Local
  BY DEF GenerateSlotEnd, Typed, CallsOk
<1>2. /\ k \in Local /\ k.pc = "slots" /\ k.goal = call[c].goal /\ k.key = call[c].key
      /\ k.snap = call[c].snap /\ k.clean = call[c].clean /\ k.st = call[c].st
  BY <1>1 DEF Local, Steps
<1>3. CallOk(call[c], DOMAIN item)
  BY DEF Typed, CallsOk
<1> HIDE DEF k
<1>4. CallOk(k, DOMAIN item)
  BY <1>1, <1>2, <1>3 DEF CallOk, Reading
<1> QED
  BY <1>1, <1>2, <1>4 DEF Move, Going

LEMMA GenerateEndIs ==
  ASSUME Typed, NEW c \in Call, GenerateEnd(c)
  PROVE  \E k \in Local :
           /\ Move(c, k) /\ CallOk(k, DOMAIN item) /\ call[c].pc = "slots"
           /\ k.pc \in {"runs", "idle"} /\ Going(c, k)
<1>1. CASE Finish(c)
  BY <1>1, IdleOk, FinishIs DEF GenerateEnd, Going
<1>2. CASE To(c, "runs")
  <2> DEFINE k == [call[c] EXCEPT !.pc = "runs"]
  <2>1. call' = [call EXCEPT ![c] = k] /\ call[c].pc = "slots" /\ call[c] \in Local
    BY <1>2 DEF GenerateEnd, To, Typed, CallsOk
  <2>2. /\ k \in Local /\ k.pc = "runs" /\ k.goal = call[c].goal /\ k.key = call[c].key
        /\ k.st = call[c].st
    BY <2>1 DEF Local, Steps
  <2>3. CallOk(call[c], DOMAIN item)
    BY DEF Typed, CallsOk
  <2> HIDE DEF k
  <2>4. CallOk(k, DOMAIN item)
    BY <2>1, <2>2, <2>3 DEF CallOk, Reading
  <2> QED
    BY <2>1, <2>2, <2>4 DEF Move, Going
<1> QED
  BY <1>1, <1>2 DEF GenerateEnd

LEMMA JourneyReadIs ==
  ASSUME Typed, NEW c \in Call, JourneyRead(c)
  PROVE  \E k \in Local :
           /\ Move(c, k) /\ CallOk(k, DOMAIN item) /\ call[c].pc = "runs"
           /\ k.pc \in {"start", "idle"} /\ Going(c, k)
<1>1. CASE Finish(c)
  BY <1>1, IdleOk, FinishIs DEF JourneyRead, Going
<1>2. CASE ~Finish(c)
  <2> DEFINE S == {sl \in call[c].slots : run[sl] # "none"}
             f == [sl \in S |-> run[sl]]
             k == [call[c] EXCEPT !.pc = "start", !.slots = S, !.snap = f]
  <2>1. call' = [call EXCEPT ![c] = k] /\ call[c].pc = "runs" /\ call[c] \in Local
    BY <1>2 DEF JourneyRead, Typed, CallsOk
  <2>2. S \in SUBSET Slot
    BY <2>1 DEF Local
  <2>3. f \in [S -> RunStatus] /\ DOMAIN f = S
    BY <2>2 DEF Typed
  <2> HIDE DEF S, f
  <2>4. f \in RunSnaps
    BY <2>2, <2>3, SnapIs
  <2>5. /\ k \in Local /\ k.pc = "start" /\ k.goal = call[c].goal /\ k.key = call[c].key
        /\ k.st = call[c].st /\ k.snap = f /\ k.slots = S
    BY <2>1, <2>2, <2>4 DEF Local, Steps
  <2>6. CallOk(call[c], DOMAIN item)
    BY DEF Typed, CallsOk
  <2> HIDE DEF k
  <2>7. CallOk(k, DOMAIN item)
    BY <2>1, <2>3, <2>4, <2>5, <2>6 DEF CallOk, Reading
  <2> QED
    BY <2>1, <2>5, <2>7 DEF Move, Going
<1> QED
  BY <1>1, <1>2

LEMMA JourneyStartIs ==
  ASSUME Typed, NEW c \in Call, NEW sl \in Slot, JourneyStart(c, sl)
  PROVE  \E k \in Local :
           /\ Move(c, k) /\ CallOk(k, DOMAIN item) /\ call[c].pc = "start"
           /\ k.pc \in {"start", "idle"} /\ (k.pc = "start" => sl \notin k.slots) /\ Going(c, k)
<1>1. CASE Finish(c)
  BY <1>1, IdleOk, FinishIs DEF JourneyStart, Going
<1>2. CASE ~Finish(c)
  <2> DEFINE S == call[c].slots \ {sl}
             k == [call[c] EXCEPT !.slots = S]
  <2>1. call' = [call EXCEPT ![c] = k] /\ call[c].pc = "start" /\ call[c] \in Local
    BY <1>2 DEF JourneyStart, Typed, CallsOk
  <2>2. S \in SUBSET Slot /\ S \subseteq call[c].slots /\ sl \notin S
    BY <2>1 DEF Local
  <2> HIDE DEF S
  <2>3. /\ k \in Local /\ k.pc = "start" /\ k.goal = call[c].goal /\ k.key = call[c].key
        /\ k.st = call[c].st /\ k.snap = call[c].snap /\ k.slots = S
    BY <2>1, <2>2 DEF Local
  <2>4. CallOk(call[c], DOMAIN item)
    BY DEF Typed, CallsOk
  <2> HIDE DEF k
  <2>5. CallOk(k, DOMAIN item)
    BY <2>1, <2>2, <2>3, <2>4 DEF CallOk, Reading
  <2> QED
    BY <2>1, <2>2, <2>3, <2>5 DEF Move, Going
<1> QED
  BY <1>1, <1>2

WritesTo(k, x) == k.pc = "write" /\ k.key = {x}

\* An update, on its own or for the bulk update, of the item at x.
LEMMA UpdateIs ==
  ASSUME Typed, NEW r \in Local, r.goal # "away",
         r.snap \in QtySnaps, DOMAIN r.snap \subseteq DOMAIN item,
         NEW x \in DOMAIN item, NEW st \in Status \cup {"same"}, NEW q \in Qty \cup {Unset},
         NEW admin \in BOOLEAN, MaySet(admin, item[x].status, st)
  PROVE  LET k == Update(r, x, st, q, admin) IN
         /\ k \in Local /\ CallOk(k, DOMAIN item)
         /\ WritesTo(k, x) /\ k.st = st /\ k.goal = r.goal
         /\ k.qty = QtyToWrite(item[x], st, q) /\ k.snap = r.snap
<1> DEFINE w == QtyToWrite(item[x], st, q)
           k == [r EXCEPT !.pc = "write", !.key = {x}, !.saw = item[x].status, !.st = st,
                          !.qty = w, !.admin = admin]
<1>1. item[x] \in Item /\ {x} \in SUBSET Key
  BY DEF Typed, ItemsOk
<1>2. w \in Qty \cup {Unset} /\ item[x].status \in Status
  BY <1>1 DEF QtyToWrite, Item
<1> HIDE DEF w
<1>3. /\ k \in Local /\ WritesTo(k, x) /\ k.st = st /\ k.goal = r.goal
      /\ k.qty = w /\ k.snap = r.snap /\ k.admin = admin /\ k.saw = item[x].status
  BY <1>1, <1>2 DEF Local, Steps, WritesTo
<1>4. k = Update(r, x, st, q, admin)
  BY DEF Update, w
<1> HIDE DEF k
<1>5. CallOk(k, DOMAIN item)
  BY <1>3 DEF CallOk, Reading, WritesTo
<1> QED
  BY <1>3, <1>4, <1>5 DEF w

LEMMA UpdateReadIs ==
  ASSUME Typed, NEW c \in Call, NEW x \in DOMAIN item, NEW st \in Status \cup {"same"},
         NEW q \in Qty \cup {Unset}, NEW admin \in BOOLEAN, UpdateRead(c, x, st, q, admin)
  PROVE  \E k \in Local :
           /\ Move(c, k) /\ CallOk(k, DOMAIN item) /\ call[c].pc = "idle"
           /\ WritesTo(k, x) /\ k.st = st /\ k.qty = QtyToWrite(item[x], st, q)
           /\ k.goal # "away"
<1> DEFINE r == [IdleCall EXCEPT !.goal = "update"]
<1>1. r \in Local /\ r.goal # "away" /\ r.snap = NoItem
  BY IdleOk DEF IdleCall, Local, Goals
<1>2. NoItem \in QtySnaps /\ DOMAIN NoItem = {}
  <2>1. NoItem \in [{} -> Qty] /\ {} \in SUBSET Key /\ DOMAIN NoItem = {}
    BY DEF NoItem
  <2> QED
    BY ONLY <2>1, SnapIs
<1>3. call[c].pc = "idle" /\ call' = [call EXCEPT ![c] = Update(r, x, st, q, admin)]
  BY DEF UpdateRead, Begin
<1> HIDE DEF r
<1>4. MaySet(admin, item[x].status, st)
  BY DEF UpdateRead
<1> DEFINE k == Update(r, x, st, q, admin)
<1>5. /\ k \in Local /\ CallOk(k, DOMAIN item) /\ WritesTo(k, x) /\ k.st = st
      /\ k.goal = r.goal /\ k.qty = QtyToWrite(item[x], st, q)
  <2>1. r.snap \in QtySnaps /\ DOMAIN r.snap \subseteq DOMAIN item
    BY <1>1, <1>2
  <2> QED
    BY <1>1, <1>4, <2>1, UpdateIs
<1>6. Move(c, k) /\ k.goal # "away"
  BY <1>1, <1>3, <1>5 DEF Move
<1> HIDE DEF k
<1> QED
  BY <1>3, <1>5, <1>6

LEMMA UpdateWriteIs ==
  ASSUME Typed, NEW c \in Call, UpdateWrite(c)
  PROVE  \E k \in Local :
           /\ Move(c, k) /\ CallOk(k, DOMAIN item) /\ call[c].pc = "write"
           /\ k.pc \in {"bulk", "idle"} /\ k.key = {}
           /\ k.goal # "away"
<1>0. call[c] \in Local /\ CallOk(call[c], DOMAIN item) /\ call[c].pc = "write"
  BY DEF Typed, CallsOk, UpdateWrite
<1>1. CASE Finish(c)
  BY <1>0, <1>1, IdleOk, FinishIs
<1>2. CASE ~Finish(c)
  <2> DEFINE k == [call[c] EXCEPT !.pc = "bulk", !.key = {}]
  <2>1. call' = [call EXCEPT ![c] = k]
    BY <1>2 DEF UpdateWrite
  <2>2. /\ k \in Local /\ k.pc = "bulk" /\ k.key = {} /\ k.snap = call[c].snap
        /\ k.goal = call[c].goal
    BY <1>0 DEF Local, Steps
  <2> HIDE DEF k
  <2>3. CallOk(k, DOMAIN item) /\ k.goal # "away"
    BY <1>0, <2>2 DEF CallOk, Reading
  <2> QED
    BY <1>0, <2>1, <2>2, <2>3 DEF Move
<1> QED
  BY <1>1, <1>2

LEMMA BulkReadIs ==
  ASSUME Typed, NEW c \in Call, NEW S \in SlotFilter, NEW st \in Status, BulkRead(c, S, st)
  PROVE  \E k \in Local :
           /\ Move(c, k) /\ CallOk(k, DOMAIN item) /\ call[c].pc = "idle" /\ k.pc = "bulk"
           /\ k.key = {} /\ k.goal = "bulk"
<1> DEFINE f == [x \in Pending(S) |-> item[x].planned]
           k == [IdleCall EXCEPT !.pc = "bulk", !.goal = "bulk", !.st = st, !.snap = f]
<1>1. call[c].pc = "idle" /\ call' = [call EXCEPT ![c] = k]
  BY DEF BulkRead, Begin
<1>2. Pending(S) \subseteq DOMAIN item /\ DOMAIN item \subseteq Key
  BY DEF Pending, Typed, ItemsOk
<1>3. f \in [Pending(S) -> Qty] /\ DOMAIN f = Pending(S)
  BY <1>2 DEF Typed, ItemsOk, Item
<1>4. f \in QtySnaps
  BY <1>2, <1>3, SnapIs
<1> HIDE DEF f
<1>5. k \in Local /\ k.pc = "bulk" /\ k.goal = "bulk" /\ k.key = {} /\ k.snap = f
  BY <1>4, IdleOk DEF Local, IdleCall, Steps, Goals
<1> HIDE DEF k
<1>6. CallOk(k, DOMAIN item)
  BY <1>2, <1>3, <1>4, <1>5 DEF CallOk, Reading
<1> QED
  BY <1>1, <1>5, <1>6 DEF Move

LEMMA BulkNextIs ==
  ASSUME Typed, NEW c \in Call, NEW x \in DOMAIN item, BulkNext(c, x)
  PROVE  \E k \in Local :
           /\ Move(c, k) /\ CallOk(k, DOMAIN item) /\ call[c].pc = "bulk" /\ k.goal # "away"
           /\ \/ k = IdleCall /\ raced' = raced
              \/ /\ WritesTo(k, x) /\ Race(c, x)
                 /\ \E q \in Qty : k.qty = QtyToWrite(item[x], k.st, q)
<1>0. call[c] \in Local /\ CallOk(call[c], DOMAIN item) /\ call[c].pc = "bulk"
  BY DEF Typed, CallsOk, BulkNext
<1>1. CASE Finish(c) /\ raced' = raced
  BY <1>0, <1>1, IdleOk, FinishIs
<1>2. CASE ~(Finish(c) /\ raced' = raced)
  <2> DEFINE f == Drop(call[c].snap, {x})
             r == [call[c] EXCEPT !.snap = f]
             q == call[c].snap[x]
             st == call[c].st
  <2>1. /\ call' = [call EXCEPT ![c] = Update(r, x, st, q, FALSE)] /\ Race(c, x)
        /\ MaySet(FALSE, item[x].status, st) /\ x \in DOMAIN call[c].snap
    BY <1>2, Zenon DEF BulkNext
  <2>2. f \in QtySnaps /\ DOMAIN f \subseteq DOMAIN item
    <3>1. call[c].snap \in QtySnaps /\ DOMAIN call[c].snap \subseteq DOMAIN item
      BY <1>0 DEF CallOk
    <3> QED
      BY <3>1, SnapIs DEF Drop
  <2>3. q \in Qty
    BY <1>0, <2>1, SnapIs DEF CallOk
  <2> HIDE DEF f
  <2>4. r \in Local /\ r.goal = call[c].goal /\ r.snap = f
    BY <1>0, <2>2 DEF Local
  <2>5. call[c].goal # "away" /\ st \in Status \cup {"same"}
    BY <1>0 DEF CallOk, Local
  <2> DEFINE admin == FALSE
  <2>6. admin \in BOOLEAN /\ MaySet(admin, item[x].status, st)
    BY <2>1
  <2> DEFINE k == Update(r, x, st, q, admin)
  <2>7. Move(c, k)
    BY <2>1 DEF Move
  <2> HIDE DEF r, q, st, admin
  <2>8. /\ k \in Local /\ CallOk(k, DOMAIN item) /\ WritesTo(k, x) /\ k.st = st
        /\ k.goal = r.goal /\ k.qty = QtyToWrite(item[x], st, q)
    <3>1. q \in Qty \cup {Unset} /\ r.goal # "away"
          /\ r.snap \in QtySnaps /\ DOMAIN r.snap \subseteq DOMAIN item
      BY <2>2, <2>3, <2>4, <2>5
    <3> QED
      BY <2>4, <2>5, <2>6, <3>1, UpdateIs
  <2> HIDE DEF k
  <2> QED
    BY <1>0, <2>1, <2>3, <2>4, <2>5, <2>7, <2>8
<1> QED
  BY <1>1, <1>2

LEMMA AwayCreateIs ==
  ASSUME Typed, NEW c \in Call, AwayCreate(c)
  PROVE  \E k \in Local :
           /\ Move(c, k) /\ CallOk(k, DOMAIN item) /\ call[c].pc = "idle" /\ k.pc = "pending"
           /\ k.key = {}
<1> DEFINE k == [IdleCall EXCEPT !.pc = "pending", !.goal = "away"]
<1>1. call[c].pc = "idle" /\ call' = [call EXCEPT ![c] = k]
  BY DEF AwayCreate, Begin
<1>2. k \in Local /\ k.pc = "pending" /\ k.goal = "away" /\ k.key = {}
  BY IdleOk DEF Local, IdleCall, Steps, Goals
<1> HIDE DEF k
<1> QED
  BY <1>1, <1>2 DEF Move, CallOk, Reading

LEMMA AwayReadIs ==
  ASSUME Typed, NEW c \in Call, AwayRead(c)
  PROVE  \E k \in Local :
           /\ Move(c, k) /\ CallOk(k, DOMAIN item) /\ call[c].pc = "pending" /\ k.key = {}
           /\ \/ k = IdleCall /\ Pending(Slot) = {}
              \/ k.pc = "skip" /\ DOMAIN k.snap = Pending(Slot)
<1>0. call[c] \in Local /\ CallOk(call[c], DOMAIN item) /\ call[c].pc = "pending"
  BY DEF Typed, CallsOk, AwayRead
<1>1. CASE Pending(Slot) = {}
  BY <1>0, <1>1, IdleOk, FinishIs DEF AwayRead
<1>2. CASE Pending(Slot) # {}
  <2> DEFINE f == [x \in Pending(Slot) |-> item[x].planned]
             k == [call[c] EXCEPT !.pc = "skip", !.snap = f]
  <2>1. call' = [call EXCEPT ![c] = k]
    BY <1>2 DEF AwayRead
  <2>2. Pending(Slot) \subseteq DOMAIN item /\ DOMAIN item \subseteq Key
    BY DEF Pending, Typed, ItemsOk
  <2>3. f \in [Pending(Slot) -> Qty] /\ DOMAIN f = Pending(Slot)
    BY <2>2 DEF Typed, ItemsOk, Item
  <2>4. f \in QtySnaps
    BY <2>2, <2>3, SnapIs
  <2> HIDE DEF f
  <2>5. k \in Local /\ k.pc = "skip" /\ k.key = call[c].key /\ k.snap = f /\ k.goal = call[c].goal
    BY <1>0, <2>4 DEF Local, Steps
  <2> HIDE DEF k
  <2>6. CallOk(k, DOMAIN item) /\ k.key = {}
    BY <1>0, <2>2, <2>3, <2>4, <2>5 DEF CallOk, Reading
  <2> QED
    BY <1>0, <2>1, <2>3, <2>5, <2>6 DEF Move
<1> QED
  BY <1>1, <1>2

LEMMA AwaySkipIs ==
  ASSUME Typed, NEW c \in Call, NEW x \in DOMAIN item, AwaySkip(c, x)
  PROVE  \E k \in Local :
           /\ Move(c, k) /\ CallOk(k, DOMAIN item) /\ call[c].pc = "skip" /\ k.key = {}
           /\ x \in DOMAIN call[c].snap
           /\ \/ k = IdleCall /\ DOMAIN call[c].snap = {x}
              \/ k.pc = "skip" /\ DOMAIN k.snap = DOMAIN call[c].snap \ {x}
<1>0. /\ call[c] \in Local /\ CallOk(call[c], DOMAIN item)
      /\ call[c].pc = "skip" /\ x \in DOMAIN call[c].snap
  BY DEF Typed, CallsOk, AwaySkip
<1>1. CASE DOMAIN call[c].snap = {x}
  BY <1>0, <1>1, IdleOk, FinishIs DEF AwaySkip
<1>2. CASE DOMAIN call[c].snap # {x}
  <2> DEFINE f == Drop(call[c].snap, {x})
             k == [call[c] EXCEPT !.snap = f]
  <2>1. call' = [call EXCEPT ![c] = k]
    BY <1>2 DEF AwaySkip
  <2>2. call[c].snap \in QtySnaps /\ DOMAIN call[c].snap \subseteq DOMAIN item
    BY <1>0 DEF CallOk
  <2>3. f \in QtySnaps /\ DOMAIN f = DOMAIN call[c].snap \ {x} /\ DOMAIN f \subseteq DOMAIN item
    BY <2>2, SnapIs DEF Drop
  <2> HIDE DEF f
  <2>4. k \in Local /\ k.pc = "skip" /\ k.key = call[c].key /\ k.snap = f /\ k.goal = call[c].goal
    BY <1>0, <2>3 DEF Local
  <2> HIDE DEF k
  <2>5. CallOk(k, DOMAIN item) /\ k.key = {}
    BY <1>0, <2>3, <2>4 DEF CallOk, Reading
  <2> QED
    BY <1>0, <2>1, <2>3, <2>4, <2>5 DEF Move
<1> QED
  BY <1>1, <1>2

LEMMA GenerateReadIs ==
  ASSUME Typed, NEW c \in Call, GenerateRead(c)
  PROVE  \E k \in Local :
           /\ CallOk(k, DOMAIN item) /\ call[c].pc = "subs" /\ k.pc = "slots"
           /\ DOMAIN k.snap = Listed(call[c].slots) /\ k.goal = call[c].goal /\ k.key = {}
           /\ \A s \in Listed(call[c].slots) : k.snap[s] = sub[s]
           /\ k.clean => call[c].slots = Slot /\ \A d \in Call \ {c} : ~Generating(d)
           /\ call' = [d \in Call |-> IF d = c THEN k ELSE [call[d] EXCEPT !.clean = FALSE]]
<1>0. call[c] \in Local /\ CallOk(call[c], DOMAIN item) /\ call[c].pc = "subs"
  BY DEF Typed, CallsOk, GenerateRead
<1> DEFINE S == Listed(call[c].slots)
           f == [s \in S |-> sub[s]]
           w == (\A d \in Call \ {c} : ~Generating(d)) /\ call[c].slots = Slot
           k == [call[c] EXCEPT !.pc = "slots", !.snap = f, !.clean = w]
<1>1. call' = [d \in Call |-> IF d = c THEN k ELSE [call[d] EXCEPT !.clean = FALSE]]
  BY DEF GenerateRead
<1>2. S \in SUBSET Sub
  BY DEF Listed
<1>3. f \in [S -> Plan] /\ DOMAIN f = S /\ \A s \in S : f[s] = sub[s]
  BY <1>2 DEF Typed
<1>4. w \in BOOLEAN
  OBVIOUS
<1>5. w => call[c].slots = Slot /\ \A d \in Call \ {c} : ~Generating(d)
  OBVIOUS
<1> HIDE DEF S, f, w
<1>6. f \in PlanSnaps
  BY <1>2, <1>3, SnapIs
<1>7. /\ k \in Local /\ k.pc = "slots" /\ k.goal = call[c].goal /\ k.key = call[c].key
      /\ k.snap = f /\ k.clean = w
  BY <1>0, <1>4, <1>6 DEF Local, Steps
<1> HIDE DEF k
<1>8. CallOk(k, DOMAIN item) /\ k.key = {}
  BY <1>0, <1>6, <1>7 DEF CallOk, Reading
<1> QED
  BY <1>0, <1>1, <1>3, <1>5, <1>7, <1>8 DEF S

\* Taking the mark of a clean list from a handler changes nothing else of it.
LEMMA NotClean ==
  ASSUME NEW r \in Local, NEW keys, CallOk(r, keys)
  PROVE  LET k == [r EXCEPT !.clean = FALSE] IN
         /\ k \in Local /\ CallOk(k, keys) /\ ~k.clean
         /\ k.pc = r.pc /\ k.goal = r.goal /\ k.slots = r.slots /\ k.snap = r.snap
         /\ k.key = r.key /\ k.st = r.st /\ k.qty = r.qty
<1> DEFINE k == [r EXCEPT !.clean = FALSE]
<1>1. /\ k \in Local /\ ~k.clean
      /\ k.pc = r.pc /\ k.goal = r.goal /\ k.slots = r.slots /\ k.snap = r.snap
      /\ k.key = r.key /\ k.st = r.st /\ k.qty = r.qty /\ k.admin = r.admin /\ k.saw = r.saw
  BY DEF Local
<1> HIDE DEF k
<1>2. CallOk(k, keys)
  BY <1>1 DEF CallOk
<1> QED
  BY <1>1, <1>2 DEF k

(***************************************************************************)
(* What the steps make of the items.                                       *)
(***************************************************************************)
LEMMA GenerateItemItems ==
  ASSUME Typed, NEW c \in Call, NEW s \in Sub, s \in DOMAIN call[c].snap, GenerateItem(c, s)
  PROVE  \E plan \in Plan :
           /\ plan = call[c].snap[s] /\ ItemsOk' /\ DOMAIN item \subseteq DOMAIN item'
           /\ \A x \in DOMAIN item :
                /\ item'[x].status = item[x].status /\ item'[x].slot = item[x].slot
                /\ item'[x].delivered = item[x].delivered
                /\ x # <<s, plan.product>> => item'[x] = item[x]
           /\ \A x \in DOMAIN item' \ DOMAIN item :
                item'[x].status = "PENDING" /\ item'[x].delivered = Unset
           /\ plan.want > 0 =>
                LET x == <<s, plan.product>> IN x \in DOMAIN item' /\ item'[x].planned = plan.want
<1>1. call[c].snap[s] \in Plan
  <2>1. call[c].snap \in PlanSnaps
    BY DEF Typed, CallsOk, CallOk, Reading, GenerateItem
  <2> QED
    BY <2>1, SnapIs
<1>2. PICK plan \in Plan : plan = call[c].snap[s]
  BY <1>1
<1>3. item' = IF plan.want = 0 THEN item
              ELSE Set(<<s, plan.product>>, Upserted(<<s, plan.product>>, plan))
  BY <1>2 DEF GenerateItem
<1>4. /\ plan.slot \in Slot /\ plan.product \in Product /\ plan.want \in Qty \cup {0}
      /\ Qty \subseteq Nat \ {0}
  BY PlanFields
<1>5. CASE plan.want = 0
  BY ONLY Typed, <1>2, <1>3, <1>5 DEF Typed, ItemsOk
<1>6. CASE plan.want # 0
  <2> DEFINE x == <<s, plan.product>>
             row == Upserted(x, plan)
  <2>1. x \in Key
    BY <1>4 DEF Key
  <2>2. plan.want \in Qty
    BY <1>4, <1>6
  <2>3. /\ row \in Item /\ row.planned = plan.want
        /\ x \in DOMAIN item => /\ row.status = item[x].status /\ row.slot = item[x].slot
                                /\ row.delivered = item[x].delivered
        /\ x \notin DOMAIN item => row.status = "PENDING" /\ row.delivered = Unset
    <3>1. CASE x \in DOMAIN item
      <4>1. item[x] \in Item
        BY <3>1 DEF Typed, ItemsOk
      <4>2. row = [item[x] EXCEPT !.planned = plan.want]
        BY <3>1 DEF Upserted
      <4> HIDE DEF x, row
      <4> QED
        BY <2>2, <3>1, <4>1, <4>2 DEF Item
    <3>2. CASE x \notin DOMAIN item
      <4>1. row = [status |-> "PENDING", planned |-> plan.want, delivered |-> Unset, slot |-> plan.slot]
        BY <3>2 DEF Upserted
      <4> HIDE DEF x, row
      <4> QED
        BY <1>4, <2>2, <3>2, <4>1 DEF Item, Status
    <3> QED
      BY <3>1, <3>2
  <2>4. item' = [j \in DOMAIN item \cup {x} |-> IF j = x THEN row ELSE item[j]]
    BY <1>3, <1>6 DEF Set
  <2> HIDE DEF row
  <2>5. /\ DOMAIN item' = DOMAIN item \cup {x} /\ item'[x] = row
        /\ \A j \in DOMAIN item : j # x => item'[j] = item[j]
    BY <2>4
  <2> HIDE DEF x
  <2>6. ItemsOk'
    BY <2>1, <2>3, <2>5 DEF Typed, ItemsOk
  <2>7. /\ \A j \in DOMAIN item :
             /\ item'[j].status = item[j].status /\ item'[j].slot = item[j].slot
             /\ item'[j].delivered = item[j].delivered
             /\ j # x => item'[j] = item[j]
        /\ \A j \in DOMAIN item' \ DOMAIN item :
             item'[j].status = "PENDING" /\ item'[j].delivered = Unset
        /\ x \in DOMAIN item' /\ item'[x].planned = plan.want
    BY <2>3, <2>5
  <2> QED
    BY <1>2, <2>5, <2>6, <2>7 DEF x
<1> QED
  BY <1>5, <1>6

LEMMA UpdateWriteItems ==
  ASSUME Typed, NEW c \in Call, UpdateWrite(c)
  PROVE  /\ ItemsOk' /\ DOMAIN item' = DOMAIN item
         /\ \A x \in DOMAIN item :
              /\ item'[x].planned = item[x].planned /\ item'[x].slot = item[x].slot
              /\ x \notin call[c].key => item'[x] = item[x]
              /\ x \in call[c].key =>
                   /\ item'[x].status = IF call[c].st = "same" THEN item[x].status ELSE call[c].st
                   /\ item'[x].delivered = call[c].qty
<1>1. PICK r \in Local : r = call[c]
  BY DEF Typed, CallsOk
<1>2. item' = [x \in DOMAIN item |-> IF x \in r.key THEN Written(item[x], r.st, r.qty) ELSE item[x]]
  BY <1>1 DEF UpdateWrite
<1>3. ASSUME NEW x \in DOMAIN item
      PROVE  /\ Written(item[x], r.st, r.qty) \in Item
             /\ Written(item[x], r.st, r.qty).planned = item[x].planned
             /\ Written(item[x], r.st, r.qty).slot = item[x].slot
             /\ Written(item[x], r.st, r.qty).status = IF r.st = "same" THEN item[x].status ELSE r.st
             /\ Written(item[x], r.st, r.qty).delivered = r.qty
  <2>1. item[x] \in Item
    BY DEF Typed, ItemsOk
  <2>2. r.st \in Status \cup {"same"} /\ r.qty \in Qty \cup {Unset}
    BY DEF Local
  <2> QED
    BY <2>1, <2>2 DEF Written, Item
<1>4. DOMAIN item' = DOMAIN item /\ \A x \in DOMAIN item :
        item'[x] = IF x \in r.key THEN Written(item[x], r.st, r.qty) ELSE item[x]
  BY <1>2
<1>5. ItemsOk'
  BY <1>3, <1>4 DEF Typed, ItemsOk
<1> QED
  BY <1>1, <1>3, <1>4, <1>5

LEMMA AwaySkipItems ==
  ASSUME Typed, NEW c \in Call, NEW x \in DOMAIN item, AwaySkip(c, x)
  PROVE  /\ ItemsOk' /\ DOMAIN item' = DOMAIN item
         /\ item'[x].status = "SKIPPED" /\ item'[x].planned = item[x].planned
         /\ item'[x].slot = item[x].slot /\ item'[x].delivered = item[x].delivered
         /\ \A j \in DOMAIN item : j # x => item'[j] = item[j]
<1>1. PICK row \in Item : row = item[x]
  BY DEF Typed, ItemsOk
<1> DEFINE new == [row EXCEPT !.status = "SKIPPED"]
<1>2. item' = [item EXCEPT ![x] = new]
  BY <1>1 DEF AwaySkip
<1>3. /\ new \in Item /\ new.status = "SKIPPED" /\ new.planned = row.planned
      /\ new.slot = row.slot /\ new.delivered = row.delivered
  BY <1>1 DEF Item, Status
<1> HIDE DEF new
<1>4. DOMAIN item' = DOMAIN item /\ item'[x] = new /\ \A j \in DOMAIN item : j # x => item'[j] = item[j]
  BY <1>2
<1>5. ItemsOk'
  BY <1>3, <1>4 DEF Typed, ItemsOk
<1> QED
  BY <1>1, <1>3, <1>4, <1>5

(***************************************************************************)
(* Types.                                                                  *)
(***************************************************************************)
\* A step of one handler that leaves the subscriptions alone.
LEMMA TypedMove ==
  ASSUME Typed, NEW c \in Call, \E k \in Local : Move(c, k) /\ CallOk(k, DOMAIN item),
         sub' = sub, ItemsOk', DOMAIN item \subseteq DOMAIN item', run' \in [Slot -> RunStatus],
         away' \in BOOLEAN, fresh' \in BOOLEAN, muddled' \in BOOLEAN, raced' \subseteq DOMAIN item'
  PROVE  Typed'
<1>1. PICK k \in Local : Move(c, k) /\ CallOk(k, DOMAIN item)
  OBVIOUS
<1>2. CallOk(k, DOMAIN item')
  BY <1>1 DEF CallOk
<1>3. CallsOk'
  BY <1>1, <1>2, OneMoves DEF Move
<1> QED
  BY <1>3 DEF Typed

LEMMA TypedInit == Init => Typed
<1> SUFFICES ASSUME Init PROVE Typed
  OBVIOUS
<1>1. ItemsOk
  BY DEF Init, ItemsOk, NoItem
<1>2. CallsOk
  BY IdleOk DEF Init, CallsOk
<1>3. run \in [Slot -> RunStatus]
  BY DEF Init, RunStatus
<1> QED
  BY <1>1, <1>2, <1>3 DEF Init, Typed

LEMMA TypedGenerate ==
  ASSUME Typed, NEW c \in Call,
         \/ \E goal \in {"generate", "journey"}, S \in SlotFilter : GenerateBegin(c, goal, S)
         \/ GenerateRead(c)
         \/ \E sl \in Slot : GenerateSlot(c, sl)
         \/ \E s \in Sub : s \in DOMAIN call[c].snap /\ GenerateItem(c, s)
         \/ GenerateSlotEnd(c)
         \/ GenerateEnd(c)
  PROVE  Typed'
<1>1. ASSUME NEW goal \in {"generate", "journey"}, NEW S \in SlotFilter, GenerateBegin(c, goal, S)
      PROVE  Typed'
  <2>1. UNCHANGED <<sub, item, run, away, fresh, raced, muddled>>
    BY <1>1 DEF GenerateBegin
  <2>2. \E k \in Local : Move(c, k) /\ CallOk(k, DOMAIN item)
    BY <1>1, GenerateBeginIs
  <2> QED
    BY <2>1, <2>2, TypedMove DEF Typed, ItemsOk
<1>2. ASSUME GenerateRead(c) PROVE Typed'
  <2>1. UNCHANGED <<sub, item, run, away, fresh, raced, muddled>>
    BY <1>2 DEF GenerateRead
  <2>2. PICK k \in Local :
          /\ CallOk(k, DOMAIN item)
          /\ call' = [d \in Call |-> IF d = c THEN k ELSE [call[d] EXCEPT !.clean = FALSE]]
    BY <1>2, GenerateReadIs
  <2>3. \A d \in Call : call'[d] \in Local /\ CallOk(call'[d], DOMAIN item)
    BY <2>2, NotClean DEF Typed, CallsOk
  <2>4. call' \in [Call -> Local]
    BY <2>2, <2>3
  <2> QED
    BY <2>1, <2>3, <2>4 DEF Typed, ItemsOk, CallsOk
<1>3. ASSUME NEW sl \in Slot, GenerateSlot(c, sl) PROVE Typed'
  <2>1. UNCHANGED <<sub, item, away, fresh, raced, muddled>> /\ run' \in [Slot -> RunStatus]
    BY <1>3 DEF GenerateSlot, GeneratedRun, Typed, RunStatus
  <2>2. \E k \in Local : Move(c, k) /\ CallOk(k, DOMAIN item)
    BY <1>3, GenerateSlotIs
  <2> QED
    BY <2>1, <2>2, TypedMove DEF Typed, ItemsOk
<1>4. ASSUME NEW s \in Sub, s \in DOMAIN call[c].snap, GenerateItem(c, s) PROVE Typed'
  <2>1. UNCHANGED <<sub, run, away, fresh, raced, muddled>>
    BY <1>4 DEF GenerateItem
  <2>2. \E k \in Local : Move(c, k) /\ CallOk(k, DOMAIN item)
    BY <1>4, GenerateItemIs
  <2>3. ItemsOk' /\ DOMAIN item \subseteq DOMAIN item'
    BY <1>4, GenerateItemItems
  <2> QED
    BY <2>1, <2>2, <2>3, TypedMove DEF Typed
<1>5. ASSUME GenerateSlotEnd(c) PROVE Typed'
  <2>1. UNCHANGED <<sub, item, away, fresh, raced, muddled>> /\ run' \in [Slot -> RunStatus]
    BY <1>5 DEF GenerateSlotEnd, GeneratedRun, Typed, RunStatus
  <2>2. \E k \in Local : Move(c, k) /\ CallOk(k, DOMAIN item)
    BY <1>5, GenerateSlotEndIs
  <2> QED
    BY <2>1, <2>2, TypedMove DEF Typed, ItemsOk
<1>6. ASSUME GenerateEnd(c) PROVE Typed'
  <2>1. UNCHANGED <<sub, item, run, away, raced, muddled>>
    BY <1>6 DEF GenerateEnd
  <2>2. \E k \in Local : Move(c, k) /\ CallOk(k, DOMAIN item)
    BY <1>6, GenerateEndIs
  <2>3. fresh' \in BOOLEAN
    BY <1>6 DEF GenerateEnd
  <2> QED
    BY <2>1, <2>2, <2>3, TypedMove DEF Typed, ItemsOk
<1> QED
  BY <1>1, <1>2, <1>3, <1>4, <1>5, <1>6

LEMMA TypedJourney ==
  ASSUME Typed, NEW c \in Call, JourneyRead(c) \/ \E sl \in Slot : JourneyStart(c, sl)
  PROVE  Typed'
<1>1. ASSUME JourneyRead(c) PROVE Typed'
  <2>1. UNCHANGED <<sub, item, run, away, fresh, raced, muddled>>
    BY <1>1 DEF JourneyRead
  <2>2. \E k \in Local : Move(c, k) /\ CallOk(k, DOMAIN item)
    BY <1>1, JourneyReadIs
  <2> QED
    BY <2>1, <2>2, TypedMove DEF Typed, ItemsOk
<1>2. ASSUME NEW sl \in Slot, JourneyStart(c, sl) PROVE Typed'
  <2>1. UNCHANGED <<sub, item, away, fresh, raced, muddled>> /\ run' \in [Slot -> RunStatus]
    BY <1>2 DEF JourneyStart, Typed, RunStatus
  <2>2. \E k \in Local : Move(c, k) /\ CallOk(k, DOMAIN item)
    BY <1>2, JourneyStartIs
  <2> QED
    BY <2>1, <2>2, TypedMove DEF Typed, ItemsOk
<1> QED
  BY <1>1, <1>2

LEMMA TypedUpdate ==
  ASSUME Typed, NEW c \in Call,
         \/ \E x \in DOMAIN item, st \in Status \cup {"same"}, q \in Qty \cup {Unset},
              admin \in BOOLEAN : UpdateRead(c, x, st, q, admin)
         \/ UpdateWrite(c)
         \/ \E S \in SlotFilter, st \in Status : BulkRead(c, S, st)
         \/ \E x \in DOMAIN item : BulkNext(c, x)
  PROVE  Typed'
<1>1. ASSUME NEW x \in DOMAIN item, NEW st \in Status \cup {"same"}, NEW q \in Qty \cup {Unset},
             NEW admin \in BOOLEAN, UpdateRead(c, x, st, q, admin)
      PROVE  Typed'
  <2>1. UNCHANGED <<sub, item, run, away, fresh, muddled>> /\ Race(c, x)
    BY <1>1 DEF UpdateRead
  <2>2. \E k \in Local : Move(c, k) /\ CallOk(k, DOMAIN item)
    BY <1>1, UpdateReadIs
  <2>3. raced' \subseteq DOMAIN item
    BY <2>1 DEF Race, Typed
  <2> QED
    BY <2>1, <2>2, <2>3, TypedMove DEF Typed, ItemsOk
<1>2. ASSUME UpdateWrite(c) PROVE Typed'
  <2>1. UNCHANGED <<sub, run, away, fresh, raced>> /\ muddled' \in BOOLEAN
    BY <1>2 DEF UpdateWrite
  <2>2. \E k \in Local : Move(c, k) /\ CallOk(k, DOMAIN item)
    BY <1>2, UpdateWriteIs
  <2>3. ItemsOk' /\ DOMAIN item' = DOMAIN item
    BY <1>2, UpdateWriteItems
  <2> QED
    BY <2>1, <2>2, <2>3, TypedMove DEF Typed
<1>3. ASSUME NEW S \in SlotFilter, NEW st \in Status, BulkRead(c, S, st) PROVE Typed'
  <2>1. UNCHANGED <<sub, item, run, away, fresh, raced, muddled>>
    BY <1>3 DEF BulkRead
  <2>2. \E k \in Local : Move(c, k) /\ CallOk(k, DOMAIN item)
    BY <1>3, BulkReadIs
  <2> QED
    BY <2>1, <2>2, TypedMove DEF Typed, ItemsOk
<1>4. ASSUME NEW x \in DOMAIN item, BulkNext(c, x) PROVE Typed'
  <2>1. UNCHANGED <<sub, item, run, away, fresh, muddled>>
    BY <1>4 DEF BulkNext
  <2>2. \E k \in Local : Move(c, k) /\ CallOk(k, DOMAIN item) /\ (raced' = raced \/ Race(c, x))
    BY <1>4, BulkNextIs
  <2>3. raced' \subseteq DOMAIN item
    BY <2>2 DEF Race, Typed
  <2> QED
    BY <2>1, <2>2, <2>3, TypedMove DEF Typed, ItemsOk
<1> QED
  BY <1>1, <1>2, <1>3, <1>4

LEMMA TypedAway ==
  ASSUME Typed, NEW c \in Call,
         \/ AwayCreate(c)
         \/ AwayRead(c)
         \/ \E x \in DOMAIN item : AwaySkip(c, x)
         \/ CallFails(c)
  PROVE  Typed'
<1>1. ASSUME AwayCreate(c) PROVE Typed'
  <2>1. UNCHANGED <<sub, item, run, fresh, raced>> /\ away' \in BOOLEAN /\ muddled' \in BOOLEAN
    BY <1>1 DEF AwayCreate
  <2>2. \E k \in Local : Move(c, k) /\ CallOk(k, DOMAIN item)
    BY <1>1, AwayCreateIs
  <2> QED
    BY <2>1, <2>2, TypedMove DEF Typed, ItemsOk
<1>2. ASSUME AwayRead(c) PROVE Typed'
  <2>1. UNCHANGED <<sub, item, run, away, fresh, raced, muddled>>
    BY <1>2 DEF AwayRead
  <2>2. \E k \in Local : Move(c, k) /\ CallOk(k, DOMAIN item)
    BY <1>2, AwayReadIs
  <2> QED
    BY <2>1, <2>2, TypedMove DEF Typed, ItemsOk
<1>3. ASSUME NEW x \in DOMAIN item, AwaySkip(c, x) PROVE Typed'
  <2>1. UNCHANGED <<sub, run, away, fresh, raced, muddled>>
    BY <1>3 DEF AwaySkip
  <2>2. \E k \in Local : Move(c, k) /\ CallOk(k, DOMAIN item)
    BY <1>3, AwaySkipIs
  <2>3. ItemsOk' /\ DOMAIN item' = DOMAIN item
    BY <1>3, AwaySkipItems
  <2> QED
    BY <2>1, <2>2, <2>3, TypedMove DEF Typed
<1>4. ASSUME CallFails(c) PROVE Typed'
  <2>1. UNCHANGED <<sub, item, run, away, fresh, raced>> /\ muddled' \in BOOLEAN
    BY <1>4 DEF CallFails
  <2>2. Move(c, IdleCall) /\ IdleCall \in Local /\ CallOk(IdleCall, DOMAIN item)
    BY <1>4, FinishIs, IdleOk DEF CallFails
  <2>3. \E k \in Local : Move(c, k) /\ CallOk(k, DOMAIN item)
    BY <2>2
  <2> QED
    BY <2>1, <2>3, TypedMove DEF Typed, ItemsOk
<1> QED
  BY <1>1, <1>2, <1>3, <1>4

LEMMA TypedNext == Typed /\ [Next]_vars => Typed'
<1> SUFFICES ASSUME Typed, [Next]_vars PROVE Typed'
  OBVIOUS
<1>1. ASSUME NEW s \in Sub, NEW row \in Plan, Change(s, row) PROVE Typed'
  <2>1. UNCHANGED <<item, run, away, raced, muddled>> /\ fresh' = FALSE
    BY <1>1 DEF Change
  <2>2. sub' \in [Sub -> Plan]
    BY <1>1 DEF Change, Typed
  <2>3. call' = [c \in Call |-> [call[c] EXCEPT !.clean = FALSE]]
    BY <1>1 DEF Change
  <2>4. \A c \in Call : call'[c] \in Local /\ CallOk(call'[c], DOMAIN item)
    BY <2>3, NotClean DEF Typed, CallsOk
  <2>5. call' \in [Call -> Local]
    BY <2>3, <2>4
  <2> QED
    BY <2>1, <2>2, <2>4, <2>5 DEF Typed, ItemsOk, CallsOk
<1>2. ASSUME NEW c \in Call, CallStep(c) PROVE Typed'
  BY <1>2, TypedGenerate, TypedJourney, TypedUpdate, TypedAway DEF CallStep
<1>3. ASSUME NEW S \in SlotFilter, JourneyComplete(S) PROVE Typed'
  <2>1. UNCHANGED <<sub, item, away, call, fresh, raced, muddled>> /\ run' \in [Slot -> RunStatus]
    BY <1>3 DEF JourneyComplete, Typed, RunStatus
  <2> QED
    BY <2>1 DEF Typed, ItemsOk, CallsOk
<1>4. ASSUME AwayDelete PROVE Typed'
  BY <1>4 DEF AwayDelete, Typed, ItemsOk, CallsOk
<1>5. CASE UNCHANGED vars
  BY <1>5 DEF vars, Typed, ItemsOk, CallsOk
<1> QED
  BY <1>1, <1>2, <1>3, <1>4, <1>5 DEF Next

LEMMA Typing == Spec => []Typed
  BY TypedInit, TypedNext, PTL DEF Spec

\* The keys are those of items there are, and each variable has its type.
THEOREM TypeCorrect == Spec => []TypeOK
<1>1. Typed => TypeOK
  BY DEF Typed, TypeOK, ItemsOk, CallsOk, CallOk, Local, RunStatus
<1> QED
  BY <1>1, Typing, PTL

(***************************************************************************)
(* The list.  Generations in flight have read the subscriptions as they    *)
(* are, while the list is fresh; and one that nothing disturbed since it   *)
(* read has written, or has still to write, whatever is wanted.            *)
(***************************************************************************)
IsReading(c) == call[c].pc \in Reading

Wanted(s) == sub[s].active /\ sub[s].want > 0

Served(s) ==
  LET k == <<s, sub[s].product>> IN k \in DOMAIN item /\ item[k].planned = sub[s].want

Current(c) == \A s \in DOMAIN call[c].snap : call[c].snap[s] = sub[s]

CleanOk(c) ==
  /\ \A d \in Call \ {c} : ~IsReading(d)
  /\ Current(c)
  /\ \A s \in Sub : Wanted(s) => s \in DOMAIN call[c].snap \/ Served(s)

ListInv ==
  /\ fresh => \A s \in Sub : Wanted(s) => Served(s)
  /\ fresh => \A c \in Call : IsReading(c) => Current(c)
  /\ \A c \in Call : IsReading(c) /\ call[c].clean => CleanOk(c)

(***************************************************************************)
(* The delivered quantity.  Until an update of the same item overlaps, the *)
(* quantity an update will write goes with the status it leaves.           *)
(***************************************************************************)
Leaves(st, x) == IF st = "same" THEN item[x].status ELSE st

QtyInv ==
  /\ QtyLostOnlyByOverlap
  /\ \A c \in Call : \A d \in Call \ {c} : \A x \in call[c].key \cap call[d].key : x \in raced
  /\ \A c \in Call : \A x \in call[c].key :
       x \notin raced /\ call[c].qty = Unset => Leaves(call[c].st, x) # "DELIVERED"

(***************************************************************************)
(* The unavailable day.  What is pending on it, somebody has yet to skip.  *)
(***************************************************************************)
Clears(c) ==
  \/ call[c].pc = "pending"
  \/ call[c].pc = "skip" /\ Pending(Slot) \subseteq DOMAIN call[c].snap

AwayInv ==
  away /\ ~muddled =>
    /\ \A c \in Call : ~Generating(c)
    /\ Pending(Slot) = {} \/ \E c \in Call : Clears(c)

----------------------------------------------------------------------------
(* QtyInv.                                                                 *)

\* Steps that write no status or quantity to an item and start no update.
LEMMA QtyFrame ==
  ASSUME Typed, QtyInv, raced' = raced,
         \A x \in DOMAIN item :
           /\ x \in DOMAIN item' /\ item'[x].status = item[x].status
           /\ item'[x].delivered = item[x].delivered,
         \A x \in DOMAIN item' \ DOMAIN item : item'[x].status = "PENDING",
         \A d \in Call :
           \/ call'[d].key = {}
           \/ /\ call'[d].key = call[d].key /\ call'[d].st = call[d].st
              /\ call'[d].qty = call[d].qty
  PROVE  QtyInv'
<1>0. \A d \in Call : call[d].key \subseteq DOMAIN item
  BY DEF Typed, CallsOk, CallOk
<1>1. QtyLostOnlyByOverlap'
  BY DEF QtyInv, QtyLostOnlyByOverlap
<1>2. \A c \in Call : \A d \in Call \ {c} : \A x \in call'[c].key \cap call'[d].key : x \in raced'
  BY DEF QtyInv
<1>3. ASSUME NEW c \in Call, NEW x \in call'[c].key, x \notin raced', call'[c].qty = Unset
      PROVE  (IF call'[c].st = "same" THEN item'[x].status ELSE call'[c].st) # "DELIVERED"
  <2>1. x \in call[c].key /\ call'[c].st = call[c].st /\ call[c].qty = Unset
    BY <1>3
  <2>2. item'[x].status = item[x].status
    BY <1>0, <2>1
  <2> QED
    BY <1>3, <2>1, <2>2 DEF QtyInv, Leaves
<1> QED
  BY <1>1, <1>2, <1>3 DEF QtyInv, Leaves

\* A step of one handler that is no update.
LEMMA QtyMove ==
  ASSUME Typed, QtyInv, NEW c \in Call,
         \E k \in Local : Move(c, k) /\ k.key = {},
         UNCHANGED <<item, raced>>
  PROVE  QtyInv'
<1>1. PICK k \in Local : Move(c, k) /\ k.key = {}
  OBVIOUS
<1>2. \A d \in Call : call'[d] = IF d = c THEN k ELSE call[d]
  BY <1>1 DEF Move, Typed, CallsOk
<1> QED
  BY <1>1, <1>2, QtyFrame

LEMMA QtyRead ==
  ASSUME Typed, QtyInv, NEW c \in Call, NEW x \in DOMAIN item, NEW k \in Local,
         Move(c, k), k.key = {x}, Race(c, x), item' = item,
         x \notin raced /\ k.qty = Unset => Leaves(k.st, x) # "DELIVERED"
  PROVE  QtyInv'
<1>1. \A d \in Call : call'[d] = IF d = c THEN k ELSE call[d]
  BY DEF Move, Typed, CallsOk
<1>2. /\ raced \subseteq raced'
      /\ \A d \in Call \ {c} : x \in call[d].key => x \in raced'
  BY DEF Race
<1>3. QtyLostOnlyByOverlap'
  BY <1>2 DEF QtyInv, QtyLostOnlyByOverlap
<1>4. ASSUME NEW d \in Call, NEW e \in Call \ {d}, NEW y \in call'[d].key \cap call'[e].key
      PROVE  y \in raced'
  <2>1. CASE d = c
    BY <1>1, <1>2, <2>1
  <2>2. CASE e = c
    BY <1>1, <1>2, <2>2
  <2>3. CASE d # c /\ e # c
    BY <1>1, <1>2, <2>3 DEF QtyInv
  <2> QED
    BY <2>1, <2>2, <2>3
<1>5. ASSUME NEW d \in Call, NEW y \in call'[d].key, y \notin raced', call'[d].qty = Unset
      PROVE  (IF call'[d].st = "same" THEN item'[y].status ELSE call'[d].st) # "DELIVERED"
  <2>1. CASE d = c
    <3>1. y = x /\ k.qty = Unset /\ x \notin raced /\ call'[d].st = k.st
      BY <1>1, <1>2, <1>5, <2>1
    <3> QED
      BY <3>1 DEF Leaves
  <2>2. CASE d # c
    <3>1. y \in call[d].key /\ y \notin raced /\ call[d].qty = Unset /\ call'[d].st = call[d].st
      BY <1>1, <1>2, <1>5, <2>2
    <3> QED
      BY <3>1 DEF QtyInv, Leaves
  <2> QED
    BY <2>1, <2>2
<1> QED
  BY <1>3, <1>4, <1>5 DEF QtyInv, Leaves

LEMMA QtyUpdateRead ==
  ASSUME Typed, QtyInv, NEW c \in Call, NEW x \in DOMAIN item, NEW st \in Status \cup {"same"},
         NEW q \in Qty \cup {Unset}, NEW admin \in BOOLEAN, UpdateRead(c, x, st, q, admin)
  PROVE  QtyInv'
<1>1. PICK k \in Local :
        /\ Move(c, k) /\ CallOk(k, DOMAIN item) /\ call[c].pc = "idle"
        /\ WritesTo(k, x) /\ k.st = st /\ k.qty = QtyToWrite(item[x], st, q)
        /\ k.goal # "away"
  BY UpdateReadIs
<1>2. item' = item /\ Race(c, x)
  BY DEF UpdateRead
<1>3. ASSUME x \notin raced, k.qty = Unset PROVE Leaves(k.st, x) # "DELIVERED"
  <2>1. item[x].planned # Unset
    BY DeliveryConstants DEF Typed, ItemsOk, Item, Unset
  <2>2. st # "DELIVERED" /\ item[x].delivered = Unset
    BY <1>1, <1>3, <2>1 DEF QtyToWrite
  <2>3. item[x].status # "DELIVERED"
    BY <1>3, <2>2 DEF QtyInv, QtyLostOnlyByOverlap
  <2> QED
    BY <1>1, <2>2, <2>3 DEF Leaves
<1> QED
  BY <1>1, <1>2, <1>3, QtyRead DEF WritesTo

LEMMA QtyBulkNext ==
  ASSUME Typed, QtyInv, NEW c \in Call, NEW x \in DOMAIN item, BulkNext(c, x)
  PROVE  QtyInv'
<1>1. PICK k \in Local :
        /\ Move(c, k)
        /\ \/ k = IdleCall /\ raced' = raced
           \/ /\ WritesTo(k, x) /\ Race(c, x)
              /\ \E q \in Qty : k.qty = QtyToWrite(item[x], k.st, q)
  BY BulkNextIs
<1>2. item' = item
  BY DEF BulkNext
<1>3. CASE k = IdleCall /\ raced' = raced
  BY <1>1, <1>2, <1>3, IdleOk, QtyMove
<1>4. CASE WritesTo(k, x) /\ Race(c, x) /\ \E q \in Qty : k.qty = QtyToWrite(item[x], k.st, q)
  <2>1. k.qty # Unset
    BY <1>4, DeliveryConstants DEF QtyToWrite, Unset
  <2> QED
    BY <1>1, <1>2, <1>4, <2>1, QtyRead DEF WritesTo
<1> QED
  BY <1>1, <1>3, <1>4

LEMMA QtyUpdateWrite ==
  ASSUME Typed, QtyInv, NEW c \in Call, UpdateWrite(c)
  PROVE  QtyInv'
<1>1. PICK k \in Local : Move(c, k) /\ k.key = {}
  BY UpdateWriteIs
<1>2. \A d \in Call : call'[d] = IF d = c THEN k ELSE call[d]
  BY <1>1 DEF Move, Typed, CallsOk
<1>3. raced' = raced
  BY DEF UpdateWrite
<1>4. /\ DOMAIN item' = DOMAIN item
      /\ \A x \in DOMAIN item :
           /\ x \notin call[c].key => item'[x] = item[x]
           /\ x \in call[c].key => /\ item'[x].status = Leaves(call[c].st, x)
                                   /\ item'[x].delivered = call[c].qty
  BY UpdateWriteItems DEF Leaves
<1>5. QtyLostOnlyByOverlap'
  BY <1>3, <1>4 DEF QtyInv, QtyLostOnlyByOverlap
<1>6. \A d \in Call : \A e \in Call \ {d} : \A x \in call'[d].key \cap call'[e].key : x \in raced'
  BY <1>1, <1>2, <1>3 DEF QtyInv
<1>7. ASSUME NEW d \in Call, NEW x \in call'[d].key, x \notin raced', call'[d].qty = Unset
      PROVE  (IF call'[d].st = "same" THEN item'[x].status ELSE call'[d].st) # "DELIVERED"
  <2>1. d # c /\ call'[d] = call[d] /\ x \in DOMAIN item
    BY <1>1, <1>2, <1>7 DEF Typed, CallsOk, CallOk
  <2>2. x \notin call[c].key
    BY <1>3, <1>7, <2>1 DEF QtyInv
  <2>3. item'[x] = item[x]
    BY <1>4, <2>1, <2>2
  <2> QED
    BY <1>3, <1>7, <2>1, <2>3 DEF QtyInv, Leaves
<1> QED
  BY <1>5, <1>6, <1>7 DEF QtyInv, Leaves

LEMMA QtyAwaySkip ==
  ASSUME Typed, QtyInv, NEW c \in Call, NEW x \in DOMAIN item, AwaySkip(c, x)
  PROVE  QtyInv'
<1>1. PICK k \in Local : Move(c, k) /\ k.key = {}
  BY AwaySkipIs
<1>2. \A d \in Call : call'[d] = IF d = c THEN k ELSE call[d]
  BY <1>1 DEF Move, Typed, CallsOk
<1>3. raced' = raced
  BY DEF AwaySkip
<1>4. /\ DOMAIN item' = DOMAIN item /\ item'[x].status = "SKIPPED"
      /\ \A j \in DOMAIN item : j # x => item'[j] = item[j]
  BY AwaySkipItems
<1>5. QtyLostOnlyByOverlap'
  BY <1>3, <1>4 DEF QtyInv, QtyLostOnlyByOverlap
<1>6. \A d \in Call : \A e \in Call \ {d} : \A j \in call'[d].key \cap call'[e].key : j \in raced'
  BY <1>1, <1>2, <1>3 DEF QtyInv
<1>7. ASSUME NEW d \in Call, NEW j \in call'[d].key, j \notin raced', call'[d].qty = Unset
      PROVE  (IF call'[d].st = "same" THEN item'[j].status ELSE call'[d].st) # "DELIVERED"
  <2>1. call'[d] = call[d] /\ j \in DOMAIN item
    BY <1>1, <1>2, <1>7 DEF Typed, CallsOk, CallOk
  <2>2. Leaves(call[d].st, j) # "DELIVERED"
    BY <1>3, <1>7, <2>1 DEF QtyInv
  <2>3. item'[j] = item[j] \/ item'[j].status = "SKIPPED"
    BY <1>4, <2>1
  <2> QED
    BY <2>1, <2>2, <2>3 DEF Leaves
<1> QED
  BY <1>5, <1>6, <1>7 DEF QtyInv, Leaves

LEMMA QtyInit == Init => QtyInv
  BY IdleOk DEF Init, QtyInv, QtyLostOnlyByOverlap, NoItem

LEMMA QtyCall ==
  ASSUME Typed, QtyInv, NEW c \in Call, CallStep(c)
  PROVE  QtyInv'
<1>1. ASSUME NEW goal \in {"generate", "journey"}, NEW S \in SlotFilter, GenerateBegin(c, goal, S)
      PROVE  QtyInv'
  BY <1>1, GenerateBeginIs, QtyMove DEF GenerateBegin
<1>2. ASSUME GenerateRead(c) PROVE QtyInv'
  <2>1. PICK k \in Local :
          /\ k.key = {}
          /\ call' = [d \in Call |-> IF d = c THEN k ELSE [call[d] EXCEPT !.clean = FALSE]]
    BY <1>2, GenerateReadIs
  <2>2. \A d \in Call : d # c => /\ call'[d].key = call[d].key /\ call'[d].st = call[d].st
                                 /\ call'[d].qty = call[d].qty
    BY <2>1, NotClean DEF Typed, CallsOk
  <2>3. call'[c].key = {}
    BY <2>1
  <2>4. UNCHANGED <<item, raced>>
    BY <1>2 DEF GenerateRead
  <2> QED
    BY <2>2, <2>3, <2>4, QtyFrame
<1>3. ASSUME NEW sl \in Slot, GenerateSlot(c, sl) PROVE QtyInv'
  BY <1>3, GenerateSlotIs, QtyMove DEF GenerateSlot, CallOk
<1>4. ASSUME NEW s \in Sub, s \in DOMAIN call[c].snap, GenerateItem(c, s) PROVE QtyInv'
  <2>1. PICK k \in Local : Move(c, k) /\ k.key = {}
    BY <1>4, GenerateItemIs DEF CallOk
  <2>2. \A d \in Call : call'[d] = IF d = c THEN k ELSE call[d]
    BY <2>1 DEF Move, Typed, CallsOk
  <2>3. raced' = raced
    BY <1>4 DEF GenerateItem
  <2>4. /\ \A x \in DOMAIN item :
             /\ x \in DOMAIN item' /\ item'[x].status = item[x].status
             /\ item'[x].delivered = item[x].delivered
        /\ \A x \in DOMAIN item' \ DOMAIN item : item'[x].status = "PENDING"
    BY <1>4, GenerateItemItems
  <2> QED
    BY <2>1, <2>2, <2>3, <2>4, QtyFrame
<1>5. ASSUME GenerateSlotEnd(c) PROVE QtyInv'
  BY <1>5, GenerateSlotEndIs, QtyMove DEF GenerateSlotEnd, CallOk
<1>6. ASSUME GenerateEnd(c) PROVE QtyInv'
  BY <1>6, GenerateEndIs, QtyMove DEF GenerateEnd, CallOk
<1>7. ASSUME JourneyRead(c) PROVE QtyInv'
  BY <1>7, JourneyReadIs, QtyMove DEF JourneyRead, CallOk
<1>8. ASSUME NEW sl \in Slot, JourneyStart(c, sl) PROVE QtyInv'
  BY <1>8, JourneyStartIs, QtyMove DEF JourneyStart, CallOk
<1>9. ASSUME NEW S \in SlotFilter, NEW st \in Status, BulkRead(c, S, st) PROVE QtyInv'
  BY <1>9, BulkReadIs, QtyMove DEF BulkRead
<1>10. ASSUME AwayCreate(c) PROVE QtyInv'
  BY <1>10, AwayCreateIs, QtyMove DEF AwayCreate
<1>11. ASSUME AwayRead(c) PROVE QtyInv'
  BY <1>11, AwayReadIs, QtyMove DEF AwayRead
<1>12. ASSUME CallFails(c) PROVE QtyInv'
  <2>1. Move(c, IdleCall) /\ UNCHANGED <<item, raced>>
    BY <1>12, FinishIs DEF CallFails
  <2>2. \E k \in Local : Move(c, k) /\ k.key = {}
    BY <2>1, IdleOk
  <2> QED
    BY <2>1, <2>2, QtyMove
<1> QED
  BY <1>1, <1>2, <1>3, <1>4, <1>5, <1>6, <1>7, <1>8, <1>9, <1>10, <1>11, <1>12,
     QtyUpdateRead, QtyBulkNext, QtyUpdateWrite, QtyAwaySkip DEF CallStep

LEMMA QtyNext == Typed /\ QtyInv /\ [Next]_vars => QtyInv'
<1> SUFFICES ASSUME Typed, QtyInv, [Next]_vars PROVE QtyInv'
  OBVIOUS
<1>1. ASSUME NEW s \in Sub, NEW row \in Plan, Change(s, row) PROVE QtyInv'
  <2>1. UNCHANGED <<item, raced>> /\ call' = [c \in Call |-> [call[c] EXCEPT !.clean = FALSE]]
    BY <1>1 DEF Change
  <2>2. \A d \in Call : /\ call'[d].key = call[d].key /\ call'[d].st = call[d].st
                        /\ call'[d].qty = call[d].qty
    BY <2>1, NotClean DEF Typed, CallsOk
  <2> QED
    BY <2>1, <2>2, QtyFrame
<1>2. ASSUME NEW c \in Call, CallStep(c) PROVE QtyInv'
  BY <1>2, QtyCall
<1>3. CASE \/ \E S \in SlotFilter : JourneyComplete(S)
           \/ AwayDelete
           \/ UNCHANGED vars
  <2>1. UNCHANGED <<item, raced, call>>
    BY <1>3 DEF JourneyComplete, AwayDelete, vars
  <2> QED
    BY <2>1, QtyFrame
<1> QED
  BY <1>1, <1>2, <1>3 DEF Next

\* A delivered item is without its quantity only where two updates of it were
\* in flight together.
THEOREM QtyLostNeedsOverlap == Spec => []QtyLostOnlyByOverlap
<1>1. QtyInv => QtyLostOnlyByOverlap
  BY DEF QtyInv
<1> QED
  BY <1>1, QtyInit, QtyNext, Typing, PTL DEF Spec

----------------------------------------------------------------------------
(* AwayInv.                                                                *)

\* Steps that declare or clear no unavailable day and put nothing back to
\* pending on one.
LEMMA AwayFrame ==
  ASSUME Typed, AwayInv,
         away' /\ ~muddled' => away /\ ~muddled /\ Pending(Slot)' \subseteq Pending(Slot),
         \A d \in Call : Generating(d)' /\ away' => Generating(d),
         \A d \in Call : call[d].pc \in {"pending", "skip"} =>
                           call'[d].pc = call[d].pc /\ call'[d].snap = call[d].snap
  PROVE  AwayInv'
<1> SUFFICES ASSUME away', ~muddled'
             PROVE  /\ \A d \in Call : ~Generating(d)'
                    /\ Pending(Slot)' = {} \/ \E d \in Call : Clears(d)'
  BY DEF AwayInv
<1>1. away /\ ~muddled /\ Pending(Slot)' \subseteq Pending(Slot)
  OBVIOUS
<1>2. \A d \in Call : ~Generating(d)'
  BY <1>1 DEF AwayInv
<1>3. ASSUME NEW d \in Call, Clears(d) PROVE Clears(d)'
  BY <1>1, <1>3 DEF Clears
<1> QED
  BY <1>1, <1>2, <1>3 DEF AwayInv

\* A step of one handler that is no declaration of an unavailable day.
LEMMA AwayMove ==
  ASSUME Typed, AwayInv, NEW c \in Call, NEW k \in Local, Move(c, k),
         call[c].pc \notin {"pending", "skip"},
         k.pc \in {"subs", "slots", "items"} => Generating(c) \/ ~away,
         away' = away, muddled => muddled',
         away /\ ~muddled' => Pending(Slot)' \subseteq Pending(Slot)
  PROVE  AwayInv'
<1>1. \A d \in Call : call'[d] = IF d = c THEN k ELSE call[d]
  BY DEF Move, Typed, CallsOk
<1>2. \A d \in Call : Generating(d)' /\ away' => Generating(d)
  BY <1>1 DEF Generating
<1>3. \A d \in Call : call[d].pc \in {"pending", "skip"} =>
                           call'[d].pc = call[d].pc /\ call'[d].snap = call[d].snap
  BY <1>1
<1>4. away' /\ ~muddled' => away /\ ~muddled /\ Pending(Slot)' \subseteq Pending(Slot)
  OBVIOUS
<1> QED
  BY <1>2, <1>3, <1>4, AwayFrame

LEMMA PendingSame ==
  ASSUME item' = item
  PROVE  Pending(Slot)' = Pending(Slot)
  BY DEF Pending

LEMMA AwayGenerate ==
  ASSUME Typed, AwayInv, NEW c \in Call,
         \/ \E goal \in {"generate", "journey"}, S \in SlotFilter : GenerateBegin(c, goal, S)
         \/ GenerateRead(c)
         \/ \E sl \in Slot : GenerateSlot(c, sl)
         \/ \E s \in Sub : s \in DOMAIN call[c].snap /\ GenerateItem(c, s)
         \/ GenerateSlotEnd(c)
         \/ GenerateEnd(c)
  PROVE  AwayInv'
<1>1. ASSUME NEW goal \in {"generate", "journey"}, NEW S \in SlotFilter, GenerateBegin(c, goal, S)
      PROVE  AwayInv'
  <2>1. PICK k \in Local : /\ Move(c, k) /\ call[c].pc = "idle"
                           /\ k.pc \in {"subs", "runs", "idle"} /\ (k.pc = "subs" => ~away)
    BY <1>1, GenerateBeginIs
  <2>2. UNCHANGED <<item, away, muddled>>
    BY <1>1 DEF GenerateBegin
  <2> QED
    BY <2>1, <2>2, AwayMove, PendingSame
<1>2. ASSUME GenerateRead(c) PROVE AwayInv'
  <2>1. PICK k \in Local :
          /\ call[c].pc = "subs" /\ k.pc = "slots"
          /\ call' = [d \in Call |-> IF d = c THEN k ELSE [call[d] EXCEPT !.clean = FALSE]]
    BY <1>2, GenerateReadIs
  <2>2. UNCHANGED <<item, away, muddled>>
    BY <1>2 DEF GenerateRead
  <2>3. /\ call'[c] = k
        /\ \A d \in Call : d # c => call'[d].pc = call[d].pc /\ call'[d].snap = call[d].snap
    BY <2>1, NotClean DEF Typed, CallsOk
  <2>4. \A d \in Call : Generating(d)' /\ away' => Generating(d)
    BY <2>1, <2>3 DEF Generating
  <2>5. \A d \in Call : call[d].pc \in {"pending", "skip"} =>
                           call'[d].pc = call[d].pc /\ call'[d].snap = call[d].snap
    BY <2>1, <2>3
  <2> QED
    BY <2>2, <2>4, <2>5, AwayFrame, PendingSame
<1>3. ASSUME NEW sl \in Slot, GenerateSlot(c, sl) PROVE AwayInv'
  <2>1. PICK k \in Local : Move(c, k) /\ call[c].pc = "slots"
    BY <1>3, GenerateSlotIs
  <2>2. UNCHANGED <<item, away, muddled>>
    BY <1>3 DEF GenerateSlot
  <2> QED
    BY <2>1, <2>2, AwayMove, PendingSame DEF Generating
<1>4. ASSUME NEW s \in Sub, s \in DOMAIN call[c].snap, GenerateItem(c, s) PROVE AwayInv'
  <2>1. PICK k \in Local : Move(c, k) /\ call[c].pc = "items"
    BY <1>4, GenerateItemIs
  <2>2. UNCHANGED <<away, muddled>>
    BY <1>4 DEF GenerateItem
  <2>3. ~(away /\ ~muddled)
    BY <2>1 DEF AwayInv, Generating
  <2> QED
    BY <2>1, <2>2, <2>3, AwayMove DEF Generating
<1>5. ASSUME GenerateSlotEnd(c) PROVE AwayInv'
  <2>1. PICK k \in Local : Move(c, k) /\ call[c].pc = "items"
    BY <1>5, GenerateSlotEndIs
  <2>2. UNCHANGED <<item, away, muddled>>
    BY <1>5 DEF GenerateSlotEnd
  <2> QED
    BY <2>1, <2>2, AwayMove, PendingSame DEF Generating
<1>6. ASSUME GenerateEnd(c) PROVE AwayInv'
  <2>1. PICK k \in Local : Move(c, k) /\ call[c].pc = "slots"
    BY <1>6, GenerateEndIs
  <2>2. UNCHANGED <<item, away, muddled>>
    BY <1>6 DEF GenerateEnd
  <2> QED
    BY <2>1, <2>2, AwayMove, PendingSame DEF Generating
<1> QED
  BY <1>1, <1>2, <1>3, <1>4, <1>5, <1>6

LEMMA AwayOther ==
  ASSUME Typed, AwayInv, NEW c \in Call,
         \/ JourneyRead(c)
         \/ \E sl \in Slot : JourneyStart(c, sl)
         \/ \E x \in DOMAIN item, st \in Status \cup {"same"}, q \in Qty \cup {Unset},
              admin \in BOOLEAN : UpdateRead(c, x, st, q, admin)
         \/ UpdateWrite(c)
         \/ \E S \in SlotFilter, st \in Status : BulkRead(c, S, st)
         \/ \E x \in DOMAIN item : BulkNext(c, x)
  PROVE  AwayInv'
<1>1. ASSUME JourneyRead(c) PROVE AwayInv'
  <2>1. PICK k \in Local : Move(c, k) /\ call[c].pc = "runs" /\ k.pc \in {"start", "idle"}
    BY <1>1, JourneyReadIs
  <2>2. UNCHANGED <<item, away, muddled>>
    BY <1>1 DEF JourneyRead
  <2> QED
    BY <2>1, <2>2, AwayMove, PendingSame
<1>2. ASSUME NEW sl \in Slot, JourneyStart(c, sl) PROVE AwayInv'
  <2>1. PICK k \in Local : Move(c, k) /\ call[c].pc = "start" /\ k.pc \in {"start", "idle"}
    BY <1>2, JourneyStartIs
  <2>2. UNCHANGED <<item, away, muddled>>
    BY <1>2 DEF JourneyStart
  <2> QED
    BY <2>1, <2>2, AwayMove, PendingSame
<1>3. ASSUME NEW x \in DOMAIN item, NEW st \in Status \cup {"same"}, NEW q \in Qty \cup {Unset},
             NEW admin \in BOOLEAN, UpdateRead(c, x, st, q, admin)
      PROVE  AwayInv'
  <2>1. PICK k \in Local : Move(c, k) /\ call[c].pc = "idle" /\ k.pc = "write"
    BY <1>3, UpdateReadIs DEF WritesTo
  <2>2. UNCHANGED <<item, away, muddled>>
    BY <1>3 DEF UpdateRead
  <2> QED
    BY <2>1, <2>2, AwayMove, PendingSame
<1>4. ASSUME UpdateWrite(c) PROVE AwayInv'
  <2>1. PICK k \in Local : Move(c, k) /\ call[c].pc = "write" /\ k.pc \in {"bulk", "idle"}
    BY <1>4, UpdateWriteIs
  <2>2. away' = away /\ (muddled => muddled') /\ (away /\ ~muddled' => call[c].st # "PENDING")
    BY <1>4 DEF UpdateWrite
  <2>3. call[c].st # "PENDING" => Pending(Slot)' \subseteq Pending(Slot)
    BY <1>4, UpdateWriteItems DEF Pending
  <2> QED
    BY <2>1, <2>2, <2>3, AwayMove
<1>5. ASSUME NEW S \in SlotFilter, NEW st \in Status, BulkRead(c, S, st) PROVE AwayInv'
  <2>1. PICK k \in Local : Move(c, k) /\ call[c].pc = "idle" /\ k.pc = "bulk"
    BY <1>5, BulkReadIs
  <2>2. UNCHANGED <<item, away, muddled>>
    BY <1>5 DEF BulkRead
  <2> QED
    BY <2>1, <2>2, AwayMove, PendingSame
<1>6. ASSUME NEW x \in DOMAIN item, BulkNext(c, x) PROVE AwayInv'
  <2>1. PICK k \in Local : Move(c, k) /\ call[c].pc = "bulk" /\ k.pc \in {"write", "idle"}
    BY <1>6, BulkNextIs, IdleOk DEF WritesTo
  <2>2. UNCHANGED <<item, away, muddled>>
    BY <1>6 DEF BulkNext
  <2> QED
    BY <2>1, <2>2, AwayMove, PendingSame
<1> QED
  BY <1>1, <1>2, <1>3, <1>4, <1>5, <1>6

\* The day is declared where nothing is being generated, or the history tells.
LEMMA AwayDeclared ==
  ASSUME Typed, NEW c \in Call, AwayCreate(c)
  PROVE  AwayInv'
<1>1. PICK k \in Local : Move(c, k) /\ k.pc = "pending"
  BY AwayCreateIs
<1>2. \A d \in Call : call'[d] = IF d = c THEN k ELSE call[d]
  BY <1>1 DEF Move, Typed, CallsOk
<1>3. ~muddled' => \A d \in Call : ~Generating(d)
  BY DEF AwayCreate
<1>4. ~muddled' => \A d \in Call : ~Generating(d)'
  BY <1>1, <1>2, <1>3 DEF Generating
<1>5. Clears(c)'
  BY <1>1, <1>2 DEF Clears
<1> QED
  BY <1>4, <1>5 DEF AwayInv

LEMMA AwayCleared ==
  ASSUME Typed, AwayInv, NEW c \in Call, AwayRead(c) \/ \E x \in DOMAIN item : AwaySkip(c, x)
  PROVE  AwayInv'
<1>1. PICK k \in Local :
        /\ Move(c, k) /\ k.pc \in {"idle", "skip"} /\ ~Generating(c)
        /\ Pending(Slot)' \subseteq Pending(Slot)
        /\ \/ Pending(Slot)' = {}
           \/ k.pc = "skip" /\ Pending(Slot)' \subseteq DOMAIN k.snap
           \/ /\ call[c].pc = "skip" /\ ~(Pending(Slot) \subseteq DOMAIN call[c].snap)
  <2>1. CASE AwayRead(c)
    <3>1. PICK k \in Local :
            /\ Move(c, k) /\ call[c].pc = "pending"
            /\ \/ k = IdleCall /\ Pending(Slot) = {}
               \/ k.pc = "skip" /\ DOMAIN k.snap = Pending(Slot)
      BY <2>1, AwayReadIs
    <3>2. item' = item
      BY <2>1 DEF AwayRead
    <3> QED
      BY <3>1, <3>2, PendingSame, IdleOk DEF Generating
  <2>2. ASSUME NEW x \in DOMAIN item, AwaySkip(c, x)
        PROVE  \E k \in Local :
                 /\ Move(c, k) /\ k.pc \in {"idle", "skip"} /\ ~Generating(c)
                 /\ Pending(Slot)' \subseteq Pending(Slot)
                 /\ \/ Pending(Slot)' = {}
                    \/ k.pc = "skip" /\ Pending(Slot)' \subseteq DOMAIN k.snap
                    \/ /\ call[c].pc = "skip" /\ ~(Pending(Slot) \subseteq DOMAIN call[c].snap)
    <3>1. PICK k \in Local :
            /\ Move(c, k) /\ call[c].pc = "skip"
            /\ \/ k = IdleCall /\ DOMAIN call[c].snap = {x}
               \/ k.pc = "skip" /\ DOMAIN k.snap = DOMAIN call[c].snap \ {x}
      BY <2>2, AwaySkipIs
    <3>2. Pending(Slot)' \subseteq Pending(Slot) \ {x}
      BY <2>2, AwaySkipItems DEF Pending
    <3> QED
      BY <3>1, <3>2, IdleOk DEF Generating
  <2> QED
    BY <2>1, <2>2
<1>2. UNCHANGED <<away, muddled>>
  BY DEF AwayRead, AwaySkip
<1>3. \A d \in Call : call'[d] = IF d = c THEN k ELSE call[d]
  BY <1>1 DEF Move, Typed, CallsOk
<1> SUFFICES ASSUME away, ~muddled
             PROVE  /\ \A d \in Call : ~Generating(d)'
                    /\ Pending(Slot)' = {} \/ \E d \in Call : Clears(d)'
  BY <1>2 DEF AwayInv
<1>4. \A d \in Call : ~Generating(d)'
  BY <1>1, <1>3 DEF AwayInv, Generating
<1>5. CASE Pending(Slot) = {} \/ Pending(Slot)' = {}
  BY <1>1, <1>4, <1>5
<1>6. CASE k.pc = "skip" /\ Pending(Slot)' \subseteq DOMAIN k.snap
  <2>1. Clears(c)'
    BY <1>3, <1>6 DEF Clears
  <2> QED
    BY <1>4, <2>1
<1>7. ASSUME NEW d \in Call \ {c}, Clears(d)
      PROVE  Clears(d)'
  BY <1>1, <1>3, <1>7 DEF Clears
<1>8. CASE call[c].pc = "skip" /\ ~(Pending(Slot) \subseteq DOMAIN call[c].snap)
  <2>1. ~Clears(c)
    BY <1>8 DEF Clears
  <2> QED
    BY <1>4, <1>5, <1>7, <2>1 DEF AwayInv
<1> QED
  BY <1>1, <1>5, <1>6, <1>8

LEMMA AwayFails ==
  ASSUME Typed, AwayInv, NEW c \in Call, CallFails(c)
  PROVE  AwayInv'
<1>1. Move(c, IdleCall) /\ UNCHANGED <<item, away>> /\ (muddled => muddled')
      /\ (call[c].goal = "away" => muddled')
  BY FinishIs DEF CallFails
<1>2. CASE call[c].goal = "away"
  BY <1>1, <1>2 DEF AwayInv
<1>3. CASE call[c].goal # "away"
  <2>1. call[c].pc \notin {"pending", "skip"}
    BY <1>3 DEF Typed, CallsOk, CallOk
  <2> QED
    BY <1>1, <2>1, IdleOk, AwayMove, PendingSame
<1> QED
  BY <1>2, <1>3

LEMMA AwayNext == Typed /\ AwayInv /\ [Next]_vars => AwayInv'
<1> SUFFICES ASSUME Typed, AwayInv, [Next]_vars PROVE AwayInv'
  OBVIOUS
<1>1. ASSUME NEW s \in Sub, NEW row \in Plan, Change(s, row) PROVE AwayInv'
  <2>1. UNCHANGED <<item, away, muddled>> /\ call' = [c \in Call |-> [call[c] EXCEPT !.clean = FALSE]]
    BY <1>1 DEF Change
  <2>2. \A d \in Call : call'[d].pc = call[d].pc /\ call'[d].snap = call[d].snap
    BY <2>1, NotClean DEF Typed, CallsOk
  <2> QED
    BY <2>1, <2>2, AwayFrame, PendingSame DEF Generating
<1>2. ASSUME NEW c \in Call, CallStep(c) PROVE AwayInv'
  BY <1>2, AwayGenerate, AwayOther, AwayDeclared, AwayCleared, AwayFails DEF CallStep
<1>3. CASE \/ \E S \in SlotFilter : JourneyComplete(S)
           \/ AwayDelete
           \/ UNCHANGED vars
  <2>1. UNCHANGED <<item, call, muddled>> /\ (away' => away)
    BY <1>3 DEF JourneyComplete, AwayDelete, vars
  <2> QED
    BY <2>1, AwayFrame, PendingSame DEF Generating
<1> QED
  BY <1>1, <1>2, <1>3 DEF Next

\* Nothing is left pending on an unavailable day, unless a generation was under
\* way when it was declared, the declaration died, or somebody put an item back.
THEOREM AwayDayClears == Spec => []AwayDayIsClear
<1>1. Init => AwayInv
  BY DEF Init, AwayInv
<1>2. ASSUME Typed, AwayInv PROVE AwayDayIsClear
  <2> SUFFICES ASSUME away, ~muddled, \A c \in Call : call[c].goal # "away" PROVE Pending(Slot) = {}
    BY DEF AwayDayIsClear
  <2>1. \A c \in Call : ~Clears(c)
    BY <1>2 DEF Typed, CallsOk, CallOk, Clears
  <2> QED
    BY <1>2, <2>1 DEF AwayInv
<1> QED
  BY <1>1, <1>2, AwayNext, Typing, PTL DEF Spec

----------------------------------------------------------------------------
(* ListInv.                                                                *)

\* Steps that leave the subscriptions, the planned quantities and what is read
\* of the subscriptions as they are.
LEMMA ListFrame ==
  ASSUME Typed, ListInv, sub' = sub, fresh' = fresh,
         \A x \in DOMAIN item : x \in DOMAIN item' /\ item'[x].planned = item[x].planned,
         \A d \in Call : IsReading(d)' =>
           /\ IsReading(d) /\ call'[d].snap = call[d].snap
           /\ call'[d].clean => call[d].clean
  PROVE  ListInv'
<1>1. \A s \in Sub : Wanted(s)' <=> Wanted(s)
  BY DEF Wanted
<1>2. \A s \in Sub : Served(s) => Served(s)'
  BY DEF Served
<1>3. \A d \in Call : IsReading(d)' /\ Current(d) => Current(d)'
  BY DEF Current
<1>4. ASSUME NEW d \in Call, IsReading(d)', call'[d].clean PROVE CleanOk(d)'
  <2>1. IsReading(d) /\ call[d].clean /\ CleanOk(d)
    BY <1>4 DEF ListInv
  <2>2. (\A e \in Call \ {d} : ~IsReading(e))' /\ Current(d)'
    BY <1>3, <1>4, <2>1 DEF CleanOk
  <2>3. (\A s \in Sub : Wanted(s) => s \in DOMAIN call[d].snap \/ Served(s))'
    BY <1>1, <1>2, <1>4, <2>1 DEF CleanOk
  <2> QED
    BY <2>2, <2>3 DEF CleanOk
<1>5. (fresh => \A s \in Sub : Wanted(s) => Served(s))'
  BY <1>1, <1>2 DEF ListInv
<1>6. (fresh => \A d \in Call : IsReading(d) => Current(d))'
  BY <1>3 DEF ListInv
<1> QED
  BY <1>4, <1>5, <1>6 DEF ListInv

\* A step of one handler that does not end up reading, or goes on as it was.
LEMMA ListMove ==
  ASSUME Typed, ListInv, NEW c \in Call, NEW k \in Local, Move(c, k),
         \/ k.pc \notin Reading
         \/ /\ call[c].pc \in Reading /\ k.snap = call[c].snap /\ k.clean = call[c].clean,
         sub' = sub, fresh' = fresh,
         \A x \in DOMAIN item : x \in DOMAIN item' /\ item'[x].planned = item[x].planned
  PROVE  ListInv'
<1>1. \A d \in Call : call'[d] = IF d = c THEN k ELSE call[d]
  BY DEF Move, Typed, CallsOk
<1>2. \A d \in Call : IsReading(d)' =>
        /\ IsReading(d) /\ call'[d].snap = call[d].snap
        /\ call'[d].clean => call[d].clean
  BY <1>1 DEF IsReading
<1> QED
  BY <1>2, ListFrame

LEMMA ListRead ==
  ASSUME Typed, ListInv, NEW c \in Call, GenerateRead(c)
  PROVE  ListInv'
<1>1. PICK k \in Local :
        /\ call[c].pc = "subs" /\ k.pc = "slots"
        /\ DOMAIN k.snap = Listed(call[c].slots)
        /\ \A s \in Listed(call[c].slots) : k.snap[s] = sub[s]
        /\ k.clean => call[c].slots = Slot /\ \A d \in Call \ {c} : ~Generating(d)
        /\ call' = [d \in Call |-> IF d = c THEN k ELSE [call[d] EXCEPT !.clean = FALSE]]
  BY GenerateReadIs
<1>2. UNCHANGED <<sub, item, fresh>>
  BY DEF GenerateRead
<1>3. /\ call'[c] = k
      /\ \A d \in Call : d # c => call'[d].pc = call[d].pc /\ call'[d].snap = call[d].snap
                                  /\ ~call'[d].clean
  BY <1>1, NotClean DEF Typed, CallsOk
<1>4. Current(c)'
  BY <1>1, <1>2, <1>3 DEF Current
<1>5. \A s \in Sub : (Wanted(s)' <=> Wanted(s)) /\ (Served(s)' <=> Served(s))
  BY <1>2 DEF Wanted, Served
<1>6. (fresh => \A s \in Sub : Wanted(s) => Served(s))'
  BY <1>2, <1>5 DEF ListInv
<1>7. (fresh => \A d \in Call : IsReading(d) => Current(d))'
  <2> SUFFICES ASSUME fresh, NEW d \in Call, IsReading(d)' PROVE Current(d)'
    BY <1>2
  <2>1. CASE d = c
    BY <1>4, <2>1
  <2>2. CASE d # c
    BY <1>2, <1>3, <2>2 DEF ListInv, IsReading, Current
  <2> QED
    BY <2>1, <2>2
<1>8. ASSUME NEW d \in Call, call'[d].clean PROVE CleanOk(d)'
  <2>1. d = c /\ k.clean
    BY <1>3, <1>8
  <2>2. (\A e \in Call \ {c} : ~IsReading(e))'
    BY <1>1, <1>3, <2>1 DEF Generating, IsReading, Reading
  <2>3. ASSUME NEW s \in Sub, Wanted(s) PROVE s \in DOMAIN k.snap
    <3>1. sub[s].slot \in Slot /\ sub[s].active
      BY <2>3, PlanFields DEF Typed, Wanted
    <3> QED
      BY <1>1, <2>1, <3>1 DEF Listed
  <2>4. (\A s \in Sub : Wanted(s) => s \in DOMAIN call[c].snap \/ Served(s))'
    BY <1>3, <1>5, <2>3
  <2> QED
    BY <1>4, <2>1, <2>2, <2>4 DEF CleanOk
<1> QED
  BY <1>6, <1>7, <1>8 DEF ListInv

LEMMA ListItem ==
  ASSUME Typed, ListInv, NEW c \in Call, NEW s \in Sub, s \in DOMAIN call[c].snap,
         GenerateItem(c, s)
  PROVE  ListInv'
<1>1. PICK k \in Local :
        /\ Move(c, k) /\ call[c].pc = "items" /\ k.pc = "items"
        /\ k.snap = Drop(call[c].snap, {s}) /\ k.clean = call[c].clean
  BY GenerateItemIs
<1>2. \A d \in Call : call'[d] = IF d = c THEN k ELSE call[d]
  BY <1>1 DEF Move, Typed, CallsOk
<1>3. UNCHANGED <<sub, fresh>>
  BY DEF GenerateItem
<1>4. /\ DOMAIN k.snap = DOMAIN call[c].snap \ {s}
      /\ \A r \in DOMAIN k.snap : k.snap[r] = call[c].snap[r]
  BY <1>1 DEF Drop
<1>5. PICK plan \in Plan :
        /\ plan = call[c].snap[s] /\ DOMAIN item \subseteq DOMAIN item'
        /\ \A x \in DOMAIN item : x # <<s, plan.product>> => item'[x] = item[x]
        /\ plan.want > 0 =>
             <<s, plan.product>> \in DOMAIN item' /\ item'[<<s, plan.product>>].planned = plan.want
  BY GenerateItemItems
<1>6. \A r \in Sub : Wanted(r)' <=> Wanted(r)
  BY <1>3 DEF Wanted
<1>7. ASSUME Current(c)
      PROVE  /\ Wanted(s) => Served(s)'
             /\ \A r \in Sub : Wanted(r) /\ Served(r) => Served(r)'
  <2>1. plan = sub[s]
    BY <1>5, <1>7 DEF Current
  <2>2. Wanted(s) => Served(s)'
    BY <1>3, <1>5, <2>1 DEF Wanted, Served
  <2>3. ASSUME NEW r \in Sub, r # s, Served(r) PROVE Served(r)'
    <3>1. <<r, sub[r].product>> # <<s, plan.product>>
      BY <2>3
    <3> QED
      BY <1>3, <1>5, <2>3, <3>1 DEF Served
  <2> QED
    BY <2>2, <2>3
<1>8. IsReading(c)
  BY <1>1 DEF IsReading, Reading
<1>9. Current(c) => Current(c)'
  BY <1>2, <1>3, <1>4 DEF Current
<1>10. (fresh => \A r \in Sub : Wanted(r) => Served(r))'
  BY <1>3, <1>6, <1>7, <1>8 DEF ListInv
<1>11. (fresh => \A d \in Call : IsReading(d) => Current(d))'
  <2> SUFFICES ASSUME fresh, NEW d \in Call, IsReading(d)' PROVE Current(d)'
    BY <1>3
  <2>1. CASE d = c
    BY <1>8, <1>9, <2>1 DEF ListInv
  <2>2. CASE d # c
    BY <1>2, <1>3, <2>2 DEF ListInv, IsReading, Current
  <2> QED
    BY <2>1, <2>2
<1>12. ASSUME NEW d \in Call, IsReading(d)', call'[d].clean PROVE CleanOk(d)'
  <2>1. CASE d # c
    <3>1. IsReading(d) /\ call[d].clean
      BY <1>2, <1>12, <2>1 DEF IsReading
    <3> QED
      BY <1>8, <2>1, <3>1 DEF ListInv, CleanOk
  <2>2. CASE d = c
    <3>1. CleanOk(c)
      BY <1>1, <1>2, <1>8, <1>12, <2>2 DEF ListInv
    <3>2. (\A e \in Call \ {c} : ~IsReading(e))' /\ Current(c)'
      BY <1>2, <1>9, <3>1 DEF CleanOk, IsReading
    <3>3. ASSUME NEW r \in Sub, Wanted(r) PROVE r \in DOMAIN k.snap \/ Served(r)'
      BY <1>4, <1>7, <3>1, <3>3 DEF CleanOk
    <3>4. (\A r \in Sub : Wanted(r) => r \in DOMAIN call[c].snap \/ Served(r))'
      BY <1>2, <1>6, <3>3
    <3> QED
      BY <2>2, <3>2, <3>4 DEF CleanOk
  <2> QED
    BY <2>1, <2>2
<1> QED
  BY <1>10, <1>11, <1>12 DEF ListInv

LEMMA ListEnd ==
  ASSUME Typed, ListInv, NEW c \in Call, GenerateEnd(c)
  PROVE  ListInv'
<1>1. PICK k \in Local : Move(c, k) /\ call[c].pc = "slots" /\ k.pc \in {"runs", "idle"}
  BY GenerateEndIs
<1>2. \A d \in Call : call'[d] = IF d = c THEN k ELSE call[d]
  BY <1>1 DEF Move, Typed, CallsOk
<1>3. UNCHANGED <<sub, item>> /\ fresh' = (fresh \/ call[c].clean) /\ DOMAIN call[c].snap = {}
  BY DEF GenerateEnd
<1>4. CASE fresh' = fresh
  BY <1>1, <1>3, <1>4, ListMove DEF Reading
<1>5. CASE call[c].clean
  <2>1. CleanOk(c)
    BY <1>1, <1>5 DEF ListInv, IsReading, Reading
  <2>2. \A d \in Call : ~IsReading(d)'
    BY <1>1, <1>2, <2>1 DEF CleanOk, IsReading, Reading
  <2>3. \A s \in Sub : Wanted(s) => Served(s)
    BY <1>3, <2>1 DEF CleanOk
  <2>4. (\A s \in Sub : Wanted(s) => Served(s))'
    BY <1>3, <2>3 DEF Wanted, Served
  <2> QED
    BY <2>2, <2>4 DEF ListInv
<1> QED
  BY <1>3, <1>4, <1>5 DEF Typed

LEMMA ListCall ==
  ASSUME Typed, ListInv, NEW c \in Call, CallStep(c)
  PROVE  ListInv'
<1>1. ASSUME NEW goal \in {"generate", "journey"}, NEW S \in SlotFilter, GenerateBegin(c, goal, S)
      PROVE  ListInv'
  BY <1>1, GenerateBeginIs, ListMove DEF GenerateBegin, Reading
<1>2. ASSUME NEW sl \in Slot, GenerateSlot(c, sl) PROVE ListInv'
  BY <1>2, GenerateSlotIs, ListMove DEF GenerateSlot, Reading
<1>3. ASSUME GenerateSlotEnd(c) PROVE ListInv'
  BY <1>3, GenerateSlotEndIs, ListMove DEF GenerateSlotEnd, Reading
<1>4. ASSUME JourneyRead(c) PROVE ListInv'
  BY <1>4, JourneyReadIs, ListMove DEF JourneyRead, Reading
<1>5. ASSUME NEW sl \in Slot, JourneyStart(c, sl) PROVE ListInv'
  BY <1>5, JourneyStartIs, ListMove DEF JourneyStart, Reading
<1>6. ASSUME NEW x \in DOMAIN item, NEW st \in Status \cup {"same"}, NEW q \in Qty \cup {Unset},
             NEW admin \in BOOLEAN, UpdateRead(c, x, st, q, admin)
      PROVE  ListInv'
  BY <1>6, UpdateReadIs, ListMove DEF UpdateRead, WritesTo, Reading
<1>7. ASSUME UpdateWrite(c) PROVE ListInv'
  <2>1. UNCHANGED <<sub, fresh>>
    BY <1>7 DEF UpdateWrite
  <2> QED
    BY <1>7, <2>1, UpdateWriteIs, UpdateWriteItems, ListMove DEF Reading
<1>8. ASSUME NEW S \in SlotFilter, NEW st \in Status, BulkRead(c, S, st) PROVE ListInv'
  BY <1>8, BulkReadIs, ListMove DEF BulkRead, Reading
<1>9. ASSUME NEW x \in DOMAIN item, BulkNext(c, x) PROVE ListInv'
  BY <1>9, BulkNextIs, IdleOk, ListMove DEF BulkNext, WritesTo, Reading
<1>10. ASSUME AwayCreate(c) PROVE ListInv'
  BY <1>10, AwayCreateIs, ListMove DEF AwayCreate, Reading
<1>11. ASSUME AwayRead(c) PROVE ListInv'
  BY <1>11, AwayReadIs, IdleOk, ListMove DEF AwayRead, Reading
<1>12. ASSUME NEW x \in DOMAIN item, AwaySkip(c, x) PROVE ListInv'
  <2>1. UNCHANGED <<sub, fresh>>
    BY <1>12 DEF AwaySkip
  <2>2. \A j \in DOMAIN item : j \in DOMAIN item' /\ item'[j].planned = item[j].planned
    BY <1>12, AwaySkipItems
  <2>3. PICK k \in Local : Move(c, k) /\ k.pc \in {"idle", "skip"}
    BY <1>12, AwaySkipIs, IdleOk
  <2> QED
    BY <2>1, <2>2, <2>3, ListMove DEF Reading
<1>13. ASSUME CallFails(c) PROVE ListInv'
  <2>1. Move(c, IdleCall) /\ UNCHANGED <<sub, item, fresh>>
    BY <1>13, FinishIs DEF CallFails
  <2> QED
    BY <2>1, IdleOk, ListMove DEF Reading
<1> QED
  BY <1>1, <1>2, <1>3, <1>4, <1>5, <1>6, <1>7, <1>8, <1>9, <1>10, <1>11, <1>12, <1>13,
     ListRead, ListItem, ListEnd DEF CallStep

LEMMA ListNext == Typed /\ ListInv /\ [Next]_vars => ListInv'
<1> SUFFICES ASSUME Typed, ListInv, [Next]_vars PROVE ListInv'
  OBVIOUS
<1>1. ASSUME NEW s \in Sub, NEW row \in Plan, Change(s, row) PROVE ListInv'
  <2>1. fresh' = FALSE /\ call' = [c \in Call |-> [call[c] EXCEPT !.clean = FALSE]]
    BY <1>1 DEF Change
  <2>2. \A d \in Call : ~call'[d].clean
    BY <2>1, NotClean DEF Typed, CallsOk
  <2> QED
    BY <2>1, <2>2 DEF ListInv
<1>2. ASSUME NEW c \in Call, CallStep(c) PROVE ListInv'
  BY <1>2, ListCall
<1>3. CASE \/ \E S \in SlotFilter : JourneyComplete(S)
           \/ AwayDelete
           \/ UNCHANGED vars
  <2>1. UNCHANGED <<sub, item, call, fresh>>
    BY <1>3 DEF JourneyComplete, AwayDelete, vars
  <2> QED
    BY <2>1, ListFrame DEF IsReading
<1> QED
  BY <1>1, <1>2, <1>3 DEF Next

\* Once a generation of the whole date ends undisturbed, every active
\* subscription with something to deliver has its item with the planned quantity.
THEOREM ListCompletes == Spec => []ListIsComplete
<1>1. Init => ListInv
  BY IdleOk DEF Init, ListInv, IsReading, Reading
<1>2. ListInv => ListIsComplete
  BY DEF ListInv, ListIsComplete, Wanted, Served
<1> QED
  BY <1>1, <1>2, ListNext, Typing, PTL DEF Spec

----------------------------------------------------------------------------
(* What a step may never do.                                               *)

RevertExplained(x) ==
  item[x].status = "DELIVERED" /\ item'[x].status # "DELIVERED" =>
    \E c \in Call : call'[c] # call[c] /\
      \/ call[c].pc = "write" /\ (call[c].admin \/ call[c].saw # "DELIVERED")
      \/ call[c].pc = "skip"

LEMMA RevertStep ==
  ASSUME Typed, [Next]_vars, NEW x \in DOMAIN item
  PROVE  RevertExplained(x)
<1>1. ASSUME item'[x].status = item[x].status PROVE RevertExplained(x)
  BY <1>1 DEF RevertExplained
<1>2. ASSUME NEW c \in Call, UpdateWrite(c) PROVE RevertExplained(x)
  <2>1. PICK k \in Local : Move(c, k) /\ call[c].pc = "write" /\ k.pc \in {"bulk", "idle"}
    BY <1>2, UpdateWriteIs
  <2>2. call'[c] = k
    BY <2>1 DEF Move, Typed, CallsOk
  <2>3. MaySet(call[c].admin, call[c].saw, call[c].st)
    BY <2>1 DEF Typed, CallsOk, CallOk
  <2>4. /\ x \notin call[c].key => item'[x].status = item[x].status
        /\ x \in call[c].key =>
             item'[x].status = IF call[c].st = "same" THEN item[x].status ELSE call[c].st
    BY <1>2, UpdateWriteItems
  <2> QED
    BY <2>1, <2>2, <2>3, <2>4 DEF RevertExplained, MaySet
<1>3. ASSUME NEW c \in Call, NEW y \in DOMAIN item, AwaySkip(c, y) PROVE RevertExplained(x)
  <2>1. PICK k \in Local :
          /\ Move(c, k) /\ call[c].pc = "skip" /\ y \in DOMAIN call[c].snap
          /\ k = IdleCall \/ (k.pc = "skip" /\ DOMAIN k.snap = DOMAIN call[c].snap \ {y})
    BY <1>3, AwaySkipIs
  <2>2. k # call[c]
    BY <2>1, IdleOk
  <2>3. call'[c] = k
    BY <2>1 DEF Move, Typed, CallsOk
  <2> QED
    BY <2>1, <2>2, <2>3 DEF RevertExplained
<1>4. ASSUME NEW c \in Call, NEW s \in Sub, s \in DOMAIN call[c].snap, GenerateItem(c, s)
      PROVE  RevertExplained(x)
  <2>1. item'[x].status = item[x].status
    BY <1>4, GenerateItemItems
  <2> QED
    BY <1>1, <2>1
<1>5. ASSUME NEW c \in Call, CallStep(c) PROVE RevertExplained(x)
  <2>1. \/ item' = item
        \/ UpdateWrite(c)
        \/ \E y \in DOMAIN item : AwaySkip(c, y)
        \/ \E s \in Sub : s \in DOMAIN call[c].snap /\ GenerateItem(c, s)
    BY <1>5 DEF CallStep, GenerateBegin, GenerateRead, GenerateSlot, GenerateSlotEnd, GenerateEnd,
         JourneyRead, JourneyStart, UpdateRead, BulkRead, BulkNext, AwayCreate, AwayRead, CallFails
  <2> QED
    BY <1>1, <1>2, <1>3, <1>4, <2>1
<1>6. CASE \/ \E s \in Sub, row \in Plan : Change(s, row)
           \/ \E S \in SlotFilter : JourneyComplete(S)
           \/ AwayDelete
           \/ UNCHANGED vars
  BY <1>1, <1>6 DEF Change, JourneyComplete, AwayDelete, vars
<1> QED
  BY <1>5, <1>6 DEF Next

\* A delivered item is taken back only by an administrator or by a handler that
\* read it before it was delivered.
THEOREM RevertsNeedStaleOrAdmin == Spec => RevertsAreStaleOrAdmin
<1>1. Typed /\ [Next]_vars =>
        [\A k \in DOMAIN item :
           item[k].status = "DELIVERED" /\ item'[k].status # "DELIVERED" =>
             \E c \in Call : call'[c] # call[c] /\
               \/ call[c].pc = "write" /\ (call[c].admin \/ call[c].saw # "DELIVERED")
               \/ call[c].pc = "skip"]_vars
  BY RevertStep DEF RevertExplained
<1> QED
  BY <1>1, Typing, PTL DEF Spec, RevertsAreStaleOrAdmin

ReopenExplained(sl) ==
  run[sl] = "COMPLETED" /\ run'[sl] # "COMPLETED" =>
    \E c \in Call : call'[c] # call[c] /\
      \/ call[c].pc = "items" /\ sl \in call[c].cur
      \/ /\ call[c].pc = "start" /\ sl \in call[c].slots
         /\ call[c].snap[sl] # "COMPLETED"

LEMMA ReopenStep ==
  ASSUME Typed, [Next]_vars, NEW sl \in Slot
  PROVE  ReopenExplained(sl)
<1>1. ASSUME run'[sl] = run[sl] PROVE ReopenExplained(sl)
  BY <1>1 DEF ReopenExplained
<1>2. ASSUME NEW c \in Call, GenerateSlotEnd(c) PROVE ReopenExplained(sl)
  <2>1. PICK k \in Local : Move(c, k) /\ call[c].pc = "items" /\ k.pc = "slots"
    BY <1>2, GenerateSlotEndIs
  <2>2. call'[c] = k
    BY <2>1 DEF Move, Typed, CallsOk
  <2>3. sl \notin call[c].cur => run'[sl] = run[sl]
    BY <1>2 DEF GenerateSlotEnd
  <2> QED
    BY <2>1, <2>2, <2>3 DEF ReopenExplained
<1>3. ASSUME NEW c \in Call, NEW m \in Slot, JourneyStart(c, m) PROVE ReopenExplained(sl)
  <2>1. PICK k \in Local :
          /\ Move(c, k) /\ call[c].pc = "start" /\ k.pc \in {"start", "idle"}
          /\ k.pc = "start" => m \notin k.slots
    BY <1>3, JourneyStartIs
  <2>2. m \in call[c].slots /\ call'[c] = k
    BY <1>3, <2>1 DEF JourneyStart, Move, Typed, CallsOk
  <2>3. k # call[c]
    BY <2>1, <2>2
  <2>4. run'[sl] # run[sl] => sl = m /\ call[c].snap[m] = "GENERATED"
    BY <1>3 DEF JourneyStart, Startable, Typed
  <2> QED
    BY <2>1, <2>2, <2>3, <2>4 DEF ReopenExplained
<1>4. ASSUME NEW c \in Call, NEW m \in Slot, GenerateSlot(c, m) PROVE ReopenExplained(sl)
  BY <1>4 DEF GenerateSlot, ReopenExplained, Typed
<1>5. ASSUME NEW S \in SlotFilter, JourneyComplete(S) PROVE ReopenExplained(sl)
  BY <1>5 DEF JourneyComplete, ReopenExplained
<1>6. ASSUME NEW c \in Call, CallStep(c) PROVE ReopenExplained(sl)
  <2>1. \/ run' = run
        \/ GenerateSlotEnd(c)
        \/ \E m \in Slot : JourneyStart(c, m) \/ GenerateSlot(c, m)
    BY <1>6 DEF CallStep, GenerateBegin, GenerateRead, GenerateItem, GenerateEnd, JourneyRead,
         UpdateRead, UpdateWrite, BulkRead, BulkNext, AwayCreate, AwayRead, AwaySkip, CallFails
  <2> QED
    BY <1>1, <1>2, <1>3, <1>4, <2>1
<1>7. CASE \/ \E s \in Sub, row \in Plan : Change(s, row)
           \/ AwayDelete
           \/ UNCHANGED vars
  BY <1>1, <1>7 DEF Change, AwayDelete, vars
<1> QED
  BY <1>5, <1>6, <1>7 DEF Next

\* A completed run is reopened only by a generation that lists its slot again or
\* by a startJourney that read it before it was completed.
THEOREM ReopeningNeedsRelistingOrStaleStart == Spec => ReopenedByRelistingOrStaleStart
<1>1. Typed /\ [Next]_vars =>
        [\A sl \in Slot :
           run[sl] = "COMPLETED" /\ run'[sl] # "COMPLETED" =>
             \E c \in Call : call'[c] # call[c] /\
               \/ call[c].pc = "items" /\ sl \in call[c].cur
               \/ /\ call[c].pc = "start" /\ sl \in call[c].slots
                  /\ call[c].snap[sl] # "COMPLETED"]_vars
  BY ReopenStep DEF ReopenExplained
<1> QED
  BY <1>1, Typing, PTL DEF Spec, ReopenedByRelistingOrStaleStart
=============================================================================
