------------------------------ MODULE Delivery -----------------------------
(***************************************************************************)
(* One distributor's deliveries on one date: delivery-generation.service,  *)
(* delivery.service and the unavailable days of distributor.service.  A    *)
(* Call is one handler in flight (the 00:30 cron runs Generate too); each  *)
(* awaited query whose effect or result matters is a step, and a handler   *)
(* may die between any two.  What the schedule, the pauses and the extras  *)
(* make of a subscription on the date is the quantity "want".  Route       *)
(* order, arrival times, audit rows and notifications are left out.        *)
(***************************************************************************)
EXTENDS Naturals, FiniteSets

CONSTANTS
  Sub,      \* subscriptions of the distributor
  Slot,     \* its delivery slots
  Product,
  Qty,      \* quantities a plan or a request may carry
  Plan,     \* bound: the rows a subscription may show for the date
  Call,     \* handlers that may be in flight together
  Handler   \* bound: the kinds of handler that may start

ASSUME DeliveryConstants ==
  /\ Qty \subseteq Nat \ {0}
  /\ Plan \subseteq [active : BOOLEAN, slot : Slot, product : Product, want : Qty \cup {0}]
  /\ Handler \subseteq {"generate", "journey", "update", "bulk", "away"}

VARIABLES
  sub,    \* what generation reads of each subscription
  item,   \* deliveryItem rows by their unique key <<subscription, product>>
  run,    \* status of the delivery header of each slot
  away,   \* the date is one of the distributor's unavailable days
  call,   \* local state of the handlers
  fresh,  \* history: a whole generation ended that nothing changed during or since
  raced,  \* history: items two updates worked on at once
  muddled \* history: an unavailable day overlapped, failed, or was worked around

vars == <<sub, item, run, away, call, fresh, raced, muddled>>

Status  == {"PENDING", "DELIVERED", "SKIPPED", "FAILED"}
Unset   == 0  \* a null deliveredQty; no quantity is 0
Key     == Sub \X Product
NoItem  == [s \in {} |-> 0]

\* slot is that of the header the item was created under.
Item == [status : Status, planned : Qty, delivered : Qty \cup {Unset}, slot : Slot]

(***************************************************************************)
(* goal is the handler, slots the slots it has to go through, snap the     *)
(* rows it read of the subscriptions or items still to do, cur the slot it *)
(* is at, key the item it updates, saw the status it read there, st and    *)
(* qty what it will write, admin its role, clean whether anything changed  *)
(* or overlapped since a generation read its list.                         *)
(***************************************************************************)
IdleCall == [pc |-> "idle", goal |-> "none", slots |-> {}, snap |-> NoItem, cur |-> {},
             key |-> {}, saw |-> "PENDING", st |-> "same", qty |-> Unset,
             admin |-> FALSE, clean |-> FALSE]

Steps == {"idle", "subs", "slots", "items", "runs", "start", "write", "bulk", "pending", "skip"}

TypeOK ==
  /\ sub \in [Sub -> Plan]
  /\ DOMAIN item \subseteq Key /\ \A k \in DOMAIN item : item[k] \in Item
  /\ run \in [Slot -> {"none", "GENERATED", "IN_PROGRESS", "COMPLETED"}]
  /\ away \in BOOLEAN /\ fresh \in BOOLEAN /\ muddled \in BOOLEAN
  /\ raced \subseteq DOMAIN item
  /\ \A c \in Call : call[c].pc \in Steps /\ call[c].key \subseteq DOMAIN item

Init ==
  /\ sub \in [Sub -> Plan]
  /\ item = NoItem
  /\ run = [sl \in Slot |-> "none"]
  /\ away = FALSE /\ fresh = FALSE /\ muddled = FALSE
  /\ raced = {}
  /\ call = [c \in Call |-> IdleCall]

Begin(c, goal, state) ==
  /\ goal \in Handler
  /\ call[c].pc = "idle"
  /\ call' = [call EXCEPT ![c] = state]

To(c, pc) == call' = [call EXCEPT ![c].pc = pc]

Finish(c) == call' = [call EXCEPT ![c] = IdleCall]

\* The slots a slotId parameter selects; without one, all.
SlotFilter == {Slot} \cup {{sl} : sl \in Slot}

Pending(S) == {k \in DOMAIN item : item[k].status = "PENDING" /\ item[k].slot \in S}

Set(k, row) == [j \in DOMAIN item \cup {k} |-> IF j = k THEN row ELSE item[j]]

Generating(c) == call[c].pc \in {"subs", "slots", "items"}

----------------------------------------------------------------------------
(* Subscriptions, pauses and extras change under the list's feet.          *)

Change(s, row) ==
  /\ row \in Plan \ {sub[s]}
  /\ sub' = [sub EXCEPT ![s] = row]
  /\ fresh' = FALSE
  /\ call' = [c \in Call |-> [call[c] EXCEPT !.clean = FALSE]]
  /\ UNCHANGED <<item, run, away, raced, muddled>>

----------------------------------------------------------------------------
(* generateForDistributor, on its own or as the first part of startJourney. *)

\* Slip: unavailable days are not looked up.
AlwaysDelivers == TRUE

Delivers == ~away

\* An unavailable day generates nothing; a journey goes on from there.
GenerateBegin(c, goal, S) ==
  /\ goal \in {"generate", "journey"}
  /\ Begin(c, goal, [IdleCall EXCEPT !.goal = goal, !.slots = S,
       !.pc = IF Delivers THEN "subs" ELSE IF goal = "journey" THEN "runs" ELSE "idle"])
  /\ UNCHANGED <<sub, item, run, away, fresh, raced, muddled>>

Listed(S) == {s \in Sub : sub[s].active /\ sub[s].slot \in S}

\* findMany of the active subscriptions, with their pauses and extras.
GenerateRead(c) ==
  LET S == call[c].slots
      alone == \A d \in Call \ {c} : ~Generating(d)
  IN
  /\ call[c].pc = "subs"
  /\ call' = [d \in Call |->
       IF d = c
       THEN [call[c] EXCEPT !.pc = "slots", !.snap = [s \in Listed(S) |-> sub[s]],
                            !.clean = alone /\ S = Slot]
       ELSE [call[d] EXCEPT !.clean = FALSE]]
  /\ UNCHANGED <<sub, item, run, away, fresh, raced, muddled>>

Todo(c, sl) == {s \in DOMAIN call[c].snap : call[c].snap[s].slot = sl}

GeneratedRun == "GENERATED"

\* ensureDeliveryHeader: create it, or leave it as it is.
GenerateSlot(c, sl) ==
  /\ call[c].pc = "slots" /\ Todo(c, sl) # {}
  /\ run' = [run EXCEPT ![sl] = IF @ = "none" THEN GeneratedRun ELSE @]
  /\ call' = [call EXCEPT ![c].pc = "items", ![c].cur = {sl}]
  /\ UNCHANGED <<sub, item, away, fresh, raced, muddled>>

Drop(f, S) == [x \in DOMAIN f \ S |-> f[x]]

\* Slip: an item that exists is left alone.
UpsertedOnce(k, plan) ==
  IF k \in DOMAIN item THEN item[k]
  ELSE [status |-> "PENDING", planned |-> plan.want, delivered |-> Unset, slot |-> plan.slot]

\* The upsert: a new item is PENDING, an old one keeps all but its quantity.
Upserted(k, plan) ==
  IF k \in DOMAIN item THEN [item[k] EXCEPT !.planned = plan.want]
  ELSE [status |-> "PENDING", planned |-> plan.want, delivered |-> Unset, slot |-> plan.slot]

\* plannedQty <= 0 skips the subscription; an item it has already stays.
GenerateItem(c, s) ==
  LET plan == call[c].snap[s]
      k == <<s, plan.product>>
  IN
  /\ call[c].pc = "items" /\ \E sl \in call[c].cur : s \in Todo(c, sl)
  /\ item' = IF plan.want = 0 THEN item ELSE Set(k, Upserted(k, plan))
  /\ call' = [call EXCEPT ![c].snap = Drop(@, {s})]
  /\ UNCHANGED <<sub, run, away, fresh, raced, muddled>>

\* The header is GENERATED again, whatever became of it meanwhile.
GenerateSlotEnd(c) ==
  /\ call[c].pc = "items" /\ \A sl \in call[c].cur : Todo(c, sl) = {}
  /\ run' = [sl \in Slot |-> IF sl \in call[c].cur THEN GeneratedRun ELSE run[sl]]
  /\ call' = [call EXCEPT ![c].pc = "slots", ![c].cur = {}]
  /\ UNCHANGED <<sub, item, away, fresh, raced, muddled>>

GenerateEnd(c) ==
  /\ call[c].pc = "slots" /\ DOMAIN call[c].snap = {}
  /\ fresh' = (fresh \/ call[c].clean)
  /\ IF call[c].goal = "journey" THEN To(c, "runs") ELSE Finish(c)
  /\ UNCHANGED <<sub, item, run, away, raced, muddled>>

----------------------------------------------------------------------------
(* startJourney after its generation, and completeJourney.                 *)

\* No header at all is an error; the statuses read here decide the loop.
JourneyRead(c) ==
  LET S == {sl \in call[c].slots : run[sl] # "none"} IN
  /\ call[c].pc = "runs"
  /\ IF S = {} THEN Finish(c)
     ELSE call' = [call EXCEPT ![c].pc = "start", ![c].slots = S, ![c].snap = [sl \in S |-> run[sl]]]
  /\ UNCHANGED <<sub, item, run, away, fresh, raced, muddled>>

\* Slip: a completed run is not told apart.
StartableUnlessUnderWay(st) == st # "IN_PROGRESS"

Startable(st) == st = "GENERATED"

\* A run read as IN_PROGRESS is passed over, one read as COMPLETED ends the
\* handler with an error, any other is set IN_PROGRESS.
JourneyStart(c, sl) ==
  LET st == call[c].snap[sl] IN
  /\ call[c].pc = "start" /\ sl \in call[c].slots
  /\ run' = IF Startable(st) THEN [run EXCEPT ![sl] = "IN_PROGRESS"] ELSE run
  /\ IF st = "COMPLETED" \/ call[c].slots = {sl} THEN Finish(c)
     ELSE call' = [call EXCEPT ![c].slots = @ \ {sl}]
  /\ UNCHANGED <<sub, item, away, fresh, raced, muddled>>

\* One updateMany.
JourneyComplete(S) ==
  /\ "journey" \in Handler
  /\ run' = [sl \in Slot |-> IF sl \in S /\ run[sl] = "IN_PROGRESS" THEN "COMPLETED" ELSE run[sl]]
  /\ UNCHANGED <<sub, item, away, call, fresh, raced, muddled>>

----------------------------------------------------------------------------
(* updateItem and bulkStatus.                                              *)

\* Slip: nobody is asked who takes a delivered item back.
AnyoneMaySet(admin, now, st) == TRUE

\* A delivered item changes status only for an administrator.
MaySet(admin, now, st) == now = "DELIVERED" => st \in {"same", "DELIVERED"} \/ admin

\* Slip: no quantity in the request clears the one there was.
QtyOfRequest(old, st, q) == q

\* deliveredQty: the request's, else the planned one on delivery, else the old.
QtyToWrite(old, st, q) ==
  IF q # Unset THEN q ELSE IF st = "DELIVERED" THEN old.planned ELSE old.delivered

Update(state, k, st, q, admin) ==
  [state EXCEPT !.pc = "write", !.key = {k}, !.saw = item[k].status, !.st = st,
                !.qty = QtyToWrite(item[k], st, q), !.admin = admin]

\* History: another update of item k is in flight.
Race(c, k) ==
  raced' = IF \E d \in Call \ {c} : k \in call[d].key THEN raced \cup {k} ELSE raced

\* st is "same" where the request names no status, q Unset without a quantity.
UpdateRead(c, k, st, q, admin) ==
  /\ MaySet(admin, item[k].status, st)
  /\ Begin(c, "update", Update([IdleCall EXCEPT !.goal = "update"], k, st, q, admin))
  /\ Race(c, k)
  /\ UNCHANGED <<sub, item, run, away, fresh, muddled>>

Written(row, st, q) == [row EXCEPT !.status = IF st = "same" THEN @ ELSE st, !.delivered = q]

\* The write goes by id, whatever the item has become.
UpdateWrite(c) ==
  LET r == call[c] IN
  /\ r.pc = "write"
  /\ item' = [k \in DOMAIN item |->
       IF k \in r.key THEN Written(item[k], r.st, r.qty) ELSE item[k]]
  /\ muddled' = (muddled \/ (away /\ r.st = "PENDING"))
  /\ IF DOMAIN r.snap = {} THEN Finish(c)
     ELSE call' = [call EXCEPT ![c].pc = "bulk", ![c].key = {}]
  /\ UNCHANGED <<sub, run, away, fresh, raced>>

\* bulkStatus lists the pending items with their planned quantities.
BulkRead(c, S, st) ==
  /\ Pending(S) # {}
  /\ Begin(c, "bulk", [IdleCall EXCEPT !.pc = "bulk", !.goal = "bulk", !.st = st,
                         !.snap = [k \in Pending(S) |-> item[k].planned]])
  /\ UNCHANGED <<sub, item, run, away, fresh, raced, muddled>>

\* Then it calls updateItem for each, which reads the item again; the first
\* one refused ends the handler.
BulkNext(c, k) ==
  LET r == call[c]
      u == Update([r EXCEPT !.snap = Drop(@, {k})], k, r.st, r.snap[k], FALSE)
  IN
  /\ r.pc = "bulk" /\ k \in DOMAIN r.snap
  /\ IF MaySet(FALSE, item[k].status, r.st)
     THEN call' = [call EXCEPT ![c] = u] /\ Race(c, k)
     ELSE Finish(c) /\ UNCHANGED raced
  /\ UNCHANGED <<sub, item, run, away, fresh, muddled>>

----------------------------------------------------------------------------
(* createUnavailableDay and deleteUnavailableDay.                          *)

\* The row is unique: a second creation fails or returns the row there is.
AwayCreate(c) ==
  /\ ~away
  /\ Begin(c, "away", [IdleCall EXCEPT !.pc = "pending", !.goal = "away"])
  /\ away' = TRUE
  /\ muddled' = (muddled \/ \E d \in Call : Generating(d) \/ call[d].st = "PENDING")
  /\ UNCHANGED <<sub, item, run, fresh, raced>>

\* After the notifications: the items still pending.
AwayRead(c) ==
  /\ call[c].pc = "pending"
  /\ IF Pending(Slot) = {} THEN Finish(c)
     ELSE call' = [call EXCEPT ![c].pc = "skip",
                     ![c].snap = [k \in Pending(Slot) |-> item[k].planned]]
  /\ UNCHANGED <<sub, item, run, away, fresh, raced, muddled>>

AwaySkip(c, k) ==
  /\ call[c].pc = "skip" /\ k \in DOMAIN call[c].snap
  /\ item' = [item EXCEPT ![k].status = "SKIPPED"]
  /\ IF DOMAIN call[c].snap = {k} THEN Finish(c)
     ELSE call' = [call EXCEPT ![c].snap = Drop(@, {k})]
  /\ UNCHANGED <<sub, run, away, fresh, raced, muddled>>

\* The items skipped stay skipped.
AwayDelete ==
  /\ away
  /\ away' = FALSE
  /\ UNCHANGED <<sub, item, run, call, fresh, raced, muddled>>

----------------------------------------------------------------------------
\* A handler dies between two of its awaits.
CallFails(c) ==
  /\ call[c].pc # "idle"
  /\ muddled' = (muddled \/ call[c].goal = "away")
  /\ Finish(c)
  /\ UNCHANGED <<sub, item, run, away, fresh, raced>>

CallStep(c) ==
  \/ \E goal \in {"generate", "journey"}, S \in SlotFilter : GenerateBegin(c, goal, S)
  \/ GenerateRead(c)
  \/ \E sl \in Slot : GenerateSlot(c, sl)
  \/ \E s \in Sub : s \in DOMAIN call[c].snap /\ GenerateItem(c, s)
  \/ GenerateSlotEnd(c)
  \/ GenerateEnd(c)
  \/ JourneyRead(c)
  \/ \E sl \in Slot : JourneyStart(c, sl)
  \/ \E k \in DOMAIN item, st \in Status \cup {"same"}, q \in Qty \cup {Unset}, admin \in BOOLEAN :
       UpdateRead(c, k, st, q, admin)
  \/ UpdateWrite(c)
  \/ \E S \in SlotFilter, st \in Status : BulkRead(c, S, st)
  \/ \E k \in DOMAIN item : BulkNext(c, k)
  \/ AwayCreate(c)
  \/ AwayRead(c)
  \/ \E k \in DOMAIN item : AwaySkip(c, k)
  \/ CallFails(c)

Next ==
  \/ \E s \in Sub, row \in Plan : Change(s, row)
  \/ \E c \in Call : CallStep(c)
  \/ \E S \in SlotFilter : JourneyComplete(S)
  \/ AwayDelete

Spec == Init /\ [][Next]_vars

----------------------------------------------------------------------------
(* Properties.                                                             *)

\* Once a generation of the whole date ends that nothing changed or overlapped,
\* each active subscription with something to deliver has its item with the
\* planned quantity, until the subscription changes again: no later generation,
\* update or restarted journey takes it away or rewinds it.
ListIsComplete ==
  fresh => \A s \in Sub :
    sub[s].active /\ sub[s].want > 0 =>
      LET k == <<s, sub[s].product>> IN k \in DOMAIN item /\ item[k].planned = sub[s].want

\* A completed run is reopened only by a generation that lists its slot again or
\* by a startJourney that read it before it was completed.
ReopenedByRelistingOrStaleStart ==
  [][\A sl \in Slot :
       run[sl] = "COMPLETED" /\ run'[sl] # "COMPLETED" =>
         \E c \in Call : call'[c] # call[c] /\
           \/ call[c].pc = "items" /\ sl \in call[c].cur
           \/ /\ call[c].pc = "start" /\ sl \in call[c].slots
              /\ call[c].snap[sl] # "COMPLETED"]_vars

\* A delivered item is taken back only by an administrator or by a handler that
\* read it before it was delivered.
RevertsAreStaleOrAdmin ==
  [][\A k \in DOMAIN item :
       item[k].status = "DELIVERED" /\ item'[k].status # "DELIVERED" =>
         \E c \in Call : call'[c] # call[c] /\
           \/ call[c].pc = "write" /\ (call[c].admin \/ call[c].saw # "DELIVERED")
           \/ call[c].pc = "skip"]_vars

\* A delivered item lacks its quantity, which the bill's lines are made of, only
\* where two updates of it overlapped.
QtyLostOnlyByOverlap ==
  \A k \in DOMAIN item :
    item[k].status = "DELIVERED" /\ item[k].delivered = Unset => k \in raced

\* No item is left pending on an unavailable day, unless a generation was under
\* way when the day was declared, the declaration died halfway, or somebody put
\* an item back to pending.
AwayDayIsClear ==
  away /\ ~muddled /\ (\A c \in Call : call[c].goal # "away") => Pending(Slot) = {}

----------------------------------------------------------------------------
(* What the documents say and the code does not keep.                      *)

\* "Matches subscriptions +- pauses + extras" (US-7), "Delivery qty zero; not
\* billed" (US-9): a freshly generated list has no pending item its
\* subscription does not ask for.
ListMatches ==
  fresh => \A k \in Pending(Slot) :
    sub[k[1]].active /\ sub[k[1]].product = k[2] /\ sub[k[1]].want = item[k].planned
============================================================================
