------------------------------ MODULE Catalog -------------------------------
(***************************************************************************)
(* The product catalog: global products of the administrator, custom ones  *)
(* of a distributor that may be promoted to global ones (catalog.service), *)
(* the products a distributor enables and prices (distributor.service),    *)
(* and the subscriptions that are made for them by either party, or moved  *)
(* from one product to another by the customer.                            *)
(*                                                                         *)
(* A Call is one handler in flight, a step what lies between two of its    *)
(* queries; what a handler reads of a row that can never change back is    *)
(* read with the step that follows.  A subscription is ACTIVE or not: how  *)
(* it becomes so is the subject of SubscriptionEnd.  SKUs, names, fat      *)
(* contents, slots and the checks of Onboarding are left out.              *)
(***************************************************************************)
EXTENDS Naturals, Sequences, FiniteSets

CONSTANTS
  Product,     \* products, before and after they are created
  Distributor,
  Call,        \* handlers that may be in flight together
  MaxPrices,   \* bound: pricing rows, with those being created
  MaxSubs      \* bound: subscriptions, with those being created

ASSUME CatalogConstants ==
  /\ MaxPrices \in Nat /\ MaxSubs \in Nat
  /\ "none" \notin Distributor \cup Product

VARIABLES
  product,  \* product rows
  enabled,  \* distributorProduct rows that are enabled, as pairs
  price,    \* pricing rows in creation order
  sub,      \* subscription rows in creation order
  call,     \* local state of the handlers
  crossed,  \* history: products promoted while their owner was switching them off
  forced,   \* history: products last switched off through updateGlobalProduct
  late,     \* history: subscriptions begun when their product was going or gone
  restored, \* history: prices updatePricing has switched on again
  dropped   \* history: products their maker has disabled, or died before enabling

vars == <<product, enabled, price, sub, call, crossed, forced, late, restored, dropped>>
history == <<crossed, forced, late, restored, dropped>>

\* maker is history: the distributor that created the product.
Row == [scope : {"none", "GLOBAL", "DISTRIBUTOR"}, owner : Distributor \cup {"none"},
        active : BOOLEAN, maker : Distributor \cup {"none"},
        promo : {"NONE", "PRIVATE", "PENDING_REVIEW", "REJECTED", "PROMOTED"}]

NoRow == [scope |-> "none", owner |-> "none", active |-> FALSE, maker |-> "none",
          promo |-> "NONE"]

\* seen is history: the prices there were when the creation checked.
Price == [d : Distributor, p : Product, active : BOOLEAN, seen : Nat]

\* by is history: the party whose handler wrote its product.
Sub == [d : Distributor, p : Product, active : BOOLEAN, by : {"customer", "distributor"}]

CallState ==
  [pc : {"idle", "enable", "firstPrice", "enabled", "duplicate", "newPrice", "priced",
         "newSub", "switchPrice", "switchUse", "switch", "count", "off", "review", "promote"},
   goal : {"none", "create", "price", "customer", "distributor", "switch", "off", "review",
           "promote"},
   d : Distributor \cup {"none"}, p : Product \cup {"none"}, s : Nat, seen : Nat,
   promo : {"NONE", "PRIVATE", "PENDING_REVIEW", "REJECTED"}]

Idle == [pc |-> "idle", goal |-> "none", d |-> "none", p |-> "none", s |-> 0, seen |-> 0,
         promo |-> "NONE"]

TypeOK ==
  /\ product \in [Product -> Row]
  /\ enabled \subseteq Distributor \X Product
  /\ price \in Seq(Price) /\ sub \in Seq(Sub)
  /\ call \in [Call -> CallState]
  /\ crossed \subseteq Product /\ forced \subseteq Product
  /\ late \subseteq 1 .. Len(sub) /\ restored \subseteq 1 .. Len(price)
  /\ dropped \subseteq Product

Init ==
  /\ product = [p \in Product |-> NoRow]
  /\ enabled = {} /\ price = <<>> /\ sub = <<>>
  /\ call = [c \in Call |-> Idle]
  /\ crossed = {} /\ forced = {} /\ late = {} /\ restored = {} /\ dropped = {}

----------------------------------------------------------------------------
(* A handler's own state.                                                  *)

At(c, pc) == call[c].pc = pc

Start(c, pc, goal, d, p) ==
  /\ At(c, "idle")
  /\ call' = [call EXCEPT ![c] = [Idle EXCEPT !.pc = pc, !.goal = goal, !.d = d, !.p = p]]

Goto(c, pc) == call' = [call EXCEPT ![c].pc = pc]

End(c) == call' = [call EXCEPT ![c] = Idle]

Scope(p) == product[p].scope

\* For the bounds: the handlers that may still add a row.
Pricing     == Cardinality({c \in Call : call[c].goal \in {"create", "price"}})
Subscribing == Cardinality({c \in Call : call[c].goal \in {"customer", "distributor"}})

----------------------------------------------------------------------------
(* The administrator's products.                                           *)

CreateGlobal(p) ==
  /\ Scope(p) = "none"
  /\ \E active \in BOOLEAN :
       product' = [product EXCEPT ![p] = [NoRow EXCEPT !.scope = "GLOBAL", !.active = active]]
  /\ UNCHANGED <<enabled, price, sub, call, history>>

\* updateGlobalProduct writes "active" without a look at the subscriptions.
UpdateGlobal(p) ==
  /\ Scope(p) = "GLOBAL"
  /\ \E active \in BOOLEAN :
       /\ product' = [product EXCEPT ![p].active = active]
       /\ forced' = IF active THEN forced \ {p} ELSE forced \cup {p}
  /\ UNCHANGED <<enabled, price, sub, call, crossed, late, restored, dropped>>

\* Slip: the count is made and not looked at.
CountIgnored(d, p) == TRUE

\* deactivateCustomProduct counts the subscriptions of distributor d alone,
\* deactivateGlobalProduct ("none") all.
InUse(d, p) == \E s \in 1 .. Len(sub) : /\ sub[s].p = p /\ sub[s].active
                                        /\ d \in {"none", sub[s].d}

NotInUse(d, p) == ~InUse(d, p)

\* deactivateGlobalProduct.
DeactivateGlobal(c, p) ==
  /\ Scope(p) = "GLOBAL"
  /\ Start(c, "count", "off", "none", p)
  /\ UNCHANGED <<product, enabled, price, sub, history>>

\* assertOwnCustomProduct.
Own(d, p) == Scope(p) = "DISTRIBUTOR" /\ product[p].owner = d /\ product[p].active

DeactivateCustom(c, d, p) ==
  /\ Own(d, p)
  /\ Start(c, "count", "off", d, p)
  /\ UNCHANGED <<product, enabled, price, sub, history>>

CountUses(c) ==
  /\ At(c, "count") /\ NotInUse(call[c].d, call[c].p)
  /\ Goto(c, "off")
  /\ UNCHANGED <<product, enabled, price, sub, history>>

Deactivate(c) ==
  /\ At(c, "off")
  /\ product' = [product EXCEPT ![call[c].p].active = FALSE]
  /\ forced' = forced \ {call[c].p}
  /\ End(c)
  /\ UNCHANGED <<enabled, price, sub, crossed, late, restored, dropped>>

----------------------------------------------------------------------------
(* A distributor's custom product: three writes, then reviews.             *)

CreateCustom(c, d, p) ==
  /\ Scope(p) = "none" /\ Len(price) + Pricing < MaxPrices
  /\ product' = [product EXCEPT ![p] =
       [scope |-> "DISTRIBUTOR", owner |-> d, active |-> TRUE, maker |-> d, promo |-> "PRIVATE"]]
  /\ Start(c, "enable", "create", d, p)
  /\ UNCHANGED <<enabled, price, sub, history>>

WithRow(d, p) == enabled \cup {<<d, p>>}

CreateEnable(c) ==
  /\ At(c, "enable")
  /\ enabled' = WithRow(call[c].d, call[c].p)
  /\ Goto(c, "firstPrice") \/ End(c)
  /\ UNCHANGED <<product, price, sub, history>>

\* No look for a price that may exist by now.
CreatePrice(c) ==
  /\ At(c, "firstPrice")
  /\ price' = Append(price, [d |-> call[c].d, p |-> call[c].p, active |-> TRUE, seen |-> 0])
  /\ End(c)
  /\ UNCHANGED <<product, enabled, sub, history>>

\* rejectPromotion and keepPrivate, of whatever promotionStatus.
ReviewRead(c, p) ==
  /\ Scope(p) = "DISTRIBUTOR" /\ At(c, "idle")
  /\ \E promo \in {"REJECTED", "PRIVATE"} :
       call' = [call EXCEPT ![c] = [Idle EXCEPT !.pc = "review", !.goal = "review",
                                                !.p = p, !.promo = promo]]
  /\ UNCHANGED <<product, enabled, price, sub, history>>

\* requestPromotion; a product already under review is returned as it is.
RequestPromotion(c, d, p) ==
  /\ Own(d, p) /\ product[p].promo # "PENDING_REVIEW" /\ At(c, "idle")
  /\ call' = [call EXCEPT ![c] = [Idle EXCEPT !.pc = "review", !.goal = "review",
                                              !.d = d, !.p = p, !.promo = "PENDING_REVIEW"]]
  /\ UNCHANGED <<product, enabled, price, sub, history>>

Review(c) ==
  /\ At(c, "review")
  /\ product' = [product EXCEPT ![call[c].p].promo = call[c].promo]
  /\ End(c)
  /\ UNCHANGED <<enabled, price, sub, history>>

PromoteRead(c, p) ==
  /\ Scope(p) = "DISTRIBUTOR"
  /\ Start(c, "promote", "promote", "none", p)
  /\ UNCHANGED <<product, enabled, price, sub, history>>

Promoted(row) == [row EXCEPT !.scope = "GLOBAL", !.owner = "none", !.active = TRUE,
                             !.promo = "PROMOTED"]

\* The owner's own row in distributorProduct is what keeps the product his.
Promote(c) ==
  LET p == call[c].p IN
  /\ At(c, "promote")
  /\ product' = [product EXCEPT ![p] = Promoted(@)]
  /\ crossed' = IF \E x \in Call \ {c} : call[x].p = p /\ call[x].goal = "off"
                  THEN crossed \cup {p} ELSE crossed
  /\ forced' = forced \ {p}
  /\ End(c)
  /\ UNCHANGED <<enabled, price, sub, late, restored, dropped>>

----------------------------------------------------------------------------
(* What a distributor offers.                                              *)

\* All a row that refers to the product needs.
Existing(p) == Scope(p) # "none"

MayToggle(p) == Scope(p) = "GLOBAL"

\* updateProducts, whose check holds for good once it holds.
UpdateProducts(d, p) ==
  /\ MayToggle(p)
  /\ \E on \in BOOLEAN :
       /\ enabled' = IF on THEN enabled \cup {<<d, p>>} ELSE enabled \ {<<d, p>>}
       /\ dropped' = IF ~on /\ product[p].maker = d THEN dropped \cup {p} ELSE dropped
  /\ UNCHANGED <<product, price, sub, call, crossed, forced, late, restored>>

OwnerOrGlobal(d, p) == Scope(p) = "DISTRIBUTOR" => product[p].owner = d

\* assertDistributorCanUseProduct reads the product; for a global one it asks
\* next whether the distributor has it enabled.
UseProduct(c, goal, after, d, p) ==
  /\ Existing(p) /\ product[p].active /\ OwnerOrGlobal(d, p)
  /\ Start(c, IF Scope(p) = "GLOBAL" THEN "enabled" ELSE after, goal, d, p)
  /\ UNCHANGED <<product, enabled, price, sub, history>>

AfterEnabled(goal) ==
  CASE goal = "price" -> "duplicate" [] goal = "switch" -> "switch" [] OTHER -> "priced"

Enabled(c) ==
  /\ At(c, "enabled") /\ <<call[c].d, call[c].p>> \in enabled
  /\ Goto(c, AfterEnabled(call[c].goal))
  /\ UNCHANGED <<product, enabled, price, sub, history>>

PricesOf(d, p) == {i \in 1 .. Len(price) : price[i].d = d /\ price[i].p = p /\ price[i].active}

CreatePricing(c, d, p) ==
  /\ Len(price) + Pricing < MaxPrices
  /\ UseProduct(c, "price", "duplicate", d, p)

\* Slip: the prices that are switched off are looked at.
NoPriceOff(d, p) ==
  ~\E i \in 1 .. Len(price) : price[i].d = d /\ price[i].p = p /\ ~price[i].active

NoPrice(d, p) == PricesOf(d, p) = {}

Duplicate(c) ==
  /\ At(c, "duplicate") /\ NoPrice(call[c].d, call[c].p)
  /\ call' = [call EXCEPT ![c].pc = "newPrice", ![c].seen = Len(price)]
  /\ UNCHANGED <<product, enabled, price, sub, history>>

NewPrice(c) ==
  /\ At(c, "newPrice")
  /\ price' = Append(price, [d |-> call[c].d, p |-> call[c].p, active |-> TRUE,
                             seen |-> call[c].seen])
  /\ End(c)
  /\ UNCHANGED <<product, enabled, sub, history>>

\* updatePricing writes "active" as it is asked to.
UpdatePricing(i) ==
  /\ price' = [price EXCEPT ![i].active = ~@]
  /\ restored' = IF price[i].active THEN restored \ {i} ELSE restored \cup {i}
  /\ UNCHANGED <<product, enabled, sub, call, crossed, forced, late, dropped>>

----------------------------------------------------------------------------
(* Subscriptions.                                                          *)

\* The customer's createSubscription: the product, then its price.
Subscribe(c, d, p) ==
  /\ Len(sub) + Subscribing < MaxSubs
  /\ UseProduct(c, "customer", "priced", d, p)

Priced(c) ==
  /\ At(c, "priced") /\ PricesOf(call[c].d, call[c].p) # {}
  /\ Goto(c, "newSub")
  /\ UNCHANGED <<product, enabled, price, sub, history>>

\* The distributor's never asks for the product, nor for a price when the
\* request names one.
Sell(c, d, p) ==
  /\ Existing(p) /\ Len(sub) + Subscribing < MaxSubs
  /\ Start(c, "newSub", "distributor", d, p)
  /\ UNCHANGED <<product, enabled, price, sub, history>>

\* History: the product of a subscription that starts is gone, or about to be.
Going(p) == \/ ~product[p].active
            \/ \E x \in Call : At(x, "off") /\ call[x].p = p

\* The customer's may have to wait for approval.
NewSub(c) ==
  LET k == call[c] IN
  /\ At(c, "newSub")
  /\ \E active \in BOOLEAN :
       /\ k.goal = "distributor" => active
       /\ sub' = Append(sub, [d |-> k.d, p |-> k.p, active |-> active, by |-> k.goal])
       /\ late' = IF active /\ Going(k.p) THEN late \cup {Len(sub) + 1} ELSE late
  /\ End(c)
  /\ UNCHANGED <<product, enabled, price, crossed, forced, restored, dropped>>

\* The customer's updateSubscription with a product, of a subscription that is
\* active when it is read: first a price (no product that does not exist has one),
\* then the product, and last the write.
SwitchRead(c, s, p) ==
  /\ sub[s].active /\ Existing(p) /\ At(c, "idle")
  /\ call' = [call EXCEPT ![c] = [Idle EXCEPT !.pc = "switchPrice", !.goal = "switch",
                                              !.d = sub[s].d, !.p = p, !.s = s]]
  /\ UNCHANGED <<product, enabled, price, sub, history>>

SwitchPrice(c) ==
  /\ At(c, "switchPrice") /\ PricesOf(call[c].d, call[c].p) # {}
  /\ Goto(c, "switchUse")
  /\ UNCHANGED <<product, enabled, price, sub, history>>

SwitchUse(c) ==
  LET p == call[c].p IN
  /\ At(c, "switchUse")
  /\ Existing(p) /\ product[p].active /\ OwnerOrGlobal(call[c].d, p)
  /\ Goto(c, IF Scope(p) = "GLOBAL" THEN "enabled" ELSE "switch")
  /\ UNCHANGED <<product, enabled, price, sub, history>>

\* Whatever has become of the subscription since.
Switch(c) ==
  LET k == call[c] IN
  /\ At(c, "switch")
  /\ sub' = [sub EXCEPT ![k.s].p = k.p, ![k.s].by = "customer"]
  /\ late' = CASE sub[k.s].p = k.p -> late
               [] sub[k.s].p # k.p /\ sub[k.s].active /\ Going(k.p) -> late \cup {k.s}
               [] OTHER -> late \ {k.s}
  /\ End(c)
  /\ UNCHANGED <<product, enabled, price, crossed, forced, restored, dropped>>

\* Approved, resumed, paused or ended.
ChangeSub(s) ==
  /\ sub' = [sub EXCEPT ![s].active = ~@]
  /\ late' = IF ~sub[s].active /\ Going(sub[s].p) THEN late \cup {s} ELSE late \ {s}
  /\ UNCHANGED <<product, enabled, price, call, crossed, forced, restored, dropped>>

\* A handler dies between two queries, or throws at a check that fails.
Die(c) ==
  /\ ~At(c, "idle")
  /\ End(c)
  /\ dropped' = IF At(c, "enable") THEN dropped \cup {call[c].p} ELSE dropped
  /\ UNCHANGED <<product, enabled, price, sub, crossed, forced, late, restored>>

Next ==
  \/ \E p \in Product :
       \/ CreateGlobal(p) \/ UpdateGlobal(p)
       \/ \E c \in Call : DeactivateGlobal(c, p) \/ ReviewRead(c, p) \/ PromoteRead(c, p)
       \/ \E d \in Distributor :
            \/ UpdateProducts(d, p)
            \/ \E c \in Call : \/ DeactivateCustom(c, d, p) \/ CreateCustom(c, d, p)
                               \/ RequestPromotion(c, d, p) \/ CreatePricing(c, d, p)
                               \/ Subscribe(c, d, p) \/ Sell(c, d, p)
  \/ \E c \in Call : \/ CountUses(c) \/ Deactivate(c) \/ CreateEnable(c) \/ CreatePrice(c)
                     \/ Review(c) \/ Promote(c) \/ Enabled(c) \/ Duplicate(c)
                     \/ NewPrice(c) \/ Priced(c) \/ NewSub(c) \/ Die(c)
                     \/ SwitchPrice(c) \/ SwitchUse(c) \/ Switch(c)
  \/ \E i \in 1 .. Len(price) : UpdatePricing(i)
  \/ \E s \in 1 .. Len(sub) :
       ChangeSub(s) \/ \E c \in Call, p \in Product : SwitchRead(c, s, p)

Spec == Init /\ [][Next]_vars

----------------------------------------------------------------------------
(* Properties.                                                             *)

\* A subscription is served with a product that is switched off only if it was
\* started, resumed or moved to the product after the deactivation had counted, if
\* updateGlobalProduct switched the product off, or if the owner's deactivation,
\* which counts his own subscriptions alone, missed another distributor's: one sold
\* without a look at the product, or any when the product was promoted in the
\* meantime.
GoneProductIsExplained ==
  \A s \in 1 .. Len(sub) :
    LET p == sub[s].p IN
    sub[s].active /\ ~product[p].active =>
      \/ s \in late \/ p \in forced \cup crossed
      \/ Scope(p) = "DISTRIBUTOR" /\ sub[s].d # product[p].owner

\* While a product is its owner's, nobody else has it enabled or priced, and no
\* customer's subscription to it is with another distributor, although the check
\* and the writes are apart and products change hands in between.
PrivateStaysPrivate ==
  \A p \in Product : Scope(p) = "DISTRIBUTOR" =>
    /\ \A e \in enabled : e[2] = p => e[1] = product[p].owner
    /\ \A i \in 1 .. Len(price) : price[i].p = p => price[i].d = product[p].owner
    /\ \A s \in 1 .. Len(sub) :
         sub[s].p = p /\ sub[s].by = "customer" => sub[s].d = product[p].owner

\* Two prices of one distributor for one product are active at once only if the
\* later was checked before the earlier was written, or the earlier was switched
\* off and on again.
DuplicatePriceIsExplained ==
  \A i, j \in 1 .. Len(price) :
    /\ i < j /\ price[i].d = price[j].d /\ price[i].p = price[j].p
    /\ price[i].active /\ price[j].active
    => price[j].seen < i \/ i \in restored

\* Who made a product can still offer it when it has been promoted, unless he
\* disabled it himself or its creation is not through, or never was.
PromotionKeepsMaker ==
  \A p \in Product :
    Scope(p) = "GLOBAL" /\ product[p].maker # "none" =>
      \/ <<product[p].maker, p>> \in enabled \/ p \in dropped
      \/ \E c \in Call : At(c, "enable") /\ call[c].p = p
=============================================================================
