--------------------------- MODULE Catalog_proofs ---------------------------
(***************************************************************************)
(* Proofs about Catalog, for any products, distributors and handlers.      *)
(*                                                                         *)
(* What a handler has checked of a product stays true because products     *)
(* change in one direction only (Grows): none, then private or global,     *)
(* then global for good, with the same owner as long as there is one.  So  *)
(* the invariant can say of each handler in flight, and of each row it     *)
(* wrote, that the distributor may use the product as it is now.           *)
(***************************************************************************)
EXTENDS Catalog, SequenceTheorems, TLAPS

\* Distributor d may use p, as the rows pr of the products are.
May(pr, d, p) ==
  \/ pr[p].scope = "GLOBAL"
  \/ pr[p].scope = "DISTRIBUTOR" /\ pr[p].owner = d

\* What the updates of a product row never do.
Grows(pr, qr) ==
  \A p \in Product : pr[p].scope # "none" =>
    /\ qr[p].maker = pr[p].maker
    /\ \/ qr[p].scope = "GLOBAL"
       \/ /\ pr[p].scope = "DISTRIBUTOR" /\ qr[p].scope = "DISTRIBUTOR"
          /\ qr[p].owner = pr[p].owner

OfProduct == {"enable", "firstPrice", "enabled", "duplicate", "newPrice", "priced", "newSub",
              "switchPrice", "switchUse", "switch"}

OnProduct == {"count", "off", "review", "promote"}

Checked == {"enable", "firstPrice", "duplicate", "newPrice", "priced", "switch"}

Goals == {"create", "price", "customer", "distributor", "off", "promote"}

CallOk(k, pr) ==
  /\ k.pc \in OfProduct => k.d \in Distributor /\ k.p \in Product
  /\ k.pc \in OnProduct => k.p \in Product
  /\ k.pc \in Checked => May(pr, k.d, k.p)
  /\ k.pc = "enabled" =>
       pr[k.p].scope = "GLOBAL" /\ k.goal \in {"price", "customer", "switch"}
  /\ k.pc \in {"switchPrice", "switchUse", "switch"} => k.goal = "switch"
  /\ k.pc = "priced" => k.goal = "customer"
  /\ k.pc = "newSub" =>
       k.goal \in {"customer", "distributor"} /\ (k.goal = "customer" => May(pr, k.d, k.p))
  /\ k.pc = "enable" => pr[k.p].maker = k.d

CallsOk   == \A c \in Call : CallOk(call[c], product)
EnabledOk == \A e \in enabled : May(product, e[1], e[2])
PricesOk  == \A i \in 1 .. Len(price) : May(product, price[i].d, price[i].p)
SubsOk    == \A s \in 1 .. Len(sub) :
               sub[s].by = "customer" => May(product, sub[s].d, sub[s].p)

CatalogInv == TypeOK /\ CallsOk /\ EnabledOk /\ PricesOk /\ SubsOk

\* Beside it: a handler that moves a subscription has its distributor right.
SwitchesOk ==
  \A c \in Call : call[c].goal = "switch" =>
    call[c].s \in 1 .. Len(sub) /\ sub[call[c].s].d = call[c].d

(***************************************************************************)
(* Products only grow.                                                     *)
(***************************************************************************)
LEMMA StillMay ==
  ASSUME NEW pr, NEW qr, Grows(pr, qr), NEW d, NEW p \in Product, May(pr, d, p)
  PROVE  May(qr, d, p)
  BY DEF Grows, May

LEMMA StillOk ==
  ASSUME NEW pr, NEW qr, Grows(pr, qr), NEW k, CallOk(k, pr)
  PROVE  CallOk(k, qr)
<1>1. k.pc \in Checked => k.pc \in OfProduct /\ pr[k.p].scope # "none"
  BY DEF CallOk, Checked, OfProduct, May
<1>2. k.pc \in Checked => May(qr, k.d, k.p)
  BY <1>1, StillMay DEF CallOk
<1>3. k.pc = "enabled" => qr[k.p].scope = "GLOBAL"
  BY DEF CallOk, OfProduct, Grows
<1>4. k.pc = "newSub" /\ k.goal = "customer" => May(qr, k.d, k.p)
  BY StillMay DEF CallOk, OfProduct
<1>5. k.pc = "enable" => qr[k.p].maker = k.d
  BY <1>1 DEF CallOk, Checked, OfProduct, Grows
<1> QED
  BY <1>2, <1>3, <1>4, <1>5 DEF CallOk

\* A product is written, nothing else that the invariant is about.
LEMMA Unchanged ==
  ASSUME CatalogInv, Grows(product, product')
  PROVE  /\ call' = call => CallsOk'
         /\ enabled' = enabled => EnabledOk'
         /\ price' = price => PricesOk'
         /\ sub' = sub => SubsOk'
<1>1. call' = call => CallsOk'
  BY StillOk DEF CatalogInv, CallsOk
<1>2. enabled' = enabled => EnabledOk'
  BY StillMay DEF CatalogInv, TypeOK, EnabledOk
<1>3. ASSUME price' = price PROVE PricesOk'
  <2>1. ASSUME NEW i \in 1 .. Len(price) PROVE price[i].p \in Product
    <3>1. price[i] \in Price
      BY ElementOfSeq DEF CatalogInv, TypeOK
    <3> QED
      BY <3>1 DEF Price
  <2>2. \A i \in 1 .. Len(price) : May(product', price[i].d, price[i].p)
    BY <2>1, StillMay DEF CatalogInv, PricesOk
  <2> QED
    BY <1>3, <2>2 DEF PricesOk
<1>4. ASSUME sub' = sub PROVE SubsOk'
  <2>1. ASSUME NEW s \in 1 .. Len(sub) PROVE sub[s].p \in Product
    <3>1. sub[s] \in Sub
      BY ElementOfSeq DEF CatalogInv, TypeOK
    <3> QED
      BY <3>1 DEF Sub
  <2>2. \A s \in 1 .. Len(sub) : sub[s].by = "customer" => May(product', sub[s].d, sub[s].p)
    BY <2>1, StillMay DEF CatalogInv, SubsOk
  <2> QED
    BY <1>4, <2>2 DEF SubsOk
<1> QED
  BY <1>1, <1>2, <1>3, <1>4

LEMMA SameGrows == ASSUME product' = product, TypeOK PROVE Grows(product, product')
  BY DEF Grows, TypeOK, Row

(***************************************************************************)
(* Records.                                                                *)
(***************************************************************************)
LEMMA IdleOk == Idle \in CallState /\ \A pr : CallOk(Idle, pr)
  BY DEF Idle, CallState, CallOk, OfProduct, OnProduct, Checked

LEMMA StartIs ==
  ASSUME NEW pc, NEW goal, NEW d, NEW p
  PROVE  LET k == [Idle EXCEPT !.pc = pc, !.goal = goal, !.d = d, !.p = p] IN
         k.pc = pc /\ k.goal = goal /\ k.d = d /\ k.p = p
  BY DEF Idle

LEMMA StartTypes ==
  ASSUME NEW pc \in OfProduct \cup OnProduct,
         NEW goal \in Goals,
         NEW d \in Distributor \cup {"none"}, NEW p \in Product
  PROVE  [Idle EXCEPT !.pc = pc, !.goal = goal, !.d = d, !.p = p] \in CallState
  BY DEF Idle, CallState, OfProduct, OnProduct, Goals

\* One handler is as k, the others as before.
LEMMA OneCall ==
  ASSUME CatalogInv, Grows(product, product'), NEW c \in Call, NEW k, k \in CallState,
         CallOk(k, product'), call' = [call EXCEPT ![c] = k]
  PROVE  call' \in [Call -> CallState] /\ CallsOk'
<1>1. \A x \in Call : call'[x] = IF x = c THEN k ELSE call[x]
  BY DEF CatalogInv, TypeOK
<1>2. \A x \in Call : CallOk(call[x], product')
  BY StillOk DEF CatalogInv, CallsOk
<1>3. call' \in [Call -> CallState]
  BY DEF CatalogInv, TypeOK
<1> QED
  BY <1>1, <1>2, <1>3 DEF CallsOk

LEMMA EndOk ==
  ASSUME CatalogInv, Grows(product, product'), NEW c \in Call, End(c)
  PROVE  call' \in [Call -> CallState] /\ CallsOk'
  BY IdleOk, OneCall DEF End

LEMMA GotoIs ==
  ASSUME NEW k \in CallState, NEW pc \in OfProduct \cup OnProduct
  PROVE  /\ [k EXCEPT !.pc = pc] \in CallState
         /\ [k EXCEPT !.pc = pc].pc = pc /\ [k EXCEPT !.pc = pc].goal = k.goal
         /\ [k EXCEPT !.pc = pc].d = k.d /\ [k EXCEPT !.pc = pc].p = k.p
         /\ [k EXCEPT !.pc = pc].seen = k.seen /\ [k EXCEPT !.pc = pc].s = k.s
  BY DEF CallState, OfProduct, OnProduct

\* A step of a handler that writes nothing.
LEMMA ReadStep ==
  ASSUME CatalogInv, NEW c \in Call, NEW k, k \in CallState, CallOk(k, product),
         call' = [call EXCEPT ![c] = k],
         UNCHANGED <<product, enabled, price, sub, history>>
  PROVE  CatalogInv'
<1>1. product' = product /\ Grows(product, product')
  BY SameGrows DEF CatalogInv
<1>2. call' \in [Call -> CallState] /\ CallsOk'
  BY <1>1, OneCall
<1>3. EnabledOk' /\ PricesOk' /\ SubsOk'
  BY <1>1, Unchanged
<1>4. TypeOK'
  BY <1>2 DEF CatalogInv, TypeOK, history
<1> QED
  BY <1>2, <1>3, <1>4 DEF CatalogInv

LEMMA GotoStep ==
  ASSUME CatalogInv, NEW c \in Call, NEW pc \in OfProduct \cup OnProduct, Goto(c, pc),
         CallOk([call[c] EXCEPT !.pc = pc], product),
         UNCHANGED <<product, enabled, price, sub, history>>
  PROVE  CatalogInv'
<1> DEFINE k == [call[c] EXCEPT !.pc = pc]
<1>1. k \in CallState
  BY GotoIs DEF CatalogInv, TypeOK
<1>2. call' = [call EXCEPT ![c] = k]
  BY DEF Goto
<1> HIDE DEF k
<1> QED
  BY <1>1, <1>2, ReadStep DEF k

LEMMA StartStep ==
  ASSUME CatalogInv, NEW c \in Call, NEW pc \in OfProduct \cup OnProduct,
         NEW goal \in Goals,
         NEW d \in Distributor \cup {"none"}, NEW p \in Product, Start(c, pc, goal, d, p),
         pc \in OfProduct => d \in Distributor,
         pc \in Checked => May(product, d, p),
         pc = "enabled" => product[p].scope = "GLOBAL" /\ goal \in {"price", "customer"},
         pc = "priced" => goal = "customer",
         pc = "newSub" => goal = "distributor",
         pc \notin {"enable", "switchPrice", "switchUse", "switch"},
         UNCHANGED <<product, enabled, price, sub, history>>
  PROVE  CatalogInv'
<1> DEFINE k == [Idle EXCEPT !.pc = pc, !.goal = goal, !.d = d, !.p = p]
<1>1. k \in CallState
  BY StartTypes
<1>2. call' = [call EXCEPT ![c] = k]
  BY DEF Start
<1>3. k.pc = pc /\ k.goal = goal /\ k.d = d /\ k.p = p
  BY StartIs
<1> HIDE DEF k
<1>4. CallOk(k, product)
  BY <1>3 DEF CallOk
<1> QED
  BY <1>1, <1>2, <1>4, ReadStep

(***************************************************************************)
(* Product rows.                                                           *)
(***************************************************************************)
Switched(row, active) == [row EXCEPT !.active = active]

Reviewed(row, promo) == [row EXCEPT !.promo = promo]

LEMMA RowIs ==
  ASSUME NEW row \in Row
  PROVE  /\ row.scope \in {"none", "GLOBAL", "DISTRIBUTOR"}
         /\ row.maker \in Distributor \cup {"none"} /\ row.owner \in Distributor \cup {"none"}
         /\ \A active \in BOOLEAN :
              /\ Switched(row, active) \in Row
              /\ Switched(row, active).scope = row.scope
              /\ Switched(row, active).owner = row.owner
              /\ Switched(row, active).maker = row.maker
         /\ \A promo \in {"NONE", "PRIVATE", "PENDING_REVIEW", "REJECTED"} :
              /\ Reviewed(row, promo) \in Row
              /\ Reviewed(row, promo).scope = row.scope
              /\ Reviewed(row, promo).owner = row.owner
              /\ Reviewed(row, promo).maker = row.maker
         /\ Promoted(row) \in Row /\ Promoted(row).scope = "GLOBAL"
         /\ Promoted(row).maker = row.maker
<1>1. ASSUME NEW active \in BOOLEAN
      PROVE  /\ Switched(row, active) \in Row
             /\ Switched(row, active).scope = row.scope
             /\ Switched(row, active).owner = row.owner
             /\ Switched(row, active).maker = row.maker
  BY DEF Switched, Row
<1>2. ASSUME NEW promo \in {"NONE", "PRIVATE", "PENDING_REVIEW", "REJECTED"}
      PROVE  /\ Reviewed(row, promo) \in Row
             /\ Reviewed(row, promo).scope = row.scope
             /\ Reviewed(row, promo).owner = row.owner
             /\ Reviewed(row, promo).maker = row.maker
  BY DEF Reviewed, Row
<1>3. /\ Promoted(row) \in Row /\ Promoted(row).scope = "GLOBAL"
      /\ Promoted(row).maker = row.maker
  BY DEF Promoted, Row
<1>4. /\ row.scope \in {"none", "GLOBAL", "DISTRIBUTOR"}
      /\ row.maker \in Distributor \cup {"none"} /\ row.owner \in Distributor \cup {"none"}
  BY DEF Row
<1> QED
  BY <1>1, <1>2, <1>3, <1>4

\* One row is written.
LEMMA RowWritten ==
  ASSUME TypeOK, NEW p \in Product, NEW row \in Row, product' = [product EXCEPT ![p] = row],
         \/ product[p].scope = "none"
         \/ /\ row.maker = product[p].maker
            /\ \/ row.scope = "GLOBAL"
               \/ row.scope = product[p].scope /\ row.owner = product[p].owner
  PROVE  product' \in [Product -> Row] /\ Grows(product, product')
<1>1. \A x \in Product : product'[x] = IF x = p THEN row ELSE product[x]
  BY DEF TypeOK
<1>2. \A x \in Product : product[x].scope \in {"none", "GLOBAL", "DISTRIBUTOR"}
  <2>1. \A x \in Product : product[x] \in Row
    BY DEF TypeOK
  <2> QED
    BY <2>1, RowIs
<1>3. product' \in [Product -> Row]
  BY DEF TypeOK
<1>4. ASSUME NEW x \in Product, product[x].scope # "none"
      PROVE  /\ product'[x].maker = product[x].maker
             /\ \/ product'[x].scope = "GLOBAL"
                \/ /\ product[x].scope = "DISTRIBUTOR" /\ product'[x].scope = "DISTRIBUTOR"
                   /\ product'[x].owner = product[x].owner
  <2>1. CASE x = p
    BY <1>1, <1>2, <1>4, <2>1
  <2>2. CASE x # p
    BY <1>1, <1>2, <1>4, <2>2
  <2> QED
    BY <2>1, <2>2
<1> QED
  BY <1>3, <1>4 DEF Grows

\* A product row and perhaps histories are written.
LEMMA ProductStep ==
  ASSUME CatalogInv, product' \in [Product -> Row], Grows(product, product'),
         call' \in [Call -> CallState], CallsOk',
         UNCHANGED <<enabled, price, sub, late, restored, dropped>>,
         crossed' \subseteq Product, forced' \subseteq Product
  PROVE  CatalogInv'
<1>1. EnabledOk' /\ PricesOk' /\ SubsOk'
  BY Unchanged
<1>2. TypeOK'
  BY DEF CatalogInv, TypeOK
<1> QED
  BY <1>1, <1>2 DEF CatalogInv

(***************************************************************************)
(* Prices and subscriptions.                                               *)
(***************************************************************************)
NewRow(d, p, seen) == [d |-> d, p |-> p, active |-> TRUE, seen |-> seen]

FirstSub(d, p, active, by) == [d |-> d, p |-> p, active |-> active, by |-> by]

LEMMA NewRowIs ==
  ASSUME NEW d \in Distributor, NEW p \in Product, NEW seen \in Nat
  PROVE  /\ NewRow(d, p, seen) \in Price
         /\ NewRow(d, p, seen).d = d /\ NewRow(d, p, seen).p = p
         /\ NewRow(d, p, seen).seen = seen
  BY DEF NewRow, Price

LEMMA FirstSubIs ==
  ASSUME NEW d \in Distributor, NEW p \in Product, NEW active \in BOOLEAN,
         NEW by \in {"customer", "distributor"}
  PROVE  /\ FirstSub(d, p, active, by) \in Sub
         /\ FirstSub(d, p, active, by).d = d /\ FirstSub(d, p, active, by).p = p
         /\ FirstSub(d, p, active, by).by = by
  BY DEF FirstSub, Sub

LEMMA PriceToggled ==
  ASSUME NEW row \in Price
  PROVE  /\ [row EXCEPT !.active = ~@] \in Price
         /\ [row EXCEPT !.active = ~@].d = row.d /\ [row EXCEPT !.active = ~@].p = row.p
         /\ [row EXCEPT !.active = ~@].seen = row.seen
<1>1. row.active \in BOOLEAN
  BY DEF Price
<1>2. (~row.active) \in BOOLEAN
  BY <1>1
<1> QED
  BY <1>2 DEF Price

LEMMA SubToggled ==
  ASSUME NEW row \in Sub
  PROVE  /\ [row EXCEPT !.active = ~@] \in Sub
         /\ [row EXCEPT !.active = ~@].d = row.d /\ [row EXCEPT !.active = ~@].p = row.p
         /\ [row EXCEPT !.active = ~@].by = row.by
<1>1. row.active \in BOOLEAN
  BY DEF Sub
<1>2. (~row.active) \in BOOLEAN
  BY <1>1
<1> QED
  BY <1>2 DEF Sub

\* A handler that may use its product writes a price for it.
LEMMA PriceStep ==
  ASSUME CatalogInv, NEW c \in Call, NEW seen \in Nat, call[c].pc \in {"firstPrice", "newPrice"},
         price' = Append(price, NewRow(call[c].d, call[c].p, seen)), End(c),
         UNCHANGED <<product, enabled, sub, history>>
  PROVE  CatalogInv'
<1> DEFINE row == NewRow(call[c].d, call[c].p, seen)
<1>1. /\ call[c].d \in Distributor /\ call[c].p \in Product
      /\ May(product, call[c].d, call[c].p)
  BY DEF CatalogInv, CallsOk, CallOk, OfProduct, Checked
<1>2. row \in Price /\ row.d = call[c].d /\ row.p = call[c].p
  BY <1>1, NewRowIs
<1> HIDE DEF row
<1>3. price \in Seq(Price) /\ price' = Append(price, row)
  BY DEF CatalogInv, TypeOK, row
<1>4. /\ price' \in Seq(Price) /\ Len(price') = Len(price) + 1
      /\ \A i \in 1 .. Len(price) : price'[i] = price[i]
      /\ price'[Len(price) + 1] = row
  BY <1>2, <1>3, AppendProperties
<1>5. product' = product /\ Grows(product, product')
  BY SameGrows DEF CatalogInv
<1>6. call' \in [Call -> CallState] /\ CallsOk'
  BY <1>5, EndOk
<1>7. EnabledOk' /\ SubsOk'
  BY <1>5, Unchanged
<1>8. Len(price) \in Nat
  BY <1>3
<1>9. PricesOk'
  BY <1>1, <1>2, <1>4, <1>5, <1>8 DEF CatalogInv, PricesOk
<1>10. restored' \subseteq 1 .. Len(price')
  BY <1>4, <1>8 DEF CatalogInv, TypeOK, history
<1>11. TypeOK'
  BY <1>4, <1>6, <1>10 DEF CatalogInv, TypeOK, history
<1> QED
  BY <1>6, <1>7, <1>9, <1>11 DEF CatalogInv

LEMMA NewSubStep ==
  ASSUME CatalogInv, NEW c \in Call, NewSub(c)
  PROVE  CatalogInv'
<1>1. PICK active \in BOOLEAN :
        /\ sub' = Append(sub, FirstSub(call[c].d, call[c].p, active, call[c].goal))
        /\ late' = IF active /\ Going(call[c].p) THEN late \cup {Len(sub) + 1} ELSE late
  BY DEF NewSub, FirstSub
<1> DEFINE row == FirstSub(call[c].d, call[c].p, active, call[c].goal)
<1>2. /\ call[c].d \in Distributor /\ call[c].p \in Product
      /\ call[c].goal \in {"customer", "distributor"}
      /\ call[c].goal = "customer" => May(product, call[c].d, call[c].p)
  BY DEF NewSub, At, CatalogInv, CallsOk, CallOk, OfProduct
<1>3. row \in Sub /\ row.d = call[c].d /\ row.p = call[c].p /\ row.by = call[c].goal
  BY <1>2, FirstSubIs
<1> HIDE DEF row
<1>4. sub \in Seq(Sub) /\ sub' = Append(sub, row)
  BY <1>1 DEF CatalogInv, TypeOK, row
<1>5. /\ sub' \in Seq(Sub) /\ Len(sub') = Len(sub) + 1
      /\ \A i \in 1 .. Len(sub) : sub'[i] = sub[i]
      /\ sub'[Len(sub) + 1] = row
  BY <1>3, <1>4, AppendProperties
<1>6. product' = product /\ Grows(product, product')
  BY SameGrows DEF CatalogInv, NewSub
<1>7. call' \in [Call -> CallState] /\ CallsOk'
  BY <1>6, EndOk DEF NewSub
<1>8. EnabledOk' /\ PricesOk'
  BY <1>6, Unchanged DEF NewSub
<1>9. Len(sub) \in Nat
  BY <1>4
<1>10. SubsOk'
  BY <1>2, <1>3, <1>5, <1>6, <1>9 DEF CatalogInv, SubsOk
<1>11. late' \subseteq 1 .. Len(sub')
  <2>1. late \subseteq 1 .. Len(sub) /\ late' \subseteq late \cup {Len(sub) + 1}
    BY <1>1 DEF CatalogInv, TypeOK
  <2>2. 1 .. Len(sub) \cup {Len(sub) + 1} \subseteq 1 .. Len(sub')
    BY <1>5, <1>9
  <2> QED
    BY <2>1, <2>2
<1>12. TypeOK'
  BY <1>5, <1>7, <1>11 DEF CatalogInv, TypeOK, NewSub
<1> QED
  BY <1>7, <1>8, <1>10, <1>12 DEF CatalogInv

LEMMA UpdatePricingStep ==
  ASSUME CatalogInv, NEW i \in 1 .. Len(price), UpdatePricing(i)
  PROVE  CatalogInv'
<1> DEFINE row == [price[i] EXCEPT !.active = ~@]
<1>1. price[i] \in Price /\ price \in Seq(Price)
  BY ElementOfSeq DEF CatalogInv, TypeOK
<1>2. row \in Price /\ row.d = price[i].d /\ row.p = price[i].p
  BY <1>1, PriceToggled
<1>3. price' = [price EXCEPT ![i] = row]
  BY DEF UpdatePricing
<1> HIDE DEF row
<1>4. /\ price' \in Seq(Price) /\ Len(price') = Len(price)
      /\ \A j \in 1 .. Len(price) : price'[j] = IF j = i THEN row ELSE price[j]
  BY <1>1, <1>2, <1>3, ExceptSeq
<1>5. product' = product /\ Grows(product, product')
  BY SameGrows DEF CatalogInv, UpdatePricing
<1>6. CallsOk' /\ EnabledOk' /\ SubsOk'
  BY <1>5, Unchanged DEF UpdatePricing
<1>7. PricesOk'
  BY <1>2, <1>4, <1>5 DEF CatalogInv, PricesOk
<1>8. restored' \subseteq 1 .. Len(price')
  BY <1>4 DEF UpdatePricing, CatalogInv, TypeOK
<1>9. TypeOK'
  BY <1>4, <1>8 DEF CatalogInv, TypeOK, UpdatePricing
<1> QED
  BY <1>6, <1>7, <1>9 DEF CatalogInv

LEMMA ChangeSubStep ==
  ASSUME CatalogInv, NEW i \in 1 .. Len(sub), ChangeSub(i)
  PROVE  CatalogInv'
<1> DEFINE row == [sub[i] EXCEPT !.active = ~@]
<1>1. sub[i] \in Sub /\ sub \in Seq(Sub)
  BY ElementOfSeq DEF CatalogInv, TypeOK
<1>2. row \in Sub /\ row.d = sub[i].d /\ row.p = sub[i].p /\ row.by = sub[i].by
  BY <1>1, SubToggled
<1>3. sub' = [sub EXCEPT ![i] = row]
  BY DEF ChangeSub
<1> HIDE DEF row
<1>4. /\ sub' \in Seq(Sub) /\ Len(sub') = Len(sub)
      /\ \A j \in 1 .. Len(sub) : sub'[j] = IF j = i THEN row ELSE sub[j]
  BY <1>1, <1>2, <1>3, ExceptSeq
<1>5. product' = product /\ Grows(product, product')
  BY SameGrows DEF CatalogInv, ChangeSub
<1>6. CallsOk' /\ EnabledOk' /\ PricesOk'
  BY <1>5, Unchanged DEF ChangeSub
<1>7. SubsOk'
  BY <1>2, <1>4, <1>5 DEF CatalogInv, SubsOk
<1>8. late' \subseteq 1 .. Len(sub')
  BY <1>4 DEF ChangeSub, CatalogInv, TypeOK
<1>9. TypeOK'
  BY <1>4, <1>8 DEF CatalogInv, TypeOK, ChangeSub
<1> QED
  BY <1>6, <1>7, <1>9 DEF CatalogInv

(***************************************************************************)
(* The steps on a product.                                                 *)
(***************************************************************************)
LEMMA ProductWrites ==
  ASSUME CatalogInv, NEW p \in Product
  PROVE  /\ CreateGlobal(p) => CatalogInv'
         /\ UpdateGlobal(p) => CatalogInv'
<1>0. TypeOK /\ product[p] \in Row
  BY DEF CatalogInv, TypeOK
<1>1. ASSUME CreateGlobal(p) PROVE CatalogInv'
  <2>1. PICK active \in BOOLEAN :
          product' = [product EXCEPT ![p] = [NoRow EXCEPT !.scope = "GLOBAL", !.active = active]]
    BY <1>1 DEF CreateGlobal
  <2>2. [NoRow EXCEPT !.scope = "GLOBAL", !.active = active] \in Row
    BY DEF NoRow, Row
  <2>3. product' \in [Product -> Row] /\ Grows(product, product')
    BY <1>0, <1>1, <2>1, <2>2, RowWritten DEF CreateGlobal, Scope
  <2>4. call' \in [Call -> CallState] /\ CallsOk'
    BY <1>0, <1>1, <2>3, Unchanged DEF CreateGlobal, TypeOK
  <2> QED
    BY <1>0, <1>1, <2>3, <2>4, ProductStep DEF CreateGlobal, history, TypeOK
<1>2. ASSUME UpdateGlobal(p) PROVE CatalogInv'
  <2>1. PICK active \in BOOLEAN :
          /\ product' = [product EXCEPT ![p].active = active]
          /\ forced' = IF active THEN forced \ {p} ELSE forced \cup {p}
    BY <1>2 DEF UpdateGlobal
  <2>2. product' = [product EXCEPT ![p] = Switched(product[p], active)]
    BY <2>1 DEF Switched
  <2>3. product' \in [Product -> Row] /\ Grows(product, product')
    <3> DEFINE row == Switched(product[p], active)
    <3>1. row \in Row /\ row.scope = product[p].scope /\ row.owner = product[p].owner /\ row.maker = product[p].maker
      BY <1>0, RowIs
    <3> HIDE DEF row
    <3>2. product' = [product EXCEPT ![p] = row]
      BY <2>2 DEF row
    <3> QED
      BY <1>0, <3>1, <3>2, RowWritten
  <2>4. call' \in [Call -> CallState] /\ CallsOk'
    BY <1>0, <1>2, <2>3, Unchanged DEF UpdateGlobal, TypeOK
  <2>5. forced' \subseteq Product
    BY <1>0, <2>1 DEF TypeOK
  <2> QED
    BY <1>0, <1>2, <2>3, <2>4, <2>5, ProductStep DEF UpdateGlobal, TypeOK
<1> QED
  BY <1>1, <1>2

LEMMA HandlerWrites ==
  ASSUME CatalogInv, NEW c \in Call
  PROVE  /\ Deactivate(c) => CatalogInv'
         /\ Review(c) => CatalogInv'
         /\ Promote(c) => CatalogInv'
<1>0. TypeOK /\ call[c] \in CallState /\ CallOk(call[c], product)
  BY DEF CatalogInv, TypeOK, CallsOk
<1>1. ASSUME Deactivate(c) PROVE CatalogInv'
  <2>1. call[c].p \in Product
    BY <1>0, <1>1 DEF Deactivate, At, CallOk, OnProduct
  <2>2. product' = [product EXCEPT ![call[c].p] = Switched(product[call[c].p], FALSE)]
    BY <1>1 DEF Deactivate, Switched
  <2>3. product' \in [Product -> Row] /\ Grows(product, product')
    <3> DEFINE row == Switched(product[call[c].p], FALSE)
    <3>1. /\ row \in Row /\ row.maker = product[call[c].p].maker
          /\ row.scope = product[call[c].p].scope /\ row.owner = product[call[c].p].owner
      <4>1. product[call[c].p] \in Row
        BY <1>0, <2>1 DEF TypeOK
      <4>2. \A active \in BOOLEAN :
              /\ Switched(product[call[c].p], active) \in Row
              /\ Switched(product[call[c].p], active).scope = product[call[c].p].scope
              /\ Switched(product[call[c].p], active).owner = product[call[c].p].owner
              /\ Switched(product[call[c].p], active).maker = product[call[c].p].maker
        BY <4>1, RowIs
      <4> QED
        BY <4>2
    <3> HIDE DEF row
    <3>2. product' = [product EXCEPT ![call[c].p] = row]
      BY <2>2 DEF row
    <3> QED
      BY <1>0, <2>1, <3>1, <3>2, RowWritten
  <2>4. call' \in [Call -> CallState] /\ CallsOk'
    BY <1>1, <2>3, EndOk DEF Deactivate
  <2> QED
    BY <1>0, <1>1, <2>3, <2>4, ProductStep DEF Deactivate, TypeOK
<1>2. ASSUME Review(c) PROVE CatalogInv'
  <2>1. call[c].p \in Product /\ call[c].promo \in {"NONE", "PRIVATE", "PENDING_REVIEW", "REJECTED"}
    BY <1>0, <1>2 DEF Review, At, CallOk, OnProduct, CallState
  <2>2. product' = [product EXCEPT ![call[c].p] = Reviewed(product[call[c].p], call[c].promo)]
    BY <1>2 DEF Review, Reviewed
  <2>3. product' \in [Product -> Row] /\ Grows(product, product')
    <3> DEFINE row == Reviewed(product[call[c].p], call[c].promo)
    <3>1. /\ row \in Row /\ row.maker = product[call[c].p].maker
          /\ row.scope = product[call[c].p].scope /\ row.owner = product[call[c].p].owner
      BY <1>0, <2>1, RowIs DEF TypeOK
    <3> HIDE DEF row
    <3>2. product' = [product EXCEPT ![call[c].p] = row]
      BY <2>2 DEF row
    <3> QED
      BY <1>0, <2>1, <3>1, <3>2, RowWritten
  <2>4. call' \in [Call -> CallState] /\ CallsOk'
    BY <1>2, <2>3, EndOk DEF Review
  <2>5. UNCHANGED <<enabled, price, sub, crossed, forced, late, restored, dropped>>
    BY <1>2 DEF Review, history
  <2> QED
    BY <1>0, <2>3, <2>4, <2>5, ProductStep DEF TypeOK
<1>3. ASSUME Promote(c) PROVE CatalogInv'
  <2>1. call[c].p \in Product
    BY <1>0, <1>3 DEF Promote, At, CallOk, OnProduct
  <2>2. product' = [product EXCEPT ![call[c].p] = Promoted(product[call[c].p])]
    BY <1>3 DEF Promote
  <2>3. product' \in [Product -> Row] /\ Grows(product, product')
    <3> DEFINE row == Promoted(product[call[c].p])
    <3>1. /\ row \in Row /\ row.maker = product[call[c].p].maker
          /\ row.scope = "GLOBAL"
      BY <1>0, <2>1, RowIs DEF TypeOK
    <3> HIDE DEF row
    <3>2. product' = [product EXCEPT ![call[c].p] = row]
      BY <2>2 DEF row
    <3> QED
      BY <1>0, <2>1, <3>1, <3>2, RowWritten
  <2>4. call' \in [Call -> CallState] /\ CallsOk'
    BY <1>3, <2>3, EndOk DEF Promote
  <2>5. crossed' \subseteq Product /\ forced' \subseteq Product
    BY <1>0, <1>3, <2>1 DEF Promote, TypeOK
  <2> QED
    BY <1>3, <2>3, <2>4, <2>5, ProductStep DEF Promote
<1> QED
  BY <1>1, <1>2, <1>3

(***************************************************************************)
(* The steps of handlers that write no product.                            *)
(***************************************************************************)
LEMMA StartSteps ==
  ASSUME CatalogInv, NEW c \in Call, NEW p \in Product
  PROVE  /\ DeactivateGlobal(c, p) => CatalogInv'
         /\ PromoteRead(c, p) => CatalogInv'
         /\ ReviewRead(c, p) => CatalogInv'
<1>1. ASSUME DeactivateGlobal(c, p) PROVE CatalogInv'
  BY <1>1, StartStep DEF DeactivateGlobal, OfProduct, OnProduct, Checked, Goals
<1>2. ASSUME PromoteRead(c, p) PROVE CatalogInv'
  BY <1>2, StartStep DEF PromoteRead, OfProduct, OnProduct, Checked, Goals
<1>3. ASSUME ReviewRead(c, p) PROVE CatalogInv'
  <2>1. PICK promo \in {"REJECTED", "PRIVATE"} :
          call' = [call EXCEPT ![c] = [Idle EXCEPT !.pc = "review", !.goal = "review",
                                                   !.p = p, !.promo = promo]]
    BY <1>3 DEF ReviewRead
  <2> DEFINE k == [Idle EXCEPT !.pc = "review", !.goal = "review", !.p = p, !.promo = promo]
  <2>2. k \in CallState
    BY DEF Idle, CallState
  <2>3. k.pc = "review" /\ k.p = p
    BY DEF Idle
  <2>4. call' = [call EXCEPT ![c] = k]
    BY <2>1
  <2> HIDE DEF k
  <2>5. CallOk(k, product)
    BY <2>3 DEF CallOk, OfProduct, OnProduct, Checked
  <2> QED
    BY <1>3, <2>2, <2>4, <2>5, ReadStep DEF ReviewRead
<1> QED
  BY <1>1, <1>2, <1>3

LEMMA DistributorSteps ==
  ASSUME CatalogInv, NEW c \in Call, NEW p \in Product, NEW d \in Distributor
  PROVE  /\ DeactivateCustom(c, d, p) => CatalogInv'
         /\ RequestPromotion(c, d, p) => CatalogInv'
         /\ CreatePricing(c, d, p) => CatalogInv'
         /\ Subscribe(c, d, p) => CatalogInv'
         /\ Sell(c, d, p) => CatalogInv'
<1>1. ASSUME DeactivateCustom(c, d, p) PROVE CatalogInv'
  BY <1>1, StartStep DEF DeactivateCustom, OfProduct, OnProduct, Checked, Goals
<1>2. ASSUME RequestPromotion(c, d, p) PROVE CatalogInv'
  <2> DEFINE k == [Idle EXCEPT !.pc = "review", !.goal = "review", !.d = d, !.p = p,
                               !.promo = "PENDING_REVIEW"]
  <2>1. k \in CallState
    BY DEF Idle, CallState
  <2>2. k.pc = "review" /\ k.p = p
    BY DEF Idle
  <2>3. call' = [call EXCEPT ![c] = k]
    BY <1>2 DEF RequestPromotion
  <2> HIDE DEF k
  <2>4. CallOk(k, product)
    BY <2>2 DEF CallOk, OfProduct, OnProduct, Checked
  <2> QED
    BY <1>2, <2>1, <2>3, <2>4, ReadStep DEF RequestPromotion
<1>3. ASSUME NEW goal \in {"price", "customer"}, NEW after \in {"duplicate", "priced"},
             after = "priced" => goal = "customer", UseProduct(c, goal, after, d, p)
      PROVE  CatalogInv'
  <2>1. Scope(p) \in {"GLOBAL", "DISTRIBUTOR"}
    <3>1. product[p] \in Row
      BY DEF CatalogInv, TypeOK
    <3> QED
      BY <1>3, <3>1, RowIs DEF UseProduct, Existing, Scope
  <2>2. May(product, d, p)
    BY <1>3, <2>1 DEF UseProduct, OwnerOrGlobal, Scope, May
  <2>3. CASE Scope(p) = "GLOBAL"
    <3>1. Start(c, "enabled", goal, d, p)
      BY <1>3, <2>3 DEF UseProduct
    <3> QED
      BY <1>3, <2>3, <3>1, StartStep DEF UseProduct, Scope, OfProduct, Checked, Goals
  <2>4. CASE Scope(p) # "GLOBAL"
    <3>1. Start(c, after, goal, d, p)
      BY <1>3, <2>4 DEF UseProduct
    <3> QED
      BY <1>3, <2>2, <3>1, StartStep DEF UseProduct, OfProduct, Checked, Goals
  <2> QED
    BY <2>3, <2>4
<1>4. ASSUME CreatePricing(c, d, p) PROVE CatalogInv'
  BY <1>3, <1>4 DEF CreatePricing
<1>5. ASSUME Subscribe(c, d, p) PROVE CatalogInv'
  BY <1>3, <1>5 DEF Subscribe
<1>6. ASSUME Sell(c, d, p) PROVE CatalogInv'
  BY <1>6, StartStep DEF Sell, OfProduct, Checked, Goals
<1> QED
  BY <1>1, <1>2, <1>4, <1>5, <1>6

LEMMA UpdateProductsStep ==
  ASSUME CatalogInv, NEW p \in Product, NEW d \in Distributor, UpdateProducts(d, p)
  PROVE  CatalogInv'
<1>1. product' = product /\ Grows(product, product')
  BY SameGrows DEF CatalogInv, UpdateProducts
<1>2. enabled' \subseteq enabled \cup {<<d, p>>} /\ dropped' \subseteq dropped \cup {p}
  BY DEF UpdateProducts
<1>3. May(product, d, p)
  BY DEF UpdateProducts, MayToggle, Scope, May
<1>4. EnabledOk'
  BY <1>1, <1>2, <1>3 DEF CatalogInv, EnabledOk
<1>5. CallsOk' /\ PricesOk' /\ SubsOk'
  BY <1>1, Unchanged DEF UpdateProducts
<1>6. TypeOK'
  BY <1>1, <1>2 DEF UpdateProducts, CatalogInv, TypeOK
<1> QED
  BY <1>4, <1>5, <1>6 DEF CatalogInv

LEMMA CreateCustomStep ==
  ASSUME CatalogInv, NEW c \in Call, NEW p \in Product, NEW d \in Distributor, CreateCustom(c, d, p)
  PROVE  CatalogInv'
<1> DEFINE row == [scope |-> "DISTRIBUTOR", owner |-> d, active |-> TRUE, maker |-> d,
                   promo |-> "PRIVATE"]
           k == [Idle EXCEPT !.pc = "enable", !.goal = "create", !.d = d, !.p = p]
<1>1. row \in Row /\ row.scope = "DISTRIBUTOR" /\ row.owner = d /\ row.maker = d
  BY DEF Row
<1>2. k \in CallState
  BY StartTypes DEF OfProduct, OnProduct, Goals
<1>3. k.pc = "enable" /\ k.d = d /\ k.p = p
  BY StartIs
<1>4. /\ product' = [product EXCEPT ![p] = row] /\ call' = [call EXCEPT ![c] = k]
      /\ product[p].scope = "none"
  BY DEF CreateCustom, Start, Scope
<1> HIDE DEF row, k
<1>5. product' \in [Product -> Row] /\ Grows(product, product')
  BY <1>1, <1>4, RowWritten DEF CatalogInv
<1>6. product'[p] = row
  BY <1>4 DEF CatalogInv, TypeOK
<1>7. CallOk(k, product')
  BY <1>1, <1>3, <1>6 DEF CallOk, May, OfProduct, OnProduct, Checked
<1>8. call' \in [Call -> CallState] /\ CallsOk'
  BY <1>2, <1>4, <1>5, <1>7, OneCall
<1>9. /\ UNCHANGED <<enabled, price, sub, crossed, forced, late, restored, dropped>>
      /\ crossed \subseteq Product /\ forced \subseteq Product
  BY DEF CreateCustom, history, CatalogInv, TypeOK
<1> QED
  BY <1>5, <1>8, <1>9, ProductStep

LEMMA CreateEnableStep ==
  ASSUME CatalogInv, NEW c \in Call, CreateEnable(c)
  PROVE  CatalogInv'
<1>1. product' = product /\ Grows(product, product')
  BY SameGrows DEF CatalogInv, CreateEnable
<1>2. /\ call[c].d \in Distributor /\ call[c].p \in Product /\ call[c] \in CallState
      /\ May(product, call[c].d, call[c].p)
  BY DEF CreateEnable, At, CatalogInv, TypeOK, CallsOk, CallOk, OfProduct, Checked
<1>3. call' \in [Call -> CallState] /\ CallsOk'
  <2>1. CASE End(c)
    BY <1>1, <2>1, EndOk
  <2>2. CASE Goto(c, "firstPrice")
    <3> DEFINE k == [call[c] EXCEPT !.pc = "firstPrice"]
    <3>1. k \in CallState /\ k.pc = "firstPrice" /\ k.d = call[c].d /\ k.p = call[c].p
      BY <1>2, GotoIs DEF OfProduct
    <3>2. call' = [call EXCEPT ![c] = k]
      BY <2>2 DEF Goto
    <3> HIDE DEF k
    <3>3. CallOk(k, product')
      BY <1>1, <1>2, <3>1 DEF CallOk, OfProduct, OnProduct, Checked
    <3> QED
      BY <1>1, <3>1, <3>2, <3>3, OneCall
  <2> QED
    BY <2>1, <2>2 DEF CreateEnable
<1>4. enabled' = enabled \cup {<<call[c].d, call[c].p>>}
  BY DEF CreateEnable, WithRow
<1>5. EnabledOk'
  BY <1>1, <1>2, <1>4 DEF CatalogInv, EnabledOk
<1>6. PricesOk' /\ SubsOk'
  BY <1>1, Unchanged DEF CreateEnable
<1>7. TypeOK'
  BY <1>1, <1>2, <1>3, <1>4 DEF CreateEnable, CatalogInv, TypeOK, history
<1> QED
  BY <1>3, <1>5, <1>6, <1>7 DEF CatalogInv

LEMMA HandlerSteps ==
  ASSUME CatalogInv, NEW c \in Call
  PROVE  /\ CountUses(c) => CatalogInv'
         /\ CreatePrice(c) => CatalogInv'
         /\ Enabled(c) => CatalogInv'
         /\ Duplicate(c) => CatalogInv'
         /\ NewPrice(c) => CatalogInv'
         /\ Priced(c) => CatalogInv'
         /\ SwitchPrice(c) => CatalogInv'
         /\ SwitchUse(c) => CatalogInv'
         /\ Die(c) => CatalogInv'
<1>0. call[c] \in CallState /\ CallOk(call[c], product)
  BY DEF CatalogInv, TypeOK, CallsOk
<1>1. ASSUME CountUses(c) PROVE CatalogInv'
  <2>1. call[c].p \in Product
    BY <1>0, <1>1 DEF CountUses, At, CallOk, OnProduct
  <2>2. CallOk([call[c] EXCEPT !.pc = "off"], product)
    BY <1>0, <2>1, GotoIs DEF CallOk, OfProduct, OnProduct, Checked
  <2> QED
    BY <1>1, <2>2, GotoStep DEF CountUses, OnProduct
<1>2. ASSUME CreatePrice(c) PROVE CatalogInv'
  BY <1>2, PriceStep DEF CreatePrice, At, NewRow
<1>3. ASSUME Enabled(c) PROVE CatalogInv'
  <2> DEFINE pc == AfterEnabled(call[c].goal)
  <2>1. /\ pc \in {"duplicate", "priced", "switch"}
        /\ (pc = "priced" => call[c].goal = "customer")
        /\ (pc = "switch" => call[c].goal = "switch")
        /\ call[c].d \in Distributor /\ call[c].p \in Product
        /\ May(product, call[c].d, call[c].p)
    BY <1>0, <1>3 DEF Enabled, AfterEnabled, At, CallOk, OfProduct, May
  <2>2. Goto(c, pc) /\ UNCHANGED <<product, enabled, price, sub, history>>
    BY <1>3 DEF Enabled
  <2> HIDE DEF pc
  <2>3. CallOk([call[c] EXCEPT !.pc = pc], product)
    BY <1>0, <2>1, GotoIs DEF CallOk, OfProduct, OnProduct, Checked
  <2> QED
    BY <2>1, <2>2, <2>3, GotoStep DEF OfProduct
<1>4. ASSUME Duplicate(c) PROVE CatalogInv'
  <2> DEFINE k == [call[c] EXCEPT !.pc = "newPrice", !.seen = Len(price)]
  <2>1. Len(price) \in Nat
    BY DEF CatalogInv, TypeOK
  <2>2. /\ k \in CallState /\ k.pc = "newPrice" /\ k.d = call[c].d /\ k.p = call[c].p
    BY <1>0, <2>1 DEF CallState
  <2>3. call' = [call EXCEPT ![c] = k]
    BY <1>4 DEF Duplicate
  <2> HIDE DEF k
  <2>4. CallOk(k, product)
    BY <1>0, <1>4, <2>2 DEF Duplicate, At, CallOk, OfProduct, OnProduct, Checked
  <2> QED
    BY <1>4, <2>2, <2>3, <2>4, ReadStep DEF Duplicate
<1>5. ASSUME NewPrice(c) PROVE CatalogInv'
  <2>1. call[c].seen \in Nat
    BY <1>0 DEF CallState
  <2> QED
    BY <1>5, <2>1, PriceStep DEF NewPrice, At, NewRow
<1>6. ASSUME Priced(c) PROVE CatalogInv'
  <2>1. /\ call[c].d \in Distributor /\ call[c].p \in Product /\ call[c].goal = "customer"
        /\ May(product, call[c].d, call[c].p)
    BY <1>0, <1>6 DEF Priced, At, CallOk, OfProduct, Checked
  <2>2. CallOk([call[c] EXCEPT !.pc = "newSub"], product)
    BY <1>0, <2>1, GotoIs DEF CallOk, OfProduct, OnProduct, Checked
  <2> QED
    BY <1>6, <2>2, GotoStep DEF Priced, OfProduct
<1>7. ASSUME Die(c) PROVE CatalogInv'
  <2>1. product' = product /\ Grows(product, product')
    BY <1>7, SameGrows DEF CatalogInv, Die
  <2>2. call' \in [Call -> CallState] /\ CallsOk'
    BY <1>7, <2>1, EndOk DEF Die
  <2>3. EnabledOk' /\ PricesOk' /\ SubsOk'
    BY <1>7, <2>1, Unchanged DEF Die
  <2>4. dropped' \subseteq Product
    BY <1>0, <1>7 DEF Die, At, CallOk, OfProduct, CatalogInv, TypeOK
  <2>5. TypeOK'
    BY <1>7, <2>2, <2>4 DEF Die, CatalogInv, TypeOK
  <2> QED
    BY <2>2, <2>3, <2>5 DEF CatalogInv
<1>8. ASSUME SwitchPrice(c) PROVE CatalogInv'
  <2>1. call[c].d \in Distributor /\ call[c].p \in Product /\ call[c].goal = "switch"
    BY <1>0, <1>8 DEF SwitchPrice, At, CallOk, OfProduct
  <2>2. CallOk([call[c] EXCEPT !.pc = "switchUse"], product)
    BY <1>0, <2>1, GotoIs DEF CallOk, OfProduct, OnProduct, Checked
  <2> QED
    BY <1>8, <2>2, GotoStep DEF SwitchPrice, OfProduct
<1>9. ASSUME SwitchUse(c) PROVE CatalogInv'
  <2> DEFINE pc == IF Scope(call[c].p) = "GLOBAL" THEN "enabled" ELSE "switch"
  <2>1. call[c].d \in Distributor /\ call[c].p \in Product /\ call[c].goal = "switch"
    BY <1>0, <1>9 DEF SwitchUse, At, CallOk, OfProduct
  <2>2. Scope(call[c].p) \in {"GLOBAL", "DISTRIBUTOR"}
    <3>1. product[call[c].p] \in Row
      BY <2>1 DEF CatalogInv, TypeOK
    <3> QED
      BY <1>9, <3>1, RowIs DEF SwitchUse, Existing, Scope
  <2>3. /\ pc \in {"enabled", "switch"} /\ May(product, call[c].d, call[c].p)
        /\ (pc = "enabled" => product[call[c].p].scope = "GLOBAL")
    BY <1>9, <2>2 DEF SwitchUse, OwnerOrGlobal, Scope, May
  <2>4. Goto(c, pc) /\ UNCHANGED <<product, enabled, price, sub, history>>
    BY <1>9 DEF SwitchUse
  <2> HIDE DEF pc
  <2>5. CallOk([call[c] EXCEPT !.pc = pc], product)
    BY <1>0, <2>1, <2>3, GotoIs DEF CallOk, OfProduct, OnProduct, Checked
  <2> QED
    BY <2>3, <2>4, <2>5, GotoStep DEF OfProduct
<1> QED
  BY <1>1, <1>2, <1>3, <1>4, <1>5, <1>6, <1>7, <1>8, <1>9

LEMMA SwitchReadIs ==
  ASSUME CatalogInv, NEW c \in Call, NEW p \in Product, NEW s \in 1 .. Len(sub),
         SwitchRead(c, s, p)
  PROVE  \E k \in CallState :
           /\ call' = [call EXCEPT ![c] = k] /\ call[c].pc = "idle"
           /\ k.pc = "switchPrice" /\ k.goal = "switch" /\ k.s = s
           /\ k.d = sub[s].d /\ k.d \in Distributor /\ k.p = p
<1> DEFINE k == [Idle EXCEPT !.pc = "switchPrice", !.goal = "switch", !.d = sub[s].d,
                             !.p = p, !.s = s]
<1>1. sub[s].d \in Distributor /\ s \in Nat
  <2>1. sub[s] \in Sub
    BY ElementOfSeq DEF CatalogInv, TypeOK
  <2> QED
    BY <2>1 DEF Sub
<1>2. k \in CallState
  BY <1>1 DEF Idle, CallState
<1>3. k.pc = "switchPrice" /\ k.goal = "switch" /\ k.s = s /\ k.d = sub[s].d /\ k.p = p
  BY DEF Idle
<1>4. call' = [call EXCEPT ![c] = k] /\ call[c].pc = "idle"
  BY DEF SwitchRead, At
<1> HIDE DEF k
<1> QED
  BY <1>1, <1>2, <1>3, <1>4

LEMMA SwitchReadStep ==
  ASSUME CatalogInv, NEW c \in Call, NEW p \in Product, NEW s \in 1 .. Len(sub),
         SwitchRead(c, s, p)
  PROVE  CatalogInv'
<1>1. PICK k \in CallState :
        /\ call' = [call EXCEPT ![c] = k] /\ k.pc = "switchPrice" /\ k.goal = "switch"
        /\ k.d \in Distributor /\ k.p = p
  BY SwitchReadIs
<1>2. CallOk(k, product)
  BY <1>1 DEF CallOk, OfProduct, OnProduct, Checked
<1> QED
  BY <1>1, <1>2, ReadStep DEF SwitchRead

\* A subscription is moved.
LEMMA SwitchIs ==
  ASSUME CatalogInv, SwitchesOk, NEW c \in Call, Switch(c)
  PROVE  /\ call[c].s \in 1 .. Len(sub) /\ sub' \in Seq(Sub) /\ Len(sub') = Len(sub)
         /\ \A i \in 1 .. Len(sub) : i # call[c].s => sub'[i] = sub[i]
         /\ sub'[call[c].s].d = call[c].d /\ sub'[call[c].s].p = call[c].p
         /\ sub[call[c].s].d = call[c].d
         /\ sub'[call[c].s].active <=> sub[call[c].s].active
         /\ May(product, call[c].d, call[c].p)
<1> DEFINE t == call[c].s
           row == [sub[t] EXCEPT !.p = call[c].p, !.by = "customer"]
<1>1. /\ call[c].goal = "switch" /\ call[c].p \in Product
      /\ May(product, call[c].d, call[c].p)
  BY DEF Switch, At, CatalogInv, CallsOk, CallOk, OfProduct, Checked
<1>2. t \in 1 .. Len(sub) /\ sub[t].d = call[c].d
  BY <1>1 DEF SwitchesOk
<1>3. sub[t] \in Sub /\ sub \in Seq(Sub)
  BY <1>2, ElementOfSeq DEF CatalogInv, TypeOK
<1>4. row \in Sub /\ row.d = sub[t].d /\ row.p = call[c].p /\ row.active = sub[t].active
  BY <1>1, <1>3 DEF Sub
<1>5. sub' = [sub EXCEPT ![t] = row]
  BY DEF Switch
<1> HIDE DEF t, row
<1>6. /\ sub' \in Seq(Sub) /\ Len(sub') = Len(sub)
      /\ \A j \in 1 .. Len(sub) : sub'[j] = IF j = t THEN row ELSE sub[j]
  BY <1>2, <1>3, <1>4, <1>5, ExceptSeq
<1>7. sub'[t] = row
  BY <1>2, <1>6
<1>8. sub'[t].active <=> sub[t].active
  BY <1>4, <1>7
<1> QED
  BY <1>1, <1>2, <1>4, <1>6, <1>7, <1>8 DEF t

LEMMA SwitchStep ==
  ASSUME CatalogInv, SwitchesOk, NEW c \in Call, Switch(c)
  PROVE  CatalogInv'
<1> DEFINE t == call[c].s
<1>1. /\ t \in 1 .. Len(sub) /\ sub' \in Seq(Sub) /\ Len(sub') = Len(sub)
      /\ \A i \in 1 .. Len(sub) : i # t => sub'[i] = sub[i]
      /\ May(product, sub'[t].d, sub'[t].p)
  BY SwitchIs
<1> HIDE DEF t
<1>2. product' = product /\ Grows(product, product')
  BY SameGrows DEF CatalogInv, Switch
<1>3. call' \in [Call -> CallState] /\ CallsOk'
  BY <1>2, EndOk DEF Switch
<1>4. EnabledOk' /\ PricesOk'
  BY <1>2, Unchanged DEF Switch
<1>5. SubsOk'
  BY <1>1, <1>2 DEF CatalogInv, SubsOk
<1>6. late' \subseteq 1 .. Len(sub')
  <2>1. late \subseteq 1 .. Len(sub) /\ late' \subseteq late \cup {t}
    BY DEF Switch, CatalogInv, TypeOK, t
  <2> QED
    BY <1>1, <2>1
<1>7. TypeOK'
  BY <1>1, <1>3, <1>6 DEF CatalogInv, TypeOK, Switch
<1> QED
  BY <1>3, <1>4, <1>5, <1>7 DEF CatalogInv

(***************************************************************************)
(* A subscription keeps its distributor, and a switch its subscription.    *)
(***************************************************************************)
LEMMA RowsKeepDistributor ==
  ASSUME CatalogInv, SwitchesOk, [Next]_vars
  PROVE  /\ Len(sub) \in Nat /\ Len(sub') \in Nat /\ Len(sub) <= Len(sub')
         /\ \A i \in 1 .. Len(sub) : sub'[i].d = sub[i].d
<1>0. sub \in Seq(Sub) /\ Len(sub) \in Nat
  BY DEF CatalogInv, TypeOK
<1>1. CASE sub' = sub
  BY <1>0, <1>1
<1>2. ASSUME NEW c \in Call, NewSub(c)
      PROVE  /\ Len(sub') \in Nat /\ Len(sub) <= Len(sub')
             /\ \A i \in 1 .. Len(sub) : sub'[i].d = sub[i].d
  <2>1. PICK active \in BOOLEAN :
          sub' = Append(sub, FirstSub(call[c].d, call[c].p, active, call[c].goal))
    BY <1>2 DEF NewSub, FirstSub
  <2>2. FirstSub(call[c].d, call[c].p, active, call[c].goal) \in Sub
    BY <1>2, FirstSubIs DEF NewSub, At, CatalogInv, CallsOk, CallOk, OfProduct
  <2> QED
    BY <1>0, <2>1, <2>2, AppendProperties
<1>3. ASSUME NEW c \in Call, Switch(c)
      PROVE  /\ Len(sub') \in Nat /\ Len(sub) <= Len(sub')
             /\ \A i \in 1 .. Len(sub) : sub'[i].d = sub[i].d
  BY <1>0, <1>3, SwitchIs
<1>4. ASSUME NEW j \in 1 .. Len(sub), ChangeSub(j)
      PROVE  /\ Len(sub') \in Nat /\ Len(sub) <= Len(sub')
             /\ \A i \in 1 .. Len(sub) : sub'[i].d = sub[i].d
  <2> DEFINE row == [sub[j] EXCEPT !.active = ~@]
  <2>1. sub[j] \in Sub
    BY <1>0, ElementOfSeq
  <2>2. row \in Sub /\ row.d = sub[j].d
    BY <2>1, SubToggled
  <2>3. sub' = [sub EXCEPT ![j] = row]
    BY <1>4 DEF ChangeSub
  <2> HIDE DEF row
  <2>4. Len(sub') = Len(sub) /\ \A i \in 1 .. Len(sub) : sub'[i] = IF i = j THEN row ELSE sub[i]
    BY <1>0, <2>2, <2>3, ExceptSeq
  <2> QED
    BY <1>0, <2>2, <2>4
<1>5. ASSUME NEW p \in Product,
             \/ CreateGlobal(p) \/ UpdateGlobal(p)
             \/ \E c \in Call : DeactivateGlobal(c, p) \/ ReviewRead(c, p) \/ PromoteRead(c, p)
             \/ \E d \in Distributor :
                  \/ UpdateProducts(d, p)
                  \/ \E c \in Call :
                       \/ DeactivateCustom(c, d, p) \/ CreateCustom(c, d, p)
                       \/ RequestPromotion(c, d, p) \/ CreatePricing(c, d, p)
                       \/ Subscribe(c, d, p) \/ Sell(c, d, p)
      PROVE  sub' = sub
  BY <1>5 DEF CreateGlobal, UpdateGlobal, DeactivateGlobal, ReviewRead, PromoteRead,
       UpdateProducts, DeactivateCustom, CreateCustom, RequestPromotion, CreatePricing,
       Subscribe, Sell, UseProduct
<1>6. ASSUME NEW c \in Call,
             \/ CountUses(c) \/ Deactivate(c) \/ CreateEnable(c) \/ CreatePrice(c)
             \/ Review(c) \/ Promote(c) \/ Enabled(c) \/ Duplicate(c)
             \/ NewPrice(c) \/ Priced(c) \/ Die(c) \/ SwitchPrice(c) \/ SwitchUse(c)
      PROVE  sub' = sub
  BY <1>6 DEF CountUses, Deactivate, CreateEnable, CreatePrice, Review, Promote, Enabled,
       Duplicate, NewPrice, Priced, Die, SwitchPrice, SwitchUse
<1>7. ASSUME \/ \E i \in 1 .. Len(price) : UpdatePricing(i)
             \/ \E s \in 1 .. Len(sub), c \in Call, p \in Product : SwitchRead(c, s, p)
             \/ UNCHANGED vars
      PROVE  sub' = sub
  BY <1>7 DEF UpdatePricing, SwitchRead, vars
<1> QED
  BY <1>0, <1>1, <1>2, <1>3, <1>4, <1>5, <1>6, <1>7 DEF Next

\* A handler is as it was, or goes on as k: with what it had, or with no switch, or
\* with the switch it has just read.
GoesOn(k, x) ==
  \/ k.goal # "switch"
  \/ k.goal = x.goal /\ k.s = x.s /\ k.d = x.d
  \/ k.s \in 1 .. Len(sub) /\ sub[k.s].d = k.d

OneGoesOn == \/ call' = call
             \/ \E c \in Call, k \in CallState :
                  call' = [call EXCEPT ![c] = k] /\ GoesOn(k, call[c])

LEMMA StartGoesOn ==
  ASSUME CatalogInv, NEW c \in Call, NEW pc \in OfProduct \cup OnProduct, NEW goal \in Goals,
         NEW d \in Distributor \cup {"none"}, NEW p \in Product, Start(c, pc, goal, d, p)
  PROVE  OneGoesOn
<1> DEFINE k == [Idle EXCEPT !.pc = pc, !.goal = goal, !.d = d, !.p = p]
<1>1. k \in CallState
  BY StartTypes
<1>2. k.goal = goal
  BY StartIs
<1>3. call' = [call EXCEPT ![c] = k]
  BY DEF Start
<1> HIDE DEF k
<1>4. GoesOn(k, call[c])
  BY <1>2 DEF GoesOn, Goals
<1> QED
  BY <1>1, <1>3, <1>4 DEF OneGoesOn

LEMMA GotoGoesOn ==
  ASSUME CatalogInv, NEW c \in Call, NEW pc \in OfProduct \cup OnProduct, Goto(c, pc)
  PROVE  OneGoesOn
<1> DEFINE k == [call[c] EXCEPT !.pc = pc]
<1>1. k \in CallState /\ k.goal = call[c].goal /\ k.s = call[c].s /\ k.d = call[c].d
  BY GotoIs DEF CatalogInv, TypeOK
<1>2. call' = [call EXCEPT ![c] = k]
  BY DEF Goto
<1> HIDE DEF k
<1> QED
  BY <1>1, <1>2 DEF OneGoesOn, GoesOn

LEMMA EndGoesOn ==
  ASSUME NEW c \in Call, End(c)
  PROVE  OneGoesOn
<1>1. Idle \in CallState /\ Idle.goal # "switch"
  BY IdleOk DEF Idle
<1> QED
  BY <1>1 DEF End, OneGoesOn, GoesOn

LEMMA ReviewGoesOn ==
  ASSUME CatalogInv, NEW c \in Call, NEW p \in Product,
         ReviewRead(c, p) \/ \E d \in Distributor : RequestPromotion(c, d, p)
  PROVE  OneGoesOn
<1>1. CASE ReviewRead(c, p)
  <2>1. PICK promo \in {"REJECTED", "PRIVATE"} :
          call' = [call EXCEPT ![c] = [Idle EXCEPT !.pc = "review", !.goal = "review",
                                                   !.p = p, !.promo = promo]]
    BY <1>1 DEF ReviewRead
  <2> DEFINE k == [Idle EXCEPT !.pc = "review", !.goal = "review", !.p = p, !.promo = promo]
  <2>2. k \in CallState /\ k.goal = "review"
    BY DEF Idle, CallState
  <2>3. call' = [call EXCEPT ![c] = k]
    BY <2>1
  <2> HIDE DEF k
  <2> QED
    BY <2>2, <2>3 DEF OneGoesOn, GoesOn
<1>2. CASE \E d \in Distributor : RequestPromotion(c, d, p)
  <2>1. PICK d \in Distributor : RequestPromotion(c, d, p)
    BY <1>2
  <2> DEFINE k == [Idle EXCEPT !.pc = "review", !.goal = "review", !.d = d, !.p = p,
                               !.promo = "PENDING_REVIEW"]
  <2>2. k \in CallState /\ k.goal = "review"
    BY DEF Idle, CallState
  <2>3. call' = [call EXCEPT ![c] = k]
    BY <2>1 DEF RequestPromotion
  <2> HIDE DEF k
  <2> QED
    BY <2>2, <2>3 DEF OneGoesOn, GoesOn
<1> QED
  BY <1>1, <1>2

LEMMA HandlersGoOn ==
  ASSUME CatalogInv, [Next]_vars
  PROVE  OneGoesOn
<1>1. ASSUME NEW p \in Product,
             \/ CreateGlobal(p) \/ UpdateGlobal(p)
             \/ \E d \in Distributor : UpdateProducts(d, p)
      PROVE  OneGoesOn
  BY <1>1 DEF CreateGlobal, UpdateGlobal, UpdateProducts, OneGoesOn
<1>2. ASSUME NEW p \in Product, NEW c \in Call, NEW d \in Distributor,
             \/ DeactivateCustom(c, d, p) \/ CreateCustom(c, d, p) \/ CreatePricing(c, d, p)
             \/ Subscribe(c, d, p) \/ Sell(c, d, p)
      PROVE  OneGoesOn
  <2>1. PICK pc \in {"count", "enable", "enabled", "duplicate", "priced", "newSub"},
             goal \in {"off", "create", "price", "customer", "distributor"} :
          Start(c, pc, goal, d, p)
    BY <1>2 DEF DeactivateCustom, CreateCustom, CreatePricing, Subscribe, Sell, UseProduct
  <2> QED
    BY <2>1, StartGoesOn DEF OfProduct, OnProduct, Goals
<1>3. ASSUME NEW p \in Product, NEW c \in Call, DeactivateGlobal(c, p) \/ PromoteRead(c, p)
      PROVE  OneGoesOn
  BY <1>3, StartGoesOn DEF DeactivateGlobal, PromoteRead, OnProduct, Goals
<1>4. ASSUME NEW p \in Product, NEW c \in Call,
             ReviewRead(c, p) \/ \E d \in Distributor : RequestPromotion(c, d, p)
      PROVE  OneGoesOn
  BY <1>4, ReviewGoesOn
<1>5. ASSUME NEW c \in Call,
             \/ Deactivate(c) \/ CreatePrice(c) \/ Review(c) \/ Promote(c) \/ NewPrice(c)
             \/ NewSub(c) \/ Die(c) \/ Switch(c)
             \/ CreateEnable(c) /\ End(c)
      PROVE  OneGoesOn
  BY <1>5, EndGoesOn DEF Deactivate, CreatePrice, Review, Promote, NewPrice, NewSub, Die, Switch
<1>6. ASSUME NEW c \in Call,
             \/ CountUses(c) \/ Enabled(c) \/ Priced(c) \/ SwitchPrice(c) \/ SwitchUse(c)
             \/ CreateEnable(c) /\ Goto(c, "firstPrice")
      PROVE  OneGoesOn
  <2>1. PICK pc \in {"off", "duplicate", "priced", "newSub", "switchUse", "enabled", "switch",
                     "firstPrice"} : Goto(c, pc)
    BY <1>6 DEF CountUses, Enabled, AfterEnabled, Priced, SwitchPrice, SwitchUse
  <2> QED
    BY <2>1, GotoGoesOn DEF OfProduct, OnProduct
<1>7. ASSUME NEW c \in Call, Duplicate(c) PROVE OneGoesOn
  <2> DEFINE k == [call[c] EXCEPT !.pc = "newPrice", !.seen = Len(price)]
  <2>1. call[c] \in CallState /\ Len(price) \in Nat
    BY DEF CatalogInv, TypeOK
  <2>2. k \in CallState /\ k.goal = call[c].goal /\ k.s = call[c].s /\ k.d = call[c].d
    BY <2>1 DEF CallState
  <2>3. call' = [call EXCEPT ![c] = k]
    BY <1>7 DEF Duplicate
  <2> HIDE DEF k
  <2> QED
    BY <2>2, <2>3 DEF OneGoesOn, GoesOn
<1>8. ASSUME NEW c \in Call, NEW p \in Product, NEW s \in 1 .. Len(sub), SwitchRead(c, s, p)
      PROVE  OneGoesOn
  <2>1. PICK k \in CallState :
          call' = [call EXCEPT ![c] = k] /\ k.s = s /\ k.d = sub[s].d
    BY <1>8, SwitchReadIs
  <2> QED
    BY <2>1 DEF OneGoesOn, GoesOn
<1>9. CASE \/ \E i \in 1 .. Len(price) : UpdatePricing(i)
           \/ \E s \in 1 .. Len(sub) : ChangeSub(s)
           \/ UNCHANGED vars
  BY <1>9 DEF UpdatePricing, ChangeSub, vars, OneGoesOn
<1>10. \A c \in Call : CreateEnable(c) => Goto(c, "firstPrice") \/ End(c)
  BY DEF CreateEnable
<1> QED
  BY <1>1, <1>2, <1>3, <1>4, <1>5, <1>6, <1>7, <1>8, <1>9, <1>10 DEF Next

LEMMA SwitchesKept ==
  ASSUME CatalogInv, SwitchesOk, [Next]_vars
  PROVE  SwitchesOk'
<1>1. /\ Len(sub) \in Nat /\ Len(sub') \in Nat /\ Len(sub) <= Len(sub')
      /\ \A i \in 1 .. Len(sub) : sub'[i].d = sub[i].d
  BY RowsKeepDistributor
<1>2. ASSUME NEW x \in Call, call'[x].goal = "switch"
      PROVE  call'[x].s \in 1 .. Len(sub) /\ sub[call'[x].s].d = call'[x].d
  <2>1. CASE call'[x] = call[x]
    BY <1>2, <2>1 DEF SwitchesOk
  <2>2. CASE GoesOn(call'[x], call[x])
    BY <1>2, <2>2 DEF SwitchesOk, GoesOn
  <2>3. call'[x] = call[x] \/ GoesOn(call'[x], call[x])
    <3>1. CASE call' = call
      BY <3>1
    <3>2. CASE \E c \in Call, k \in CallState :
                 call' = [call EXCEPT ![c] = k] /\ GoesOn(k, call[c])
      <4>1. PICK c \in Call, k \in CallState :
              call' = [call EXCEPT ![c] = k] /\ GoesOn(k, call[c])
        BY <3>2
      <4>2. call'[x] = IF x = c THEN k ELSE call[x]
        BY <4>1 DEF CatalogInv, TypeOK
      <4> QED
        BY <4>1, <4>2
    <3> QED
      BY <3>1, <3>2, HandlersGoOn DEF OneGoesOn
  <2> QED
    BY <2>1, <2>2, <2>3
<1>3. ASSUME NEW x \in Call, call'[x].goal = "switch"
      PROVE  call'[x].s \in 1 .. Len(sub') /\ sub'[call'[x].s].d = call'[x].d
  BY <1>1, <1>2, <1>3
<1> QED
  BY <1>3 DEF SwitchesOk

(***************************************************************************)
(* The theorems.                                                           *)
(***************************************************************************)
LEMMA InvKept == CatalogInv /\ SwitchesOk /\ [Next]_vars => CatalogInv' /\ SwitchesOk'
<1> SUFFICES ASSUME CatalogInv, SwitchesOk, [Next]_vars PROVE CatalogInv'
  BY SwitchesKept
<1>1. ASSUME NEW p \in Product,
             \/ CreateGlobal(p) \/ UpdateGlobal(p)
             \/ \E c \in Call : DeactivateGlobal(c, p) \/ ReviewRead(c, p) \/ PromoteRead(c, p)
      PROVE  CatalogInv'
  BY <1>1, ProductWrites, StartSteps
<1>2. ASSUME NEW p \in Product, NEW d \in Distributor,
             \/ UpdateProducts(d, p)
             \/ \E c \in Call : \/ DeactivateCustom(c, d, p) \/ CreateCustom(c, d, p)
                                \/ RequestPromotion(c, d, p) \/ CreatePricing(c, d, p)
                                \/ Subscribe(c, d, p) \/ Sell(c, d, p)
      PROVE  CatalogInv'
  BY <1>2, UpdateProductsStep, DistributorSteps, CreateCustomStep
<1>3. ASSUME NEW c \in Call,
             \/ CountUses(c) \/ Deactivate(c) \/ CreateEnable(c) \/ CreatePrice(c)
             \/ Review(c) \/ Promote(c) \/ Enabled(c) \/ Duplicate(c)
             \/ NewPrice(c) \/ Priced(c) \/ NewSub(c) \/ Die(c)
             \/ SwitchPrice(c) \/ SwitchUse(c) \/ Switch(c)
      PROVE  CatalogInv'
  BY <1>3, HandlerWrites, HandlerSteps, CreateEnableStep, NewSubStep, SwitchStep
<1>4. ASSUME NEW i \in 1 .. Len(price), UpdatePricing(i) PROVE CatalogInv'
  BY <1>4, UpdatePricingStep
<1>5. ASSUME NEW i \in 1 .. Len(sub), ChangeSub(i) PROVE CatalogInv'
  BY <1>5, ChangeSubStep
<1>6. ASSUME NEW i \in 1 .. Len(sub), NEW c \in Call, NEW p \in Product, SwitchRead(c, i, p)
      PROVE  CatalogInv'
  BY <1>6, SwitchReadStep
<1>7. CASE UNCHANGED vars
  <2>1. product' = product /\ Grows(product, product')
    BY <1>7, SameGrows DEF CatalogInv, vars
  <2>2. CallsOk' /\ EnabledOk' /\ PricesOk' /\ SubsOk'
    BY <1>7, <2>1, Unchanged DEF vars
  <2> QED
    BY <1>7, <2>2 DEF vars, CatalogInv, TypeOK
<1> QED
  BY <1>1, <1>2, <1>3, <1>4, <1>5, <1>6, <1>7 DEF Next

LEMMA InvInit == Init => CatalogInv /\ SwitchesOk
<1> SUFFICES ASSUME Init PROVE CatalogInv /\ SwitchesOk
  OBVIOUS
<1>1. NoRow \in Row
  BY DEF NoRow, Row
<1>2. TypeOK
  BY <1>1, IdleOk DEF Init, TypeOK
<1>3. CallsOk
  BY IdleOk DEF Init, CallsOk
<1>4. EnabledOk /\ PricesOk /\ SubsOk
  BY DEF Init, EnabledOk, PricesOk, SubsOk
<1>5. SwitchesOk
  BY DEF Init, SwitchesOk, Idle
<1> QED
  BY <1>2, <1>3, <1>4, <1>5 DEF CatalogInv

LEMMA InvHolds == Spec => [](CatalogInv /\ SwitchesOk)
  BY InvInit, InvKept, PTL DEF Spec

\* Types, for any products, distributors, handlers and bounds.
THEOREM TypeCorrect == Spec => []TypeOK
<1>1. CatalogInv => TypeOK
  BY DEF CatalogInv
<1> QED
  BY <1>1, InvHolds, PTL

\* A private product is enabled, priced and subscribed to with its owner alone,
\* although the check and the writes are apart.
THEOREM PrivateForGood == Spec => []PrivateStaysPrivate
<1>1. CatalogInv => PrivateStaysPrivate
  BY DEF CatalogInv, EnabledOk, PricesOk, SubsOk, May, Scope, PrivateStaysPrivate
<1> QED
  BY <1>1, InvHolds, PTL

(***************************************************************************)
(* Prices and makers.  A price row remembers how many there were when its  *)
(* handler looked (seen); those it looked at are Silent, or have been      *)
(* switched on again since.  A maker has his product enabled, or gave it   *)
(* up, or is still at it.                                                  *)
(***************************************************************************)
Silent(d, p, n, rows, again) ==
  /\ n \in Nat /\ n <= Len(rows)
  /\ \A i \in 1 .. n : rows[i].d = d /\ rows[i].p = p => ~rows[i].active \/ i \in again

PricesQuiet ==
  \A j \in 1 .. Len(price) :
    /\ price[j].seen < j
    /\ Silent(price[j].d, price[j].p, price[j].seen, price, restored)

CallsQuiet ==
  \A c \in Call : call[c].pc = "newPrice" =>
    Silent(call[c].d, call[c].p, call[c].seen, price, restored)

MakersOk ==
  \A p \in Product : product[p].maker # "none" =>
    \/ <<product[p].maker, p>> \in enabled \/ p \in dropped
    \/ \E c \in Call : call[c].pc = "enable" /\ call[c].p = p

HistoryInv == CatalogInv /\ SwitchesOk /\ PricesQuiet /\ CallsQuiet /\ MakersOk

LEMMA QuietFrame ==
  ASSUME HistoryInv, UNCHANGED <<price, restored>>,
         \A x \in Call : call'[x].pc = "newPrice" => call'[x] = call[x]
  PROVE  PricesQuiet' /\ CallsQuiet'
  BY DEF HistoryInv, PricesQuiet, CallsQuiet

LEMMA MakerFrame ==
  ASSUME HistoryInv, enabled \subseteq enabled', dropped \subseteq dropped',
         \A p \in Product : product'[p].maker \in {product[p].maker, "none"},
         \A x \in Call : call[x].pc = "enable" => call'[x] = call[x]
  PROVE  MakersOk'
<1> SUFFICES ASSUME NEW p \in Product, product'[p].maker # "none",
                    product[p].maker = product'[p].maker
             PROVE  \/ <<product[p].maker, p>> \in enabled' \/ p \in dropped'
                    \/ \E c \in Call : call'[c].pc = "enable" /\ call'[c].p = p
  BY DEF MakersOk
<1>1. CASE \E c \in Call : call[c].pc = "enable" /\ call[c].p = p
  BY <1>1
<1>2. CASE <<product[p].maker, p>> \in enabled \/ p \in dropped
  BY <1>2
<1> QED
  BY <1>1, <1>2 DEF HistoryInv, MakersOk

\* A handler that neither creates a product nor a price goes on.
LEMMA CallFrame ==
  ASSUME HistoryInv, NEW c \in Call, NEW k, call' = [call EXCEPT ![c] = k],
         call[c].pc # "enable", k.pc # "newPrice"
  PROVE  /\ \A x \in Call : call'[x].pc = "newPrice" => call'[x] = call[x]
         /\ \A x \in Call : call[x].pc = "enable" => call'[x] = call[x]
  BY DEF HistoryInv, CatalogInv, TypeOK

LEMMA FrameKeeps ==
  ASSUME HistoryInv, UNCHANGED <<price, restored, enabled, dropped>>,
         \A p \in Product : product'[p].maker = product[p].maker,
         \/ call' = call
         \/ \E c \in Call, k \in CallState :
              /\ call' = [call EXCEPT ![c] = k]
              /\ call[c].pc # "enable" /\ k.pc # "newPrice"
  PROVE  PricesQuiet' /\ CallsQuiet' /\ MakersOk'
<1>1. /\ \A x \in Call : call'[x].pc = "newPrice" => call'[x] = call[x]
      /\ \A x \in Call : call[x].pc = "enable" => call'[x] = call[x]
  BY CallFrame
<1> QED
  BY <1>1, QuietFrame, MakerFrame

\* The four ways in which a handler goes on.
LEMMA StartFrame ==
  ASSUME HistoryInv, NEW c \in Call, NEW pc \in (OfProduct \cup OnProduct) \ {"newPrice"},
         NEW goal \in Goals,
         NEW d \in Distributor \cup {"none"}, NEW p \in Product, Start(c, pc, goal, d, p)
  PROVE  \E x \in Call, k \in CallState :
           /\ call' = [call EXCEPT ![x] = k] /\ call[x].pc # "enable" /\ k.pc # "newPrice"
<1> DEFINE k == [Idle EXCEPT !.pc = pc, !.goal = goal, !.d = d, !.p = p]
<1>1. k \in CallState
  BY StartTypes
<1>2. k.pc = pc
  BY StartIs
<1>3. call' = [call EXCEPT ![c] = k] /\ call[c].pc = "idle"
  BY DEF Start, At
<1> HIDE DEF k
<1> QED
  BY <1>1, <1>2, <1>3

LEMMA GotoFrame ==
  ASSUME HistoryInv, NEW c \in Call, NEW pc \in (OfProduct \cup OnProduct) \ {"newPrice"},
         Goto(c, pc), call[c].pc # "enable"
  PROVE  \E x \in Call, k \in CallState :
           /\ call' = [call EXCEPT ![x] = k] /\ call[x].pc # "enable" /\ k.pc # "newPrice"
<1> DEFINE k == [call[c] EXCEPT !.pc = pc]
<1>1. k \in CallState /\ k.pc = pc
  BY GotoIs DEF HistoryInv, CatalogInv, TypeOK
<1>2. call' = [call EXCEPT ![c] = k]
  BY DEF Goto
<1> HIDE DEF k
<1> QED
  BY <1>1, <1>2

LEMMA EndFrame ==
  ASSUME HistoryInv, NEW c \in Call, End(c), call[c].pc # "enable"
  PROVE  \E x \in Call, k \in CallState :
           /\ call' = [call EXCEPT ![x] = k] /\ call[x].pc # "enable" /\ k.pc # "newPrice"
<1>1. Idle \in CallState /\ Idle.pc # "newPrice"
  BY IdleOk DEF Idle
<1> QED
  BY <1>1 DEF End

LEMMA ReviewFrame ==
  ASSUME HistoryInv, NEW c \in Call, NEW p \in Product,
         ReviewRead(c, p) \/ \E d \in Distributor : RequestPromotion(c, d, p)
  PROVE  \E x \in Call, k \in CallState :
           /\ call' = [call EXCEPT ![x] = k] /\ call[x].pc # "enable" /\ k.pc # "newPrice"
<1>0. call[c].pc = "idle"
  BY DEF ReviewRead, RequestPromotion, At
<1>1. CASE ReviewRead(c, p)
  <2>1. PICK promo \in {"REJECTED", "PRIVATE"} :
          call' = [call EXCEPT ![c] = [Idle EXCEPT !.pc = "review", !.goal = "review",
                                                   !.p = p, !.promo = promo]]
    BY <1>1 DEF ReviewRead
  <2> DEFINE k == [Idle EXCEPT !.pc = "review", !.goal = "review", !.p = p, !.promo = promo]
  <2>2. k \in CallState /\ k.pc = "review"
    BY DEF Idle, CallState
  <2>3. call' = [call EXCEPT ![c] = k]
    BY <2>1
  <2> HIDE DEF k
  <2> QED
    BY <1>0, <2>2, <2>3
<1>2. CASE \E d \in Distributor : RequestPromotion(c, d, p)
  <2>1. PICK d \in Distributor : RequestPromotion(c, d, p)
    BY <1>2
  <2> DEFINE k == [Idle EXCEPT !.pc = "review", !.goal = "review", !.d = d, !.p = p,
                               !.promo = "PENDING_REVIEW"]
  <2>2. k \in CallState /\ k.pc = "review"
    BY DEF Idle, CallState
  <2>3. call' = [call EXCEPT ![c] = k]
    BY <2>1 DEF RequestPromotion
  <2> HIDE DEF k
  <2> QED
    BY <1>0, <2>2, <2>3
<1> QED
  BY <1>1, <1>2

(***************************************************************************)
(* The steps that concern neither prices nor makers.                       *)
(***************************************************************************)
LEMMA GlobalFrame ==
  ASSUME HistoryInv, NEW p \in Product, CreateGlobal(p) \/ UpdateGlobal(p)
  PROVE  PricesQuiet' /\ CallsQuiet' /\ MakersOk'
<1>0. product \in [Product -> Row]
  BY DEF HistoryInv, CatalogInv, TypeOK
<1>1. UNCHANGED <<enabled, price, call, restored, dropped>>
  BY DEF CreateGlobal, UpdateGlobal, history
<1>2. \A q \in Product : product'[q].maker \in {product[q].maker, "none"}
  <2>1. CASE CreateGlobal(p)
    <3>1. PICK active \in BOOLEAN :
            product' = [product EXCEPT ![p] = [NoRow EXCEPT !.scope = "GLOBAL", !.active = active]]
      BY <2>1 DEF CreateGlobal
    <3>2. [NoRow EXCEPT !.scope = "GLOBAL", !.active = active].maker = "none"
      BY DEF NoRow
    <3> QED
      BY <1>0, <3>1, <3>2
  <2>2. CASE UpdateGlobal(p)
    <3>1. PICK active \in BOOLEAN : product' = [product EXCEPT ![p] = Switched(product[p], active)]
      BY <2>2 DEF UpdateGlobal, Switched
    <3>2. Switched(product[p], active).maker = product[p].maker
      BY <1>0 DEF Switched, Row
    <3> QED
      BY <1>0, <3>1, <3>2
  <2> QED
    BY <2>1, <2>2
<1>3. PricesQuiet' /\ CallsQuiet'
  BY <1>1, QuietFrame
<1> QED
  BY <1>1, <1>2, <1>3, MakerFrame

LEMMA ReadFrame ==
  ASSUME HistoryInv, NEW c \in Call, NEW p \in Product,
         DeactivateGlobal(c, p) \/ ReviewRead(c, p) \/ PromoteRead(c, p)
  PROVE  PricesQuiet' /\ CallsQuiet' /\ MakersOk'
<1> DEFINE Frame == \E x \in Call, k \in CallState :
             /\ call' = [call EXCEPT ![x] = k] /\ call[x].pc # "enable" /\ k.pc # "newPrice"
           Same == UNCHANGED <<price, restored, enabled, dropped>>
<1>1. CASE DeactivateGlobal(c, p) \/ PromoteRead(c, p)
  <2>1. Frame
    BY <1>1, StartFrame DEF DeactivateGlobal, PromoteRead, OnProduct, Goals
  <2>2. Same /\ product' = product
    BY <1>1 DEF DeactivateGlobal, PromoteRead, history
  <2> QED
    BY <2>1, <2>2, FrameKeeps
<1>2. CASE ReviewRead(c, p)
  <2>1. Frame
    BY <1>2, ReviewFrame
  <2>2. Same /\ product' = product
    BY <1>2 DEF ReviewRead, history
  <2> QED
    BY <2>1, <2>2, FrameKeeps
<1> QED
  BY <1>1, <1>2

LEMMA OfferFrame ==
  ASSUME HistoryInv, NEW c \in Call, NEW p \in Product, NEW d \in Distributor,
         \/ DeactivateCustom(c, d, p) \/ RequestPromotion(c, d, p)
         \/ CreatePricing(c, d, p) \/ Subscribe(c, d, p) \/ Sell(c, d, p)
  PROVE  PricesQuiet' /\ CallsQuiet' /\ MakersOk'
<1> DEFINE Frame == \E x \in Call, k \in CallState :
             /\ call' = [call EXCEPT ![x] = k] /\ call[x].pc # "enable" /\ k.pc # "newPrice"
           Same == UNCHANGED <<price, restored, enabled, dropped>>
<1>1. CASE DeactivateCustom(c, d, p)
  <2>1. Frame
    BY <1>1, StartFrame DEF DeactivateCustom, OnProduct, Goals
  <2>2. Same /\ product' = product
    BY <1>1 DEF DeactivateCustom, history
  <2> QED
    BY <2>1, <2>2, FrameKeeps
<1>2. CASE RequestPromotion(c, d, p)
  <2>1. Frame
    BY <1>2, ReviewFrame
  <2>2. Same /\ product' = product
    BY <1>2 DEF RequestPromotion, history
  <2> QED
    BY <2>1, <2>2, FrameKeeps
<1>3. CASE CreatePricing(c, d, p) \/ Subscribe(c, d, p) \/ Sell(c, d, p)
  <2>1. PICK pc \in {"enabled", "duplicate", "priced", "newSub"},
             goal \in {"price", "customer", "distributor"} : Start(c, pc, goal, d, p)
    BY <1>3 DEF CreatePricing, Subscribe, Sell, UseProduct
  <2>2. Frame
    BY <2>1, StartFrame DEF OfProduct, Goals
  <2>3. Same /\ product' = product
    BY <1>3 DEF CreatePricing, Subscribe, Sell, UseProduct, history
  <2> QED
    BY <2>2, <2>3, FrameKeeps
<1> QED
  BY <1>1, <1>2, <1>3

LEMMA SwitchFrame ==
  ASSUME HistoryInv, NEW c \in Call, NEW p \in Product, NEW s \in 1 .. Len(sub),
         SwitchRead(c, s, p)
  PROVE  PricesQuiet' /\ CallsQuiet' /\ MakersOk'
<1>1. \E x \in Call, k \in CallState :
        /\ call' = [call EXCEPT ![x] = k] /\ call[x].pc # "enable" /\ k.pc # "newPrice"
  <2>1. PICK k \in CallState :
          call' = [call EXCEPT ![c] = k] /\ call[c].pc = "idle" /\ k.pc = "switchPrice"
    BY SwitchReadIs DEF HistoryInv
  <2> QED
    BY <2>1
<1>2. UNCHANGED <<price, restored, enabled, dropped, product>>
  BY DEF SwitchRead, history
<1> QED
  BY <1>1, <1>2, FrameKeeps

LEMMA HandlerFrame ==
  ASSUME HistoryInv, NEW c \in Call,
         \/ CountUses(c) \/ Deactivate(c) \/ Review(c) \/ Promote(c) \/ Enabled(c)
         \/ Priced(c) \/ NewSub(c) \/ SwitchPrice(c) \/ SwitchUse(c) \/ Switch(c)
  PROVE  PricesQuiet' /\ CallsQuiet' /\ MakersOk'
<1> DEFINE Frame == \E x \in Call, k \in CallState :
             /\ call' = [call EXCEPT ![x] = k] /\ call[x].pc # "enable" /\ k.pc # "newPrice"
           Same == UNCHANGED <<price, restored, enabled, dropped>>
           Makers == \A q \in Product : product'[q].maker = product[q].maker
<1>0. product \in [Product -> Row] /\ \A q \in Product : product[q] \in Row
  BY DEF HistoryInv, CatalogInv, TypeOK
<1>1. CASE CountUses(c) \/ Enabled(c) \/ Priced(c) \/ SwitchPrice(c) \/ SwitchUse(c)
  <2>1. PICK pc \in {"off", "duplicate", "priced", "newSub", "switchUse", "enabled", "switch"} :
          Goto(c, pc)
    BY <1>1 DEF CountUses, Enabled, AfterEnabled, Priced, SwitchPrice, SwitchUse
  <2>2. call[c].pc # "enable"
    BY <1>1 DEF CountUses, Enabled, Priced, SwitchPrice, SwitchUse, At
  <2>3. Frame
    BY <2>1, <2>2, GotoFrame DEF OfProduct, OnProduct
  <2>4. Same /\ product' = product
    BY <1>1 DEF CountUses, Enabled, Priced, SwitchPrice, SwitchUse, history
  <2> QED
    BY <2>3, <2>4, FrameKeeps
<1>2. CASE Deactivate(c) \/ Review(c) \/ Promote(c) \/ NewSub(c) \/ Switch(c)
  <2>1. End(c) /\ call[c].pc # "enable"
    BY <1>2 DEF Deactivate, Review, Promote, NewSub, Switch, At
  <2>2. Frame
    BY <2>1, EndFrame
  <2>3. Same
    BY <1>2 DEF Deactivate, Review, Promote, NewSub, Switch, history
  <2>4. Makers
    <3>1. CASE Deactivate(c)
      BY <1>0, <3>1 DEF Deactivate, Row
    <3>2. CASE Review(c)
      BY <1>0, <3>2 DEF Review, Row
    <3>3. CASE Promote(c)
      BY <1>0, <3>3 DEF Promote, Promoted, Row
    <3>4. CASE NewSub(c) \/ Switch(c)
      BY <3>4 DEF NewSub, Switch
    <3> QED
      BY <1>2, <3>1, <3>2, <3>3, <3>4
  <2> QED
    BY <2>2, <2>3, <2>4, FrameKeeps
<1> QED
  BY <1>1, <1>2

(***************************************************************************)
(* The steps that write prices.                                            *)
(***************************************************************************)
LEMMA SilentAppend ==
  ASSUME price \in Seq(Price), NEW row \in Price, price' = Append(price, row),
         restored' = restored, NEW d, NEW p, NEW n, Silent(d, p, n, price, restored)
  PROVE  Silent(d, p, n, price', restored')
<1>1. Len(price) \in Nat
  OBVIOUS
<1>2. Len(price') = Len(price) + 1 /\ \A i \in 1 .. Len(price) : price'[i] = price[i]
  BY AppendProperties
<1>3. n \in Nat /\ n <= Len(price)
  BY DEF Silent
<1>4. n <= Len(price') /\ 1 .. n \subseteq 1 .. Len(price)
  BY <1>1, <1>2, <1>3
<1> QED
  BY <1>2, <1>3, <1>4 DEF Silent

\* The row of a handler that has looked at the first "seen" prices.
LEMMA PriceWritten ==
  ASSUME HistoryInv, NEW c \in Call, NEW seen \in Nat, call[c].pc \in {"firstPrice", "newPrice"},
         Silent(call[c].d, call[c].p, seen, price, restored),
         price' = Append(price, NewRow(call[c].d, call[c].p, seen)), End(c),
         UNCHANGED <<product, enabled, restored, dropped>>
  PROVE  PricesQuiet' /\ CallsQuiet' /\ MakersOk'
<1> DEFINE row == NewRow(call[c].d, call[c].p, seen)
<1>1. call[c].d \in Distributor /\ call[c].p \in Product
  BY DEF HistoryInv, CatalogInv, CallsOk, CallOk, OfProduct
<1>2. row \in Price /\ row.d = call[c].d /\ row.p = call[c].p /\ row.seen = seen
  BY <1>1, NewRowIs
<1> HIDE DEF row
<1>3. price \in Seq(Price) /\ price' = Append(price, row) /\ Len(price) \in Nat
  BY DEF HistoryInv, CatalogInv, TypeOK, row
<1>4. /\ Len(price') = Len(price) + 1 /\ price'[Len(price) + 1] = row
      /\ \A i \in 1 .. Len(price) : price'[i] = price[i]
  BY <1>2, <1>3, AppendProperties
<1>5. /\ \A x \in Call : call'[x].pc = "newPrice" => call'[x] = call[x]
      /\ \A x \in Call : call[x].pc = "enable" => call'[x] = call[x]
  BY EndFrame, CallFrame
<1>6. CallsQuiet'
  BY <1>2, <1>3, <1>5, SilentAppend DEF HistoryInv, CallsQuiet
<1>7. PricesQuiet'
  <2>1. ASSUME NEW j \in 1 .. Len(price), price'[j] = price[j]
        PROVE  /\ price'[j].seen < j
               /\ Silent(price'[j].d, price'[j].p, price'[j].seen, price', restored')
    BY <1>2, <1>3, <2>1, SilentAppend DEF HistoryInv, PricesQuiet
  <2>2. Silent(row.d, row.p, row.seen, price', restored')
    BY <1>2, <1>3, SilentAppend
  <2>3. seen < Len(price) + 1
    BY <1>3 DEF Silent
  <2>4. \A j \in 1 .. Len(price') : j \in 1 .. Len(price) \/ j = Len(price) + 1
    BY <1>3, <1>4
  <2> QED
    BY <1>2, <1>4, <2>1, <2>2, <2>3, <2>4 DEF PricesQuiet
<1>8. MakersOk'
  BY <1>5, MakerFrame
<1> QED
  BY <1>6, <1>7, <1>8

LEMMA PriceWrites ==
  ASSUME HistoryInv, NEW c \in Call, CreatePrice(c) \/ NewPrice(c)
  PROVE  PricesQuiet' /\ CallsQuiet' /\ MakersOk'
<1>1. CASE CreatePrice(c)
  <2>1. Silent(call[c].d, call[c].p, 0, price, restored)
    <3>1. Len(price) \in Nat
      BY DEF HistoryInv, CatalogInv, TypeOK
    <3> QED
      BY <3>1 DEF Silent
  <2>2. price' = Append(price, NewRow(call[c].d, call[c].p, 0))
    BY <1>1 DEF CreatePrice, NewRow
  <2> QED
    BY <1>1, <2>1, <2>2, PriceWritten DEF CreatePrice, At, history
<1>2. CASE NewPrice(c)
  <2>1. Silent(call[c].d, call[c].p, call[c].seen, price, restored)
    BY <1>2 DEF HistoryInv, CallsQuiet, NewPrice, At
  <2>2. price' = Append(price, NewRow(call[c].d, call[c].p, call[c].seen))
    BY <1>2 DEF NewPrice, NewRow
  <2>3. call[c].seen \in Nat
    BY <2>1 DEF Silent
  <2> QED
    BY <1>2, <2>1, <2>2, <2>3, PriceWritten DEF NewPrice, At, history
<1> QED
  BY <1>1, <1>2

\* The look: every price there is of the distributor and product is off.
LEMMA DuplicateQuiet ==
  ASSUME HistoryInv, NEW c \in Call, Duplicate(c)
  PROVE  PricesQuiet' /\ CallsQuiet' /\ MakersOk'
<1> DEFINE k == [call[c] EXCEPT !.pc = "newPrice", !.seen = Len(price)]
<1>1. call[c] \in CallState /\ Len(price) \in Nat
  BY DEF HistoryInv, CatalogInv, TypeOK
<1>2. k.d = call[c].d /\ k.p = call[c].p /\ k.seen = Len(price)
  BY <1>1 DEF CallState
<1>3. call' = [call EXCEPT ![c] = k] /\ UNCHANGED <<product, enabled, price, restored, dropped>>
  BY DEF Duplicate, history
<1> HIDE DEF k
<1>4. \A x \in Call : call'[x] = IF x = c THEN k ELSE call[x]
  BY <1>3 DEF HistoryInv, CatalogInv, TypeOK
<1>5. Silent(k.d, k.p, k.seen, price, restored)
  BY <1>1, <1>2 DEF Duplicate, NoPrice, PricesOf, Silent
<1>6. CallsQuiet' /\ PricesQuiet'
  BY <1>3, <1>4, <1>5 DEF HistoryInv, CallsQuiet, PricesQuiet
<1>7. \A x \in Call : call[x].pc = "enable" => call'[x] = call[x]
  BY <1>4 DEF Duplicate, At
<1>8. MakersOk'
  BY <1>3, <1>7, MakerFrame
<1> QED
  BY <1>6, <1>8

\* A price that is switched off is silent, one that is switched on restored.
LEMMA ToggleQuiet ==
  ASSUME HistoryInv, NEW i \in 1 .. Len(price), UpdatePricing(i)
  PROVE  PricesQuiet' /\ CallsQuiet' /\ MakersOk'
<1> DEFINE row == [price[i] EXCEPT !.active = ~@]
<1>1. price[i] \in Price /\ price \in Seq(Price)
  BY ElementOfSeq DEF HistoryInv, CatalogInv, TypeOK
<1>2. /\ row \in Price /\ row.d = price[i].d /\ row.p = price[i].p /\ row.seen = price[i].seen
  BY <1>1, PriceToggled
<1>3. price[i].active => ~row.active
  BY <1>1 DEF Price
<1>4. price' = [price EXCEPT ![i] = row]
  BY DEF UpdatePricing
<1> HIDE DEF row
<1>5. /\ Len(price') = Len(price)
      /\ \A j \in 1 .. Len(price) : price'[j] = IF j = i THEN row ELSE price[j]
  BY <1>1, <1>2, <1>4, ExceptSeq
<1>6. ASSUME NEW j \in 1 .. Len(price), ~price[j].active \/ j \in restored
      PROVE  ~price'[j].active \/ j \in restored'
  <2>1. CASE j # i
    BY <1>5, <1>6, <2>1 DEF UpdatePricing
  <2>2. CASE j = i /\ price[i].active
    BY <1>3, <1>5, <2>2
  <2>3. CASE j = i /\ ~price[i].active
    BY <2>3 DEF UpdatePricing
  <2> QED
    BY <2>1, <2>2, <2>3
<1>7. ASSUME NEW d, NEW p, NEW n, Silent(d, p, n, price, restored)
      PROVE  Silent(d, p, n, price', restored')
  <2>1. n \in Nat /\ n <= Len(price) /\ Len(price) \in Nat
    BY <1>1, <1>7 DEF Silent
  <2>2. 1 .. n \subseteq 1 .. Len(price)
    BY <2>1
  <2>3. ASSUME NEW j \in 1 .. n, price'[j].d = d /\ price'[j].p = p
        PROVE  ~price'[j].active \/ j \in restored'
    <3>1. j \in 1 .. Len(price) /\ price[j].d = d /\ price[j].p = p
      BY <1>2, <1>5, <2>2, <2>3
    <3> QED
      BY <1>6, <1>7, <3>1 DEF Silent
  <2> QED
    BY <1>5, <2>1, <2>3 DEF Silent
<1>8. CallsQuiet'
  BY <1>7 DEF HistoryInv, CallsQuiet, UpdatePricing
<1>9. PricesQuiet'
  <2>1. ASSUME NEW j \in 1 .. Len(price)
        PROVE  /\ price'[j].seen = price[j].seen
               /\ price'[j].d = price[j].d /\ price'[j].p = price[j].p
    BY <1>2, <1>5
  <2> QED
    BY <1>5, <1>7, <2>1 DEF HistoryInv, PricesQuiet
<1>10. MakersOk'
  BY MakerFrame DEF UpdatePricing
<1> QED
  BY <1>8, <1>9, <1>10

(***************************************************************************)
(* The steps that concern makers.                                          *)
(***************************************************************************)
LEMMA Created ==
  ASSUME HistoryInv, NEW c \in Call, NEW p \in Product, NEW d \in Distributor,
         CreateCustom(c, d, p)
  PROVE  PricesQuiet' /\ CallsQuiet' /\ MakersOk'
<1>0. product \in [Product -> Row] /\ call \in [Call -> CallState]
  BY DEF HistoryInv, CatalogInv, TypeOK
<1> DEFINE k == [Idle EXCEPT !.pc = "enable", !.goal = "create", !.d = d, !.p = p]
<1>1. k.pc = "enable" /\ k.p = p
  BY StartIs
<1>2. /\ call' = [call EXCEPT ![c] = k] /\ call[c].pc = "idle"
      /\ UNCHANGED <<enabled, price, restored, dropped>>
  BY DEF CreateCustom, Start, At, history
<1> HIDE DEF k
<1>3. \A x \in Call : call'[x] = IF x = c THEN k ELSE call[x]
  BY <1>0, <1>2
<1>4. \A q \in Product : q # p => product'[q] = product[q]
  BY <1>0 DEF CreateCustom
<1>5. PricesQuiet' /\ CallsQuiet'
  BY <1>1, <1>2, <1>3, QuietFrame
<1>6. ASSUME NEW q \in Product, product'[q].maker # "none"
      PROVE  \/ <<product'[q].maker, q>> \in enabled' \/ q \in dropped'
             \/ \E x \in Call : call'[x].pc = "enable" /\ call'[x].p = q
  <2>1. CASE q = p
    BY <1>1, <1>3, <2>1
  <2>2. CASE q # p
    <3>1. product'[q] = product[q]
      BY <1>4, <2>2
    <3>2. \A x \in Call : call[x].pc = "enable" => call'[x] = call[x]
      BY <1>2, <1>3
    <3>3. \/ <<product[q].maker, q>> \in enabled \/ q \in dropped
          \/ \E x \in Call : call[x].pc = "enable" /\ call[x].p = q
      BY <1>6, <3>1 DEF HistoryInv, MakersOk
    <3> QED
      BY <1>2, <3>1, <3>2, <3>3
  <2> QED
    BY <2>1, <2>2
<1>7. MakersOk'
  BY <1>6 DEF MakersOk
<1> QED
  BY <1>5, <1>7

\* The maker's handler writes the row that it is at, or dies.
LEMMA MakerEnables ==
  ASSUME HistoryInv, NEW c \in Call, CreateEnable(c) \/ Die(c)
  PROVE  PricesQuiet' /\ CallsQuiet' /\ MakersOk'
<1>0. call[c] \in CallState /\ CallOk(call[c], product)
  BY DEF HistoryInv, CatalogInv, TypeOK, CallsOk
<1>1. PICK k : call' = [call EXCEPT ![c] = k] /\ k.pc # "newPrice"
  <2>1. CASE End(c)
    <3>1. Idle.pc # "newPrice"
      BY DEF Idle
    <3> QED
      BY <2>1, <3>1 DEF End
  <2>2. CASE Goto(c, "firstPrice")
    <3>1. [call[c] EXCEPT !.pc = "firstPrice"].pc = "firstPrice"
      BY <1>0, GotoIs DEF OfProduct
    <3> QED
      BY <2>2, <3>1 DEF Goto
  <2> QED
    BY <2>1, <2>2 DEF CreateEnable, Die
<1>2. \A x \in Call : call'[x] = IF x = c THEN k ELSE call[x]
  BY <1>1 DEF HistoryInv, CatalogInv, TypeOK
<1>3. UNCHANGED <<product, price, restored>>
  BY DEF CreateEnable, Die, history
<1>4. enabled \subseteq enabled' /\ dropped \subseteq dropped'
  BY DEF CreateEnable, Die, WithRow, history
<1>5. PricesQuiet' /\ CallsQuiet'
  BY <1>1, <1>2, <1>3, QuietFrame
<1>6. call[c].pc = "enable" =>
        \/ call[c].p \in dropped' \/ <<product[call[c].p].maker, call[c].p>> \in enabled'
  BY <1>0 DEF CreateEnable, Die, WithRow, At, CallOk
<1>7. ASSUME NEW q \in Product, product[q].maker # "none"
      PROVE  \/ <<product[q].maker, q>> \in enabled' \/ q \in dropped'
             \/ \E x \in Call : call'[x].pc = "enable" /\ call'[x].p = q
  <2>1. CASE <<product[q].maker, q>> \in enabled \/ q \in dropped
    BY <1>4, <2>1
  <2>2. CASE \E x \in Call : call[x].pc = "enable" /\ call[x].p = q
    <3>1. PICK x \in Call : call[x].pc = "enable" /\ call[x].p = q
      BY <2>2
    <3>2. CASE x = c
      BY <1>6, <3>1, <3>2
    <3>3. CASE x # c
      BY <1>2, <3>1, <3>3
    <3> QED
      BY <3>2, <3>3
  <2> QED
    BY <1>7, <2>1, <2>2 DEF HistoryInv, MakersOk
<1>8. MakersOk'
  BY <1>3, <1>7 DEF MakersOk
<1> QED
  BY <1>5, <1>8

LEMMA Toggled ==
  ASSUME HistoryInv, NEW p \in Product, NEW d \in Distributor, UpdateProducts(d, p)
  PROVE  PricesQuiet' /\ CallsQuiet' /\ MakersOk'
<1>1. UNCHANGED <<product, price, call, restored>>
  BY DEF UpdateProducts
<1>2. PricesQuiet' /\ CallsQuiet'
  BY <1>1, QuietFrame
<1>3. PICK on \in BOOLEAN :
        /\ enabled' = IF on THEN enabled \cup {<<d, p>>} ELSE enabled \ {<<d, p>>}
        /\ dropped' = IF ~on /\ product[p].maker = d THEN dropped \cup {p} ELSE dropped
  BY DEF UpdateProducts
<1>4. ASSUME NEW q \in Product, <<product[q].maker, q>> \in enabled
      PROVE  <<product[q].maker, q>> \in enabled' \/ q \in dropped'
  <2>1. CASE on
    BY <1>3, <1>4, <2>1
  <2>2. CASE ~on /\ q = p /\ product[p].maker = d
    BY <1>3, <2>2
  <2>3. CASE ~on /\ <<product[q].maker, q>> # <<d, p>>
    BY <1>3, <1>4, <2>3
  <2> QED
    BY <2>1, <2>2, <2>3
<1>5. dropped \subseteq dropped'
  BY <1>3
<1>6. MakersOk'
  BY <1>1, <1>4, <1>5 DEF HistoryInv, MakersOk
<1> QED
  BY <1>2, <1>6

LEMMA HistoryKept == HistoryInv /\ [Next]_vars => HistoryInv'
<1> SUFFICES ASSUME HistoryInv, [Next]_vars PROVE HistoryInv'
  OBVIOUS
<1>1. CatalogInv' /\ SwitchesOk'
  BY InvKept DEF HistoryInv
<1> DEFINE Kept == PricesQuiet' /\ CallsQuiet' /\ MakersOk'
<1>2. ASSUME NEW p \in Product,
             \/ CreateGlobal(p) \/ UpdateGlobal(p)
             \/ \E c \in Call : DeactivateGlobal(c, p) \/ ReviewRead(c, p) \/ PromoteRead(c, p)
             \/ \E d \in Distributor :
                  \/ UpdateProducts(d, p)
                  \/ \E c \in Call :
                       \/ DeactivateCustom(c, d, p) \/ CreateCustom(c, d, p)
                       \/ RequestPromotion(c, d, p) \/ CreatePricing(c, d, p)
                       \/ Subscribe(c, d, p) \/ Sell(c, d, p)
      PROVE  Kept
  BY <1>2, GlobalFrame, ReadFrame, OfferFrame, Toggled, Created
<1>3. ASSUME NEW c \in Call,
             \/ CountUses(c) \/ Deactivate(c) \/ CreateEnable(c) \/ CreatePrice(c)
             \/ Review(c) \/ Promote(c) \/ Enabled(c) \/ Duplicate(c)
             \/ NewPrice(c) \/ Priced(c) \/ NewSub(c) \/ Die(c)
             \/ SwitchPrice(c) \/ SwitchUse(c) \/ Switch(c)
      PROVE  Kept
  BY <1>3, MakerEnables, PriceWrites, DuplicateQuiet, HandlerFrame
<1>4. ASSUME NEW i \in 1 .. Len(price), UpdatePricing(i) PROVE Kept
  BY <1>4, ToggleQuiet
<1>5. ASSUME NEW i \in 1 .. Len(sub), ChangeSub(i) PROVE Kept
  BY <1>5, QuietFrame, MakerFrame DEF ChangeSub
<1>6. ASSUME NEW i \in 1 .. Len(sub), NEW c \in Call, NEW p \in Product, SwitchRead(c, i, p)
      PROVE  Kept
  BY <1>6, SwitchFrame
<1>7. CASE UNCHANGED vars
  <2>1. UNCHANGED <<product, enabled, price, call, restored, dropped>>
    BY <1>7 DEF vars, history
  <2>2. PricesQuiet' /\ CallsQuiet'
    BY <2>1, QuietFrame
  <2>3. MakersOk'
    BY <2>1, MakerFrame
  <2> QED
    BY <1>1, <2>2, <2>3 DEF HistoryInv
<1> QED
  BY <1>1, <1>2, <1>3, <1>4, <1>5, <1>6, <1>7 DEF Next, HistoryInv

LEMMA HistoryInit == Init => HistoryInv
<1> SUFFICES ASSUME Init PROVE HistoryInv
  OBVIOUS
<1>1. PricesQuiet
  BY DEF Init, PricesQuiet
<1>2. CallsQuiet
  BY DEF Init, CallsQuiet, Idle
<1>3. MakersOk
  BY DEF Init, MakersOk, NoRow
<1> QED
  BY <1>1, <1>2, <1>3, InvInit DEF HistoryInv

LEMMA HistoryHolds == Spec => []HistoryInv
  BY HistoryInit, HistoryKept, PTL DEF Spec

\* Two prices of one distributor for one product are active at once only if the
\* check of the later missed the earlier, or the earlier was switched on again.
THEOREM DuplicatePriceExplained == Spec => []DuplicatePriceIsExplained
<1>1. HistoryInv => DuplicatePriceIsExplained
  <2> SUFFICES ASSUME HistoryInv, NEW i \in 1 .. Len(price), NEW j \in 1 .. Len(price),
                      i < j, price[i].d = price[j].d, price[i].p = price[j].p,
                      price[i].active, price[j].active, ~(price[j].seen < i)
               PROVE  i \in restored
    BY DEF DuplicatePriceIsExplained
  <2>1. Silent(price[j].d, price[j].p, price[j].seen, price, restored)
    BY DEF HistoryInv, PricesQuiet
  <2>2. i \in 1 .. price[j].seen
    <3>1. price[j].seen \in Nat
      BY <2>1 DEF Silent
    <3> QED
      BY <3>1
  <2> QED
    BY <2>1, <2>2 DEF Silent
<1> QED
  BY <1>1, HistoryHolds, PTL

\* Who made a product can offer it when it has been promoted, unless he gave it up.
THEOREM MakerKeeps == Spec => []PromotionKeepsMaker
<1>1. HistoryInv => PromotionKeepsMaker
  BY DEF HistoryInv, MakersOk, PromotionKeepsMaker, At
<1> QED
  BY <1>1, HistoryHolds, PTL

(***************************************************************************)
(* Products that are gone.  A deactivation counts the subscriptions it has *)
(* to, or the product was promoted meanwhile (Sees); once it has counted,  *)
(* each that is active is one that it could not see (Counted).             *)
(***************************************************************************)
\* A deactivation of its product missed subscription s.
Missed(s, pr, su, la, cr) ==
  \/ s \in la \/ su[s].p \in cr
  \/ pr[su[s].p].scope = "DISTRIBUTOR" /\ su[s].d # pr[su[s].p].owner

Deactivating == {"count", "off"}

Sees(k, pr, cr) ==
  k.pc \in Deactivating =>
    /\ k.goal = "off"
    /\ \/ k.d = "none" /\ pr[k.p].scope = "GLOBAL"
       \/ pr[k.p].scope = "DISTRIBUTOR" /\ pr[k.p].owner = k.d
       \/ k.p \in cr

Counted(k, pr, su, la, cr) ==
  k.pc = "off" =>
    \A s \in 1 .. Len(su) : su[s].p = k.p /\ su[s].active => Missed(s, pr, su, la, cr)

Ready(k, pr, su, la, cr) ==
  /\ Sees(k, pr, cr) /\ Counted(k, pr, su, la, cr)
  /\ k.pc = "newSub" => pr[k.p].scope # "none"

CallsReady == \A c \in Call : Ready(call[c], product, sub, late, crossed)

SoldExist == \A s \in 1 .. Len(sub) : product[sub[s].p].scope # "none"

GoneOk ==
  \A s \in 1 .. Len(sub) :
    sub[s].active /\ ~product[sub[s].p].active =>
      sub[s].p \in forced \/ Missed(s, product, sub, late, crossed)

GoneInv == CatalogInv /\ SwitchesOk /\ CallsReady /\ SoldExist /\ GoneOk

\* Products are written and handlers go on; the subscriptions are as they were.
LEMMA GoneFrame ==
  ASSUME GoneInv, CatalogInv', SwitchesOk', UNCHANGED <<sub, late>>, crossed \subseteq crossed',
         \A q \in Product : product[q].scope # "none" =>
           /\ product'[q].scope # "none"
           /\ \/ product'[q].scope = product[q].scope /\ product'[q].owner = product[q].owner
              \/ /\ product'[q].active
                 /\ \A x \in Call :
                      call'[x].pc \in Deactivating /\ call'[x].p = q => q \in crossed'
           /\ ~product'[q].active =>
                \/ ~product[q].active /\ (q \in forced => q \in forced')
                \/ q \in forced'
                \/ \E x \in Call : call[x].pc = "off" /\ call[x].p = q,
         \A x \in Call : Ready(call'[x], product, sub, late, crossed)
  PROVE  GoneInv'
<1>1. \A s \in 1 .. Len(sub) : sub[s].p \in Product /\ product[sub[s].p].scope # "none"
  <2>1. \A s \in 1 .. Len(sub) : sub[s] \in Sub
    BY ElementOfSeq DEF GoneInv, CatalogInv, TypeOK
  <2> QED
    BY <2>1 DEF GoneInv, SoldExist, Sub
<1>2. SoldExist'
  BY <1>1 DEF SoldExist
<1>3. ASSUME NEW s \in 1 .. Len(sub), Missed(s, product, sub, late, crossed)
      PROVE  \/ Missed(s, product', sub', late', crossed')
             \/ /\ product'[sub[s].p].active
                /\ \A x \in Call : call'[x].pc \in Deactivating /\ call'[x].p = sub[s].p =>
                     sub[s].p \in crossed'
  BY <1>1, <1>3 DEF Missed
<1>4. \A x \in Call : call'[x].pc \in Deactivating \cup {"newSub"} => call'[x].p \in Product
  BY DEF CatalogInv, CallsOk, CallOk, OfProduct, OnProduct, Deactivating
<1>5. ASSUME NEW x \in Call PROVE Sees(call'[x], product', crossed')
  <2> SUFFICES ASSUME call'[x].pc \in Deactivating, call'[x].p \notin crossed'
               PROVE  /\ call'[x].goal = "off"
                      /\ \/ call'[x].d = "none" /\ product'[call'[x].p].scope = "GLOBAL"
                         \/ /\ product'[call'[x].p].scope = "DISTRIBUTOR"
                            /\ product'[call'[x].p].owner = call'[x].d
    BY DEF Sees, Ready
  <2>1. Sees(call'[x], product, crossed) /\ call'[x].p \notin crossed
    BY DEF Ready
  <2>2. product[call'[x].p].scope # "none"
    BY <2>1 DEF Sees
  <2> QED
    BY <1>4, <2>1, <2>2 DEF Sees
<1>6. ASSUME NEW x \in Call, call'[x].pc = "off",
             NEW s \in 1 .. Len(sub), sub[s].p = call'[x].p, sub[s].active
      PROVE  Missed(s, product', sub', late', crossed')
  <2>1. Missed(s, product, sub, late, crossed)
    BY <1>6 DEF Ready, Counted
  <2>2. call'[x].pc \in Deactivating
    BY <1>6 DEF Deactivating
  <2> QED
    BY <1>3, <1>6, <2>1, <2>2 DEF Missed
<1>7. CallsReady'
  BY <1>4, <1>5, <1>6 DEF CallsReady, Ready, Counted
<1>8. ASSUME NEW s \in 1 .. Len(sub), sub[s].active, ~product'[sub[s].p].active,
             sub[s].p \notin forced'
      PROVE  Missed(s, product', sub', late', crossed')
  <2>1. Missed(s, product, sub, late, crossed)
    <3>1. CASE ~product[sub[s].p].active /\ sub[s].p \notin forced
      BY <1>8, <3>1 DEF GoneInv, GoneOk
    <3>2. CASE \E x \in Call : call[x].pc = "off" /\ call[x].p = sub[s].p
      BY <1>8, <3>2 DEF GoneInv, CallsReady, Ready, Counted
    <3> QED
      BY <1>1, <1>8, <3>1, <3>2
  <2> QED
    BY <1>3, <1>8, <2>1
<1>9. GoneOk'
  BY <1>8 DEF GoneOk
<1> QED
  BY <1>2, <1>7, <1>9 DEF GoneInv

\* One handler goes on to where it has nothing to be ready for, or is ready.
LEMMA OneReady ==
  ASSUME GoneInv, NEW c \in Call, NEW k, call' = [call EXCEPT ![c] = k],
         \/ k.pc \notin Deactivating \cup {"newSub"}
         \/ Ready(k, product, sub, late, crossed)
  PROVE  \A x \in Call : Ready(call'[x], product, sub, late, crossed)
<1>1. Ready(k, product, sub, late, crossed)
  BY DEF Ready, Sees, Counted, Deactivating
<1>2. \A x \in Call : call'[x] = IF x = c THEN k ELSE call[x]
  BY DEF GoneInv, CatalogInv, TypeOK
<1> QED
  BY <1>1, <1>2 DEF GoneInv, CallsReady

LEMMA EndReady ==
  ASSUME GoneInv, NEW c \in Call, End(c)
  PROVE  \A x \in Call : Ready(call'[x], product, sub, late, crossed)
<1>1. Idle.pc \notin Deactivating \cup {"newSub"}
  BY DEF Idle, Deactivating
<1> QED
  BY <1>1, OneReady DEF End

LEMMA GotoReady ==
  ASSUME GoneInv, NEW c \in Call, NEW pc \in OfProduct \cup OnProduct, Goto(c, pc),
         \/ pc \notin Deactivating \cup {"newSub"}
         \/ pc = "newSub" /\ product[call[c].p].scope # "none"
  PROVE  \A x \in Call : Ready(call'[x], product, sub, late, crossed)
<1> DEFINE k == [call[c] EXCEPT !.pc = pc]
<1>1. k.pc = pc /\ k.p = call[c].p
  BY GotoIs DEF GoneInv, CatalogInv, TypeOK
<1>2. call' = [call EXCEPT ![c] = k]
  BY DEF Goto
<1> HIDE DEF k
<1>3. pc = "newSub" /\ product[call[c].p].scope # "none" =>
        Ready(k, product, sub, late, crossed)
  BY <1>1 DEF Ready, Sees, Counted, Deactivating
<1> QED
  BY <1>1, <1>2, <1>3, OneReady

LEMMA StartReady ==
  ASSUME GoneInv, NEW c \in Call, NEW pc \in OfProduct \cup OnProduct, pc # "off",
         NEW goal, NEW d, NEW p, Start(c, pc, goal, d, p),
         pc = "newSub" => product[p].scope # "none",
         pc = "count" =>
           /\ goal = "off"
           /\ \/ d = "none" /\ product[p].scope = "GLOBAL"
              \/ product[p].scope = "DISTRIBUTOR" /\ product[p].owner = d
  PROVE  \A x \in Call : Ready(call'[x], product, sub, late, crossed)
<1> DEFINE k == [Idle EXCEPT !.pc = pc, !.goal = goal, !.d = d, !.p = p]
<1>1. k.pc = pc /\ k.goal = goal /\ k.d = d /\ k.p = p
  BY StartIs
<1>2. call' = [call EXCEPT ![c] = k]
  BY DEF Start
<1> HIDE DEF k
<1>3. Ready(k, product, sub, late, crossed)
  BY <1>1 DEF Ready, Sees, Counted, Deactivating
<1> QED
  BY <1>2, <1>3, OneReady

\* The steps that write no product, no subscription and no deactivation.
LEMMA GoneSame ==
  ASSUME GoneInv, CatalogInv', SwitchesOk', UNCHANGED <<product, sub, late, crossed, forced>>,
         \A x \in Call : Ready(call'[x], product, sub, late, crossed)
  PROVE  GoneInv'
  BY GoneFrame

LEMMA GoneReads ==
  ASSUME GoneInv, CatalogInv', SwitchesOk', NEW c \in Call, NEW p \in Product, NEW d,
         \/ DeactivateGlobal(c, p) \/ PromoteRead(c, p) \/ ReviewRead(c, p)
         \/ DeactivateCustom(c, d, p) \/ RequestPromotion(c, d, p)
         \/ CreatePricing(c, d, p) \/ Subscribe(c, d, p) \/ Sell(c, d, p)
  PROVE  GoneInv'
<1> SUFFICES \A x \in Call : Ready(call'[x], product, sub, late, crossed)
  BY GoneSame DEF DeactivateGlobal, PromoteRead, ReviewRead, DeactivateCustom,
       RequestPromotion, CreatePricing, Subscribe, Sell, UseProduct, history
<1>1. CASE DeactivateGlobal(c, p)
  BY <1>1, StartReady DEF DeactivateGlobal, OnProduct, Scope
<1>2. CASE DeactivateCustom(c, d, p)
  BY <1>2, StartReady DEF DeactivateCustom, OnProduct, Own, Scope
<1>3. CASE PromoteRead(c, p)
  BY <1>3, StartReady DEF PromoteRead, OnProduct
<1>4. CASE CreatePricing(c, d, p) \/ Subscribe(c, d, p)
  <2>1. PICK pc \in {"enabled", "duplicate", "priced"}, goal \in {"price", "customer"} :
          Start(c, pc, goal, d, p)
    BY <1>4 DEF CreatePricing, Subscribe, UseProduct
  <2>2. pc \in OfProduct
    BY DEF OfProduct
  <2> QED
    BY <2>1, <2>2, StartReady
<1>5. CASE Sell(c, d, p)
  BY <1>5, StartReady DEF Sell, Existing, Scope, OfProduct
<1>6. CASE ReviewRead(c, p)
  <2>1. PICK promo \in {"REJECTED", "PRIVATE"} :
          call' = [call EXCEPT ![c] = [Idle EXCEPT !.pc = "review", !.goal = "review",
                                                   !.p = p, !.promo = promo]]
    BY <1>6 DEF ReviewRead
  <2> DEFINE k == [Idle EXCEPT !.pc = "review", !.goal = "review", !.p = p, !.promo = promo]
  <2>2. k.pc \notin Deactivating \cup {"newSub"}
    BY DEF Idle, Deactivating
  <2>3. call' = [call EXCEPT ![c] = k]
    BY <2>1
  <2> HIDE DEF k
  <2> QED
    BY <2>2, <2>3, OneReady
<1>7. CASE RequestPromotion(c, d, p)
  <2> DEFINE k == [Idle EXCEPT !.pc = "review", !.goal = "review", !.d = d, !.p = p,
                               !.promo = "PENDING_REVIEW"]
  <2>1. k.pc \notin Deactivating \cup {"newSub"}
    BY DEF Idle, Deactivating
  <2>2. call' = [call EXCEPT ![c] = k]
    BY <1>7 DEF RequestPromotion
  <2> HIDE DEF k
  <2> QED
    BY <2>1, <2>2, OneReady
<1> QED
  BY <1>1, <1>2, <1>3, <1>4, <1>5, <1>6, <1>7

\* The count: what is active of the product is what a deactivation cannot see.
LEMMA GoneCounts ==
  ASSUME GoneInv, CatalogInv', SwitchesOk', NEW c \in Call, CountUses(c)
  PROVE  GoneInv'
<1> DEFINE k == [call[c] EXCEPT !.pc = "off"]
<1>1. k.pc = "off" /\ k.goal = call[c].goal /\ k.d = call[c].d /\ k.p = call[c].p
  BY GotoIs DEF GoneInv, CatalogInv, TypeOK, OnProduct
<1>2. call' = [call EXCEPT ![c] = k]
  BY DEF CountUses, Goto
<1>3. call[c].pc = "count" /\ ~InUse(call[c].d, call[c].p)
  BY DEF CountUses, At, NotInUse
<1> HIDE DEF k
<1>4. Sees(call[c], product, crossed) /\ call[c].pc \in Deactivating
  BY <1>3 DEF GoneInv, CallsReady, Ready, Deactivating
<1>5. Sees(k, product, crossed)
  BY <1>1, <1>4 DEF Sees
<1>6. ASSUME NEW s \in 1 .. Len(sub), sub[s].p = k.p, sub[s].active
      PROVE  Missed(s, product, sub, late, crossed)
  <2>1. call[c].d # "none" /\ sub[s].d # call[c].d
    BY <1>1, <1>3, <1>6 DEF InUse
  <2> QED
    BY <1>1, <1>4, <1>6, <2>1 DEF Sees, Missed
<1>7. Ready(k, product, sub, late, crossed)
  BY <1>1, <1>5, <1>6 DEF Ready, Counted
<1>8. UNCHANGED <<product, sub, late, crossed, forced>>
  BY DEF CountUses, history
<1> QED
  BY <1>2, <1>7, <1>8, OneReady, GoneSame

Onward == {"firstPrice", "duplicate", "priced", "switchUse", "enabled", "switch"}

LEMMA GoneHandlers ==
  ASSUME GoneInv, CatalogInv', SwitchesOk', NEW c \in Call,
         \/ CreateEnable(c) \/ CreatePrice(c) \/ Enabled(c) \/ Duplicate(c)
         \/ NewPrice(c) \/ Priced(c) \/ SwitchPrice(c) \/ SwitchUse(c) \/ Die(c)
  PROVE  GoneInv'
<1> SUFFICES \A x \in Call : Ready(call'[x], product, sub, late, crossed)
  BY GoneSame DEF CreateEnable, CreatePrice, Enabled, Duplicate, NewPrice, Priced, SwitchPrice,
       SwitchUse, Die, history
<1>1. CASE End(c)
  BY <1>1, EndReady
<1>2. CASE \E pc \in Onward : Goto(c, pc)
  <2>1. PICK pc \in Onward : Goto(c, pc)
    BY <1>2
  <2>2. pc \in OfProduct /\ pc \notin Deactivating \cup {"newSub"}
    BY DEF Onward, OfProduct, Deactivating
  <2> QED
    BY <2>1, <2>2, GotoReady
<1>3. CASE Priced(c)
  <2>1. May(product, call[c].d, call[c].p)
    BY <1>3 DEF Priced, At, GoneInv, CatalogInv, CallsOk, CallOk, Checked
  <2>2. product[call[c].p].scope # "none"
    BY <2>1 DEF May
  <2> QED
    BY <1>3, <2>2, GotoReady DEF Priced, OfProduct
<1>4. CASE Duplicate(c)
  <2> DEFINE k == [call[c] EXCEPT !.pc = "newPrice", !.seen = Len(price)]
  <2>1. k.pc \notin Deactivating \cup {"newSub"}
    BY DEF GoneInv, CatalogInv, TypeOK, CallState, Deactivating
  <2>2. call' = [call EXCEPT ![c] = k]
    BY <1>4 DEF Duplicate
  <2> HIDE DEF k
  <2> QED
    BY <2>1, <2>2, OneReady
<1>5. \/ End(c) \/ (\E pc \in Onward : Goto(c, pc))
      \/ Priced(c) \/ Duplicate(c)
  BY DEF CreateEnable, CreatePrice, Enabled, AfterEnabled, NewPrice, SwitchPrice, SwitchUse,
       Die, Onward
<1> QED
  BY <1>1, <1>2, <1>3, <1>4, <1>5

\* A row is written that nobody subscribed to, or one of a product there is.
LEMMA GoneCreates ==
  ASSUME GoneInv, CatalogInv', SwitchesOk', NEW p \in Product,
         \/ CreateGlobal(p)
         \/ \E c \in Call, d \in Distributor : CreateCustom(c, d, p)
  PROVE  GoneInv'
<1>1. \A q \in Product : product[q].scope # "none" => product'[q] = product[q]
  <2>1. Scope(p) = "none" /\ \E row : product' = [product EXCEPT ![p] = row]
    BY DEF CreateGlobal, CreateCustom
  <2> QED
    BY <2>1 DEF GoneInv, CatalogInv, TypeOK, Scope
<1>2. UNCHANGED <<sub, late, crossed, forced>>
  <2>1. CASE CreateGlobal(p)
    BY <2>1 DEF CreateGlobal, history
  <2>2. CASE \E c \in Call, d \in Distributor : CreateCustom(c, d, p)
    BY <2>2 DEF CreateCustom, history
  <2> QED
    BY <2>1, <2>2
<1>3. \A x \in Call : Ready(call'[x], product, sub, late, crossed)
  <2>1. CASE CreateGlobal(p)
    BY <2>1 DEF CreateGlobal, GoneInv, CallsReady
  <2>2. CASE \E c \in Call, d \in Distributor : CreateCustom(c, d, p)
    BY <2>2, StartReady DEF CreateCustom, OfProduct
  <2> QED
    BY <2>1, <2>2
<1> QED
  BY <1>1, <1>2, <1>3, GoneFrame

LEMMA GoneSwitches ==
  ASSUME GoneInv, CatalogInv', SwitchesOk', NEW p \in Product, UpdateGlobal(p)
  PROVE  GoneInv'
<1>1. PICK active \in BOOLEAN :
        /\ product' = [product EXCEPT ![p] = Switched(product[p], active)]
        /\ forced' = IF active THEN forced \ {p} ELSE forced \cup {p}
  BY DEF UpdateGlobal, Switched
<1>2. /\ Switched(product[p], active).active = active
      /\ Switched(product[p], active).scope = product[p].scope
      /\ Switched(product[p], active).owner = product[p].owner
  BY DEF GoneInv, CatalogInv, TypeOK, Switched, Row
<1>3. \A q \in Product : product'[q] = IF q = p THEN Switched(product[p], active) ELSE product[q]
  BY <1>1 DEF GoneInv, CatalogInv, TypeOK
<1>4. \A q \in Product : q # p => (q \in forced' <=> q \in forced)
  BY <1>1
<1>5. ~active => p \in forced'
  BY <1>1
<1>6. UNCHANGED <<sub, late, crossed, call>>
  BY DEF UpdateGlobal
<1> QED
  BY <1>2, <1>3, <1>4, <1>5, <1>6, GoneFrame DEF GoneInv, CallsReady

LEMMA GoneWrites ==
  ASSUME GoneInv, CatalogInv', SwitchesOk', NEW c \in Call, Deactivate(c) \/ Review(c) \/ Promote(c)
  PROVE  GoneInv'
<1>0. call[c].p \in Product /\ product \in [Product -> Row]
  BY DEF Deactivate, Review, Promote, At, GoneInv, CatalogInv, TypeOK, CallsOk, CallOk, OnProduct
<1> DEFINE p == call[c].p
<1>1. \A x \in Call : Ready(call'[x], product, sub, late, crossed)
  BY EndReady DEF Deactivate, Review, Promote
<1>2. UNCHANGED <<sub, late>> /\ \A q \in Product : q # p => product'[q] = product[q]
  BY <1>0 DEF Deactivate, Review, Promote, history
<1>3. CASE Deactivate(c)
  <2>1. /\ product' = [product EXCEPT ![p] = Switched(product[p], FALSE)]
        /\ crossed' = crossed /\ forced' = forced \ {p} /\ call[c].pc = "off"
    BY <1>3 DEF Deactivate, Switched, At
  <2>2. /\ Switched(product[p], FALSE).scope = product[p].scope
        /\ Switched(product[p], FALSE).owner = product[p].owner
    BY <1>0 DEF Switched, Row
  <2>3. product'[p] = Switched(product[p], FALSE)
    BY <1>0, <2>1
  <2> QED
    BY <1>0, <1>1, <1>2, <2>1, <2>2, <2>3, GoneFrame
<1>4. CASE Review(c)
  <2>1. /\ product' = [product EXCEPT ![p] = Reviewed(product[p], call[c].promo)]
        /\ crossed' = crossed /\ forced' = forced
    BY <1>4 DEF Review, Reviewed, history
  <2>2. /\ Reviewed(product[p], call[c].promo).scope = product[p].scope
        /\ Reviewed(product[p], call[c].promo).owner = product[p].owner
        /\ Reviewed(product[p], call[c].promo).active = product[p].active
    BY <1>0 DEF Reviewed, Row
  <2>3. product'[p] = Reviewed(product[p], call[c].promo)
    BY <1>0, <2>1
  <2> QED
    BY <1>0, <1>1, <1>2, <2>1, <2>2, <2>3, GoneFrame
<1>5. CASE Promote(c)
  <2>1. /\ product' = [product EXCEPT ![p] = Promoted(product[p])]
        /\ forced' = forced \ {p} /\ End(c)
        /\ crossed' = IF \E x \in Call \ {c} : call[x].p = p /\ call[x].goal = "off"
                        THEN crossed \cup {p} ELSE crossed
    BY <1>5 DEF Promote
  <2>2. Promoted(product[p]).scope = "GLOBAL" /\ Promoted(product[p]).active
    BY <1>0 DEF Promoted, Row
  <2>3. product'[p].scope = "GLOBAL" /\ product'[p].active
    BY <1>0, <2>1, <2>2
  <2>4. ASSUME NEW x \in Call, call'[x].pc \in Deactivating, call'[x].p = p
        PROVE  p \in crossed'
    <3>1. x # c /\ call'[x] = call[x]
      BY <2>1, <2>4 DEF End, Idle, Deactivating, GoneInv, CatalogInv, TypeOK
    <3>2. call[x].goal = "off"
      BY <2>4, <3>1 DEF GoneInv, CallsReady, Ready, Sees
    <3> QED
      BY <2>1, <2>4, <3>1, <3>2
  <2>5. crossed \subseteq crossed' /\ \A q \in Product : q # p => (q \in forced' <=> q \in forced)
    BY <2>1
  <2> QED
    BY <1>0, <1>1, <1>2, <2>3, <2>4, <2>5, GoneFrame
<1> QED
  BY <1>3, <1>4, <1>5

(***************************************************************************)
(* Subscriptions start: late, where a deactivation has counted or is done. *)
(***************************************************************************)
\* Subscription s goes on with its product, and as late as it was.
Stays(s) ==
  /\ s \in 1 .. Len(sub)
  /\ sub'[s].p = sub[s].p /\ sub'[s].d = sub[s].d
  /\ sub'[s].active => sub[s].active
  /\ s \in late => s \in late'

\* Every row goes on, or is late, or off, or what it is for stays.
LEMMA GoneRows ==
  ASSUME GoneInv, CatalogInv', SwitchesOk', UNCHANGED <<product, crossed, forced>>,
         \A x \in Call : call'[x] = call[x] \/ call'[x] = Idle,
         \A s \in 1 .. Len(sub') :
           /\ product[sub'[s].p].scope # "none"
           /\ \/ Stays(s)
              \/ sub'[s].active => s \in late' \/ ~Going(sub'[s].p)
  PROVE  GoneInv'
<1>1. SoldExist'
  BY DEF SoldExist
<1>2. ASSUME NEW s \in 1 .. Len(sub'), Stays(s), Missed(s, product, sub, late, crossed)
      PROVE  Missed(s, product', sub', late', crossed')
  BY <1>2 DEF Missed, Stays
<1>3. \A x \in Call : Sees(call'[x], product', crossed')
  BY DEF GoneInv, CallsReady, Ready, Sees, Idle, Deactivating
<1>4. ASSUME NEW x \in Call, call'[x].pc = "off", NEW s \in 1 .. Len(sub'),
             sub'[s].p = call'[x].p, sub'[s].active
      PROVE  Missed(s, product', sub', late', crossed')
  <2>1. call'[x] = call[x]
    BY <1>4 DEF Idle
  <2>2. CASE ~Stays(s)
    BY <1>4, <2>1, <2>2 DEF Going, At, Missed
  <2>3. CASE Stays(s)
    <3>1. s \in 1 .. Len(sub) /\ sub[s].p = call[x].p /\ sub[s].active
      BY <1>4, <2>1, <2>3 DEF Stays
    <3>2. Missed(s, product, sub, late, crossed)
      BY <1>4, <2>1, <3>1 DEF GoneInv, CallsReady, Ready, Counted
    <3> QED
      BY <1>2, <2>3, <3>2
  <2> QED
    BY <2>2, <2>3
<1>5. \A x \in Call : call'[x].pc = "newSub" => product'[call'[x].p].scope # "none"
  BY DEF GoneInv, CallsReady, Ready, Idle
<1>6. CallsReady'
  BY <1>3, <1>4, <1>5 DEF CallsReady, Ready, Counted
<1>7. ASSUME NEW s \in 1 .. Len(sub'), sub'[s].active, ~product'[sub'[s].p].active,
             sub'[s].p \notin forced'
      PROVE  Missed(s, product', sub', late', crossed')
  <2>1. CASE ~Stays(s)
    BY <1>7, <2>1 DEF Going, Missed
  <2>2. CASE Stays(s)
    <3>1. /\ s \in 1 .. Len(sub) /\ sub[s].active /\ ~product[sub[s].p].active
          /\ sub[s].p \notin forced
      BY <1>7, <2>2 DEF Stays
    <3>2. Missed(s, product, sub, late, crossed)
      BY <3>1 DEF GoneInv, GoneOk
    <3> QED
      BY <1>2, <2>2, <3>2
  <2> QED
    BY <2>1, <2>2
<1>8. GoneOk'
  BY <1>7 DEF GoneOk
<1> QED
  BY <1>1, <1>6, <1>8 DEF GoneInv

LEMMA GoneStarts ==
  ASSUME GoneInv, CatalogInv', SwitchesOk', NEW c \in Call, NewSub(c)
  PROVE  GoneInv'
<1>1. PICK active \in BOOLEAN :
        /\ sub' = Append(sub, FirstSub(call[c].d, call[c].p, active, call[c].goal))
        /\ late' = IF active /\ Going(call[c].p) THEN late \cup {Len(sub) + 1} ELSE late
  BY DEF NewSub, FirstSub
<1> DEFINE row == FirstSub(call[c].d, call[c].p, active, call[c].goal)
<1>2. /\ call[c].d \in Distributor /\ call[c].p \in Product
      /\ call[c].goal \in {"customer", "distributor"}
      /\ product[call[c].p].scope # "none"
  BY DEF NewSub, At, GoneInv, CatalogInv, CallsOk, CallOk, OfProduct, CallsReady, Ready
<1>3. row \in Sub /\ row.p = call[c].p /\ row.active = active
  BY <1>2, FirstSubIs DEF FirstSub
<1> HIDE DEF row
<1>4. sub \in Seq(Sub) /\ sub' = Append(sub, row) /\ Len(sub) \in Nat
  BY <1>1 DEF GoneInv, CatalogInv, TypeOK, row
<1>5. /\ Len(sub') = Len(sub) + 1
      /\ \A i \in 1 .. Len(sub) : sub'[i] = sub[i]
      /\ sub'[Len(sub) + 1] = row
  BY <1>3, <1>4, AppendProperties
<1>6. \A s \in 1 .. Len(sub') : s # Len(sub) + 1 => s \in 1 .. Len(sub)
  BY <1>4, <1>5
<1>8. \A x \in Call : call'[x] = call[x] \/ call'[x] = Idle
  BY DEF NewSub, End, GoneInv, CatalogInv, TypeOK
<1>9. UNCHANGED <<product, crossed, forced>>
  BY DEF NewSub
<1>10. active => Len(sub) + 1 \in late' \/ ~Going(call[c].p)
  BY <1>1
<1>11. late \subseteq late'
  BY <1>1
<1>12. ASSUME NEW s \in 1 .. Len(sub'), s # Len(sub) + 1
       PROVE  product[sub'[s].p].scope # "none" /\ Stays(s)
  BY <1>5, <1>6, <1>11, <1>12 DEF Stays, GoneInv, SoldExist
<1>13. \A s \in 1 .. Len(sub') :
         /\ product[sub'[s].p].scope # "none"
         /\ Stays(s) \/ (sub'[s].active => s \in late' \/ ~Going(sub'[s].p))
  BY <1>2, <1>3, <1>5, <1>10, <1>12
<1> QED
  BY <1>8, <1>9, <1>13, GoneRows

LEMMA GoneChanges ==
  ASSUME GoneInv, CatalogInv', SwitchesOk', NEW i \in 1 .. Len(sub), ChangeSub(i)
  PROVE  GoneInv'
<1> DEFINE row == [sub[i] EXCEPT !.active = ~@]
<1>1. sub[i] \in Sub /\ sub \in Seq(Sub)
  BY ElementOfSeq DEF GoneInv, CatalogInv, TypeOK
<1>2. row \in Sub /\ row.p = sub[i].p
  BY <1>1, SubToggled
<1>3. row.active => ~sub[i].active
  BY <1>1 DEF Sub
<1>4. sub' = [sub EXCEPT ![i] = row]
  BY DEF ChangeSub
<1> HIDE DEF row
<1>5. /\ Len(sub') = Len(sub)
      /\ \A j \in 1 .. Len(sub) : sub'[j] = IF j = i THEN row ELSE sub[j]
  BY <1>1, <1>2, <1>4, ExceptSeq
<1>6. /\ late' = IF ~sub[i].active /\ Going(sub[i].p) THEN late \cup {i} ELSE late \ {i}
      /\ UNCHANGED <<product, crossed, forced, call>>
  BY DEF ChangeSub
<1>7. product[sub[i].p].scope # "none"
  BY DEF GoneInv, SoldExist
<1>8. \A s \in 1 .. Len(sub) : s # i => (s \in late => s \in late')
  BY <1>6
<1>9. row.active => i \in late' \/ ~Going(sub[i].p)
  BY <1>3, <1>6
<1>10. \A s \in 1 .. Len(sub') :
         /\ product[sub'[s].p].scope # "none"
         /\ Stays(s) \/ (sub'[s].active => s \in late' \/ ~Going(sub'[s].p))
  <2>1. ASSUME NEW s \in 1 .. Len(sub), s # i
        PROVE  product[sub'[s].p].scope # "none" /\ Stays(s)
    BY <1>5, <1>8, <2>1 DEF Stays, GoneInv, SoldExist
  <2> QED
    BY <1>2, <1>5, <1>7, <1>9, <2>1
<1> QED
  BY <1>6, <1>10, GoneRows

LEMMA GoneMoves ==
  ASSUME GoneInv, CatalogInv', SwitchesOk', NEW c \in Call, Switch(c)
  PROVE  GoneInv'
<1> DEFINE t == call[c].s
<1>1. /\ t \in 1 .. Len(sub) /\ Len(sub') = Len(sub)
      /\ \A i \in 1 .. Len(sub) : i # t => sub'[i] = sub[i]
      /\ sub'[t].p = call[c].p /\ sub'[t].d = sub[t].d
      /\ sub'[t].active <=> sub[t].active
      /\ May(product, call[c].d, call[c].p)
  BY SwitchIs DEF GoneInv
<1>2. /\ sub[t].p = call[c].p => late' = late
      /\ sub[t].p # call[c].p /\ sub[t].active /\ Going(call[c].p) => t \in late'
      /\ \A s \in 1 .. Len(sub) : s # t => (s \in late => s \in late')
  BY DEF Switch
<1> HIDE DEF t
<1>3. \A x \in Call : call'[x] = call[x] \/ call'[x] = Idle
  BY DEF Switch, End, GoneInv, CatalogInv, TypeOK
<1>4. UNCHANGED <<product, crossed, forced>>
  BY DEF Switch
<1>5. ASSUME NEW s \in 1 .. Len(sub), s # t
      PROVE  product[sub'[s].p].scope # "none" /\ Stays(s)
  BY <1>1, <1>2, <1>5 DEF Stays, GoneInv, SoldExist
<1>6. product[sub'[t].p].scope # "none"
  BY <1>1 DEF May
<1>7. Stays(t) \/ (sub'[t].active => t \in late' \/ ~Going(sub'[t].p))
  <2>1. CASE sub[t].p = call[c].p
    BY <1>1, <1>2, <2>1 DEF Stays
  <2>2. CASE sub[t].p # call[c].p
    BY <1>1, <1>2, <2>2
  <2> QED
    BY <2>1, <2>2
<1> QED
  BY <1>1, <1>3, <1>4, <1>5, <1>6, <1>7, GoneRows

LEMMA GoneKept == GoneInv /\ [Next]_vars => GoneInv'
<1> SUFFICES ASSUME GoneInv, [Next]_vars PROVE GoneInv'
  OBVIOUS
<1>1. CatalogInv' /\ SwitchesOk'
  BY InvKept DEF GoneInv
<1>2. ASSUME NEW p \in Product,
             \/ CreateGlobal(p) \/ UpdateGlobal(p)
             \/ \E c \in Call, d \in Distributor : CreateCustom(c, d, p)
      PROVE  GoneInv'
  BY <1>1, <1>2, GoneCreates, GoneSwitches
<1>3. ASSUME NEW p \in Product, NEW c \in Call,
             DeactivateGlobal(c, p) \/ ReviewRead(c, p) \/ PromoteRead(c, p)
      PROVE  GoneInv'
  BY <1>1, <1>3, GoneReads
<1>4. ASSUME NEW p \in Product, NEW c \in Call, NEW d \in Distributor,
             \/ DeactivateCustom(c, d, p) \/ RequestPromotion(c, d, p)
             \/ CreatePricing(c, d, p) \/ Subscribe(c, d, p) \/ Sell(c, d, p)
      PROVE  GoneInv'
  BY <1>1, <1>4, GoneReads
<1>5. ASSUME NEW p \in Product, NEW d \in Distributor, UpdateProducts(d, p) PROVE GoneInv'
  BY <1>1, <1>5, GoneSame DEF UpdateProducts, GoneInv, CallsReady
<1>6. ASSUME NEW c \in Call,
             \/ CountUses(c) \/ Deactivate(c) \/ CreateEnable(c) \/ CreatePrice(c)
             \/ Review(c) \/ Promote(c) \/ Enabled(c) \/ Duplicate(c)
             \/ NewPrice(c) \/ Priced(c) \/ NewSub(c) \/ Die(c)
             \/ SwitchPrice(c) \/ SwitchUse(c) \/ Switch(c)
      PROVE  GoneInv'
  BY <1>1, <1>6, GoneCounts, GoneWrites, GoneHandlers, GoneStarts, GoneMoves
<1>7. ASSUME NEW i \in 1 .. Len(price), UpdatePricing(i) PROVE GoneInv'
  BY <1>1, <1>7, GoneSame DEF UpdatePricing, GoneInv, CallsReady
<1>8. ASSUME NEW s \in 1 .. Len(sub), ChangeSub(s) PROVE GoneInv'
  BY <1>1, <1>8, GoneChanges
<1>9. ASSUME NEW s \in 1 .. Len(sub), NEW c \in Call, NEW p \in Product, SwitchRead(c, s, p)
       PROVE  GoneInv'
  <2>1. PICK k \in CallState : call' = [call EXCEPT ![c] = k] /\ k.pc = "switchPrice"
    BY <1>9, SwitchReadIs DEF GoneInv
  <2>2. k.pc \notin Deactivating \cup {"newSub"}
    BY <2>1 DEF Deactivating
  <2>3. \A x \in Call : Ready(call'[x], product, sub, late, crossed)
    BY <2>1, <2>2, OneReady
  <2> QED
    BY <1>1, <1>9, <2>3, GoneSame DEF SwitchRead, history
<1>10. CASE UNCHANGED vars
  BY <1>1, <1>10, GoneSame DEF vars, history, GoneInv, CallsReady
<1> QED
  BY <1>2, <1>3, <1>4, <1>5, <1>6, <1>7, <1>8, <1>9, <1>10 DEF Next

LEMMA GoneInit == Init => GoneInv
<1> SUFFICES ASSUME Init PROVE GoneInv
  OBVIOUS
<1>1. CallsReady
  BY DEF Init, CallsReady, Ready, Sees, Counted, Idle, Deactivating
<1>2. SoldExist /\ GoneOk
  BY DEF Init, SoldExist, GoneOk
<1> QED
  BY <1>1, <1>2, InvInit DEF GoneInv

LEMMA GoneHolds == Spec => []GoneInv
  BY GoneInit, GoneKept, PTL DEF Spec

\* A product that is gone under a running subscription was switched off by an
\* update, or by a deactivation that could not see the subscription.
THEOREM GoneProductExplained == Spec => []GoneProductIsExplained
<1>1. GoneInv => GoneProductIsExplained
  BY DEF GoneInv, GoneOk, Missed, GoneProductIsExplained, Scope
<1> QED
  BY <1>1, GoneHolds, PTL
=============================================================================
