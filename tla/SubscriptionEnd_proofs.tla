----------------------- MODULE SubscriptionEnd_proofs -----------------------
(***************************************************************************)
(* Proofs about SubscriptionEnd, for any number of handlers, subscriptions *)
(* and end requests.                                                       *)
(*                                                                         *)
(* EndInv is the inductive invariant.  It says of each row what the        *)
(* properties need (EndOk), and of each handler in flight what its         *)
(* snapshot still says about rows that others go on writing (CallOk).  The *)
(* rows a handler relies on are only ever written in ways that keep it     *)
(* (RowsKept), so a step of one handler keeps the others' CallOk.          *)
(***************************************************************************)
EXTENDS SubscriptionEnd, SequenceTheorems, TLAPS

\* Not open as things stand, or open again only because somebody reopened it.
Shut(x, ss, rev) == ss[x].status \notin Open \/ x \in rev

EndOk(e) ==
  /\ e.by \in e.confirmed
  /\ e.by \in e.acted
  /\ e.status = "APPROVED" => e.acted = Party
  /\ e.status = "REJECTED" => e.decider # e.by

CallOk(r, ss, es, rev) ==
  /\ r \in CallState
  /\ r.sub \in 0 .. Len(ss)
  /\ r.req \in 0 .. Len(es)
  /\ r.pc # "wait"
  /\ r.pc \notin {"idle", "create"} => r.sub # 0
  /\ r.pc \in {"settle", "issue", "close", "keep"} =>
       r.req # 0 /\ es[r.req].sub = r.sub /\ es[r.req].by # r.party
  /\ r.pc = "create" => r.seen <= Len(ss) /\ \A x \in 1 .. r.seen : Shut(x, ss, rev)

EndInv ==
  /\ TypeOK
  /\ \A e \in EndIds : EndOk(ends[e])
  /\ \A c \in Call : CallOk(call[c], subs, ends, revived)
  /\ \A y \in SubIds : subs[y].seen < y
  /\ \A x, y \in SubIds : x <= subs[y].seen => Shut(x, subs, revived)
  /\ EndingHasRequest

(***************************************************************************)
(* Updates of rows and of a handler's state.                               *)
(***************************************************************************)
LEMMA CallTypes ==
  ASSUME NEW r \in CallState
  PROVE  /\ r.sub \in Nat /\ r.req \in Nat /\ r.party \in Party /\ r.seen \in Nat
         /\ r.bill \in Nat
  BY DEF CallState

LEMMA IdleOk ==
  ASSUME NEW ss, NEW es, NEW rev, Len(ss) \in Nat, Len(es) \in Nat
  PROVE  CallOk(IdleCall, ss, es, rev)
  BY DEF CallOk, IdleCall, CallState, Party

\* What a handler that starts on a subscription remembers.
LEMMA OnTypes ==
  ASSUME NEW s \in Nat, NEW e \in Nat, NEW p \in Party, NEW pc \in {"approve", "decline", "ask"},
         NEW pd \in {"settle", "keep"}
  PROVE  /\ On(s, p, pc) \in CallState
         /\ On(s, p, pc).pc = pc /\ On(s, p, pc).sub = s /\ On(s, p, pc).req = 0
         /\ OnEnd(s, e, p, pd) \in CallState
         /\ OnEnd(s, e, p, pd).pc = pd /\ OnEnd(s, e, p, pd).sub = s
         /\ OnEnd(s, e, p, pd).req = e /\ OnEnd(s, e, p, pd).party = p
  BY DEF On, OnEnd, IdleCall, CallState

LEMMA SettlingTypes ==
  ASSUME NEW r \in CallState, NEW b \in Nat
  PROVE  /\ Owing(r) \in CallState /\ Settled(r, b) \in CallState
         /\ Owing(r).pc = "issue" /\ Settled(r, b).pc = "close"
         /\ Owing(r).sub = r.sub /\ Settled(r, b).sub = r.sub
         /\ Owing(r).req = r.req /\ Settled(r, b).req = r.req
         /\ Owing(r).party = r.party /\ Settled(r, b).party = r.party
  BY DEF Owing, Settled, CallState

LEMMA EndTypes ==
  ASSUME NEW e \in EndRequest
  PROVE  /\ e.sub \in Nat \ {0} /\ e.by \in Party /\ e.acted \in SUBSET Party
         /\ e.confirmed \in SUBSET Party /\ e.decider \in Party \cup {"nobody"}
         /\ e.status \in {"PENDING", "APPROVED", "REJECTED"}
  BY DEF EndRequest

\* Deciding a request keeps what it says of the parties.
LEMMA Decided ==
  ASSUME NEW e \in EndRequest, EndOk(e), NEW p \in Party, p # e.by, NEW b \in Nat
  PROVE  /\ Approved(e, p, b) \in EndRequest /\ EndOk(Approved(e, p, b))
         /\ Approved(e, p, b).sub = e.sub /\ Approved(e, p, b).by = e.by
         /\ Rejected(e, p) \in EndRequest /\ EndOk(Rejected(e, p))
         /\ Rejected(e, p).sub = e.sub /\ Rejected(e, p).by = e.by
<1>1. /\ Approved(e, p, b) \in EndRequest
      /\ Approved(e, p, b).sub = e.sub /\ Approved(e, p, b).by = e.by
      /\ Approved(e, p, b).confirmed = Party /\ Approved(e, p, b).acted = e.acted \cup {p}
      /\ Approved(e, p, b).status = "APPROVED"
  BY DEF Approved, EndRequest
<1>2. /\ Rejected(e, p) \in EndRequest
      /\ Rejected(e, p).sub = e.sub /\ Rejected(e, p).by = e.by
      /\ Rejected(e, p).confirmed = e.confirmed /\ Rejected(e, p).acted = e.acted
      /\ Rejected(e, p).status = "REJECTED" /\ Rejected(e, p).decider = p
  BY DEF Rejected, EndRequest
<1>3. EndOk(Approved(e, p, b))
  BY <1>1, EndTypes DEF EndOk, Party
<1>4. EndOk(Rejected(e, p))
  BY <1>2 DEF EndOk
<1> QED
  BY <1>1, <1>2, <1>3, <1>4

LEMMA Asked ==
  ASSUME NEW s \in Nat \ {0}, NEW p \in Party
  PROVE  /\ NewEnd(s, p) \in EndRequest /\ EndOk(NewEnd(s, p))
         /\ NewEnd(s, p).sub = s /\ NewEnd(s, p).status = "PENDING"
  BY DEF NewEnd, EndRequest, EndOk, FirstConfirmed

LEMMA StatusUpdate ==
  ASSUME NEW row \in Subscription, NEW st \in SubStatus
  PROVE  /\ WithStatus(row, st) \in Subscription
         /\ WithStatus(row, st).status = st /\ WithStatus(row, st).seen = row.seen
  BY DEF WithStatus, Subscription

LEMMA Rows ==
  ASSUME TypeOK
  PROVE  /\ Len(subs) \in Nat /\ Len(ends) \in Nat
         /\ \A s \in SubIds : subs[s] \in Subscription
         /\ \A e \in EndIds : ends[e] \in EndRequest
  BY ElementOfSeq DEF TypeOK, SubIds, EndIds

LEMMA SetSubEffect ==
  ASSUME TypeOK, NEW s \in SubIds, NEW st \in SubStatus, SetSub(s, st)
  PROVE  /\ subs' \in Seq(Subscription) /\ Len(subs') = Len(subs) /\ SubIds' = SubIds
         /\ subs'[s].status = st /\ subs'[s].seen = subs[s].seen
         /\ \A n \in SubIds : n # s => subs'[n] = subs[n]
         /\ revived' \subseteq SubIds
         /\ \A x \in SubIds : Shut(x, subs, revived) => Shut(x, subs', revived')
<1> DEFINE row == WithStatus(subs[s], st)
<1>1. row \in Subscription /\ row.status = st /\ row.seen = subs[s].seen
  BY Rows, StatusUpdate
<1>2. subs' = [subs EXCEPT ![s] = row]
  BY DEF SetSub
<1> HIDE DEF row
<1>3. /\ subs' \in Seq(Subscription) /\ Len(subs') = Len(subs)
      /\ subs'[s] = row
      /\ \A n \in SubIds : n # s => subs'[n] = subs[n]
  BY <1>1, <1>2, ExceptSeq DEF TypeOK, SubIds
<1>4. revived' \subseteq SubIds /\ revived \subseteq revived'
  BY DEF SetSub, TypeOK
<1>5. ASSUME NEW x \in SubIds, Shut(x, subs, revived) PROVE Shut(x, subs', revived')
  <2>1. CASE x # s
    BY <1>3, <1>4, <1>5, <2>1 DEF Shut
  <2>2. CASE x = s
    BY <1>1, <1>3, <1>4, <1>5, <2>2 DEF Shut, SetSub
  <2> QED
    BY <2>1, <2>2
<1> QED
  BY <1>1, <1>3, <1>4, <1>5 DEF SubIds

(***************************************************************************)
(* A step keeps the invariant when it keeps the rows the handlers rely on. *)
(***************************************************************************)
RowsKept ==
  /\ Len(subs') \in Nat /\ Len(subs) <= Len(subs')
  /\ Len(ends') \in Nat /\ Len(ends) <= Len(ends')
  /\ \A x \in SubIds : Shut(x, subs, revived) => Shut(x, subs', revived')
  /\ \A e \in EndIds : ends'[e].sub = ends[e].sub /\ ends'[e].by = ends[e].by

LEMMA CallKept ==
  ASSUME TypeOK, RowsKept, NEW c \in Call, CallOk(call[c], subs, ends, revived)
  PROVE  CallOk(call[c], subs', ends', revived')
<1>1. Len(subs) \in Nat /\ Len(ends) \in Nat
  BY Rows
<1>2. /\ call[c].sub \in 0 .. Len(subs') /\ call[c].req \in 0 .. Len(ends')
      /\ call[c].req # 0 => call[c].req \in EndIds
  BY <1>1 DEF RowsKept, CallOk, EndIds
<1>3. ASSUME call[c].pc = "create"
      PROVE  call[c].seen <= Len(subs') /\ \A x \in 1 .. call[c].seen : Shut(x, subs', revived')
  <2>1. call[c].seen \in Nat /\ call[c].seen <= Len(subs)
    BY <1>3, CallTypes DEF CallOk
  <2>2. \A x \in 1 .. call[c].seen : x \in SubIds /\ Shut(x, subs, revived)
    BY <1>1, <1>3, <2>1 DEF CallOk, SubIds
  <2> QED
    BY <1>1, <2>1, <2>2 DEF RowsKept
<1> QED
  BY <1>2, <1>3 DEF RowsKept, CallOk

\* The handlers but c, and with c the whole invariant but its last two parts.
LEMMA CallsKept ==
  ASSUME EndInv, RowsKept, NEW c \in Call, NEW r,
         call' = [call EXCEPT ![c] = r], CallOk(r, subs', ends', revived')
  PROVE  /\ \A d \in Call : CallOk(call'[d], subs', ends', revived')
         /\ call' \in [Call -> CallState]
         /\ \A d \in Call : call'[d].sub \in SubIds' \cup {0} /\ call'[d].req \in EndIds' \cup {0}
<1>1. call \in [Call -> CallState]
  BY DEF EndInv, TypeOK
<1>2. \A d \in Call : CallOk(call'[d], subs', ends', revived')
  BY <1>1, CallKept DEF EndInv
<1>3. \A d \in Call : call'[d] \in CallState
  BY <1>2 DEF CallOk
<1> QED
  BY <1>1, <1>2, <1>3 DEF CallOk, RowsKept, SubIds, EndIds

\* A step that touches no row.
LEMMA OnlyCall ==
  ASSUME EndInv, NEW c \in Call, NEW r, call' = [call EXCEPT ![c] = r],
         CallOk(r, subs, ends, revived), raced' \subseteq SubIds, bills' \in Seq(Nat),
         unbilled' \subseteq SubIds, UNCHANGED <<subs, ends, edited, revived>>
  PROVE  EndInv'
<1>1. SubIds' = SubIds /\ EndIds' = EndIds
  BY DEF SubIds, EndIds
<1>2. RowsKept
  BY Rows DEF RowsKept, EndInv
<1>3. CallOk(r, subs', ends', revived')
  OBVIOUS
<1>4. /\ \A d \in Call : CallOk(call'[d], subs', ends', revived')
      /\ call' \in [Call -> CallState]
      /\ \A d \in Call : call'[d].sub \in SubIds' \cup {0} /\ call'[d].req \in EndIds' \cup {0}
  BY <1>2, <1>3, CallsKept
<1>5. TypeOK'
  BY <1>1, <1>4 DEF EndInv, TypeOK
<1>6. EndingHasRequest'
  BY <1>1 DEF EndInv, EndingHasRequest, PendingEnds
<1> QED
  BY <1>1, <1>4, <1>5, <1>6 DEF EndInv

\* A step that ends handler c, or involves none, with a write to subscription s
\* and to requests of s.
LEMMA SubWritten ==
  ASSUME EndInv, NEW s \in SubIds, NEW st \in SubStatus, SetSub(s, st),
         call' = call \/ \E c \in Call : Finish(c),
         ends' \in Seq(EndRequest), Len(ends) <= Len(ends'),
         \A e \in EndIds : /\ ends'[e].sub = ends[e].sub /\ ends'[e].by = ends[e].by
                           /\ ends[e].sub # s => ends'[e] = ends[e],
         \A e \in EndIds' : EndOk(ends'[e]) /\ ends'[e].sub \in SubIds,
         st = "PENDING_CANCEL" =>
           \E e \in EndIds' : ends'[e].sub = s /\ ends'[e].status = "PENDING",
         edited' \subseteq SubIds, UNCHANGED <<unbilled, bills, raced>>
  PROVE  EndInv'
<1>1. /\ subs' \in Seq(Subscription) /\ Len(subs') = Len(subs) /\ SubIds' = SubIds
      /\ subs'[s].status = st /\ subs'[s].seen = subs[s].seen
      /\ \A n \in SubIds : n # s => subs'[n] = subs[n]
      /\ revived' \subseteq SubIds
      /\ \A x \in SubIds : Shut(x, subs, revived) => Shut(x, subs', revived')
  BY SetSubEffect DEF EndInv
<1>2. Len(ends') \in Nat /\ EndIds \subseteq EndIds'
  BY Rows DEF EndIds, EndInv
<1>3. RowsKept
  BY <1>1, <1>2, Rows DEF RowsKept, EndInv
<1>4. /\ \A d \in Call : CallOk(call'[d], subs', ends', revived')
      /\ call' \in [Call -> CallState]
      /\ \A d \in Call : call'[d].sub \in SubIds' \cup {0} /\ call'[d].req \in EndIds' \cup {0}
  <2>1. CASE call' = call
    <3>1. \A d \in Call : CallOk(call[d], subs', ends', revived')
      BY <1>3, CallKept DEF EndInv
    <3> QED
      BY <1>1, <1>2, <2>1, <3>1 DEF EndInv, TypeOK
  <2>2. ASSUME NEW c \in Call, Finish(c)
        PROVE  /\ \A d \in Call : CallOk(call'[d], subs', ends', revived')
               /\ call' \in [Call -> CallState]
               /\ \A d \in Call : call'[d].sub \in SubIds' \cup {0} /\ call'[d].req \in EndIds' \cup {0}
    <3>1. CallOk(IdleCall, subs', ends', revived')
      BY <1>3, IdleOk DEF RowsKept
    <3> QED
      BY <1>3, <2>2, <3>1, CallsKept DEF Finish
  <2> QED
    BY <2>1, <2>2
<1>5. TypeOK'
  BY <1>1, <1>4 DEF EndInv, TypeOK
<1>6. /\ \A y \in SubIds' : subs'[y].seen < y
      /\ \A x, y \in SubIds' : x <= subs'[y].seen => Shut(x, subs', revived')
  <2>1. \A y \in SubIds : subs'[y].seen = subs[y].seen
    BY <1>1
  <2> QED
    BY <1>1, <2>1 DEF EndInv
<1>7. ASSUME NEW n \in SubIds', subs'[n].status = "PENDING_CANCEL"
      PROVE  \E e \in EndIds' : ends'[e].sub = n /\ ends'[e].status = "PENDING"
  <2>1. CASE n = s
    BY <1>1, <1>7, <2>1
  <2>2. CASE n # s
    <3>1. PICK e \in EndIds : ends[e].sub = n /\ ends[e].status = "PENDING"
      BY <1>1, <1>7, <2>2 DEF EndInv, EndingHasRequest, PendingEnds
    <3> QED
      BY <1>2, <2>2, <3>1
  <2> QED
    BY <2>1, <2>2
<1>8. EndingHasRequest'
  BY <1>7 DEF EndingHasRequest, PendingEnds
<1> QED
  BY <1>4, <1>5, <1>6, <1>8 DEF EndInv

\* The request a handler decides is rewritten, and its subscription with it.
LEMMA EndDecided ==
  ASSUME EndInv, NEW c \in Call, call[c].pc \in {"close", "keep"}, Finish(c),
         NEW e \in EndRequest, EndOk(e),
         e.sub = ends[call[c].req].sub, e.by = ends[call[c].req].by,
         ends' = [ends EXCEPT ![call[c].req] = e],
         NEW st \in SubStatus \ {"PENDING_CANCEL"}, SetSub(call[c].sub, st),
         UNCHANGED <<unbilled, bills, raced, edited>>
  PROVE  EndInv'
<1> DEFINE q == call[c].req
           s == call[c].sub
<1>1. q \in EndIds /\ s \in SubIds /\ ends[q].sub = s
  BY Rows DEF EndInv, CallOk, EndIds, SubIds
<1>2. /\ ends' \in Seq(EndRequest) /\ Len(ends') = Len(ends)
      /\ ends'[q] = e
      /\ \A n \in EndIds : n # q => ends'[n] = ends[n]
  BY <1>1, ExceptSeq DEF EndInv, TypeOK, EndIds
<1>3. EndIds' = EndIds /\ Len(ends) <= Len(ends')
  BY <1>2, Rows DEF EndIds, EndInv
<1>4. \A n \in EndIds : /\ ends'[n].sub = ends[n].sub /\ ends'[n].by = ends[n].by
                        /\ ends[n].sub # s => ends'[n] = ends[n]
  BY <1>1, <1>2
<1>5. \A n \in EndIds : EndOk(ends'[n]) /\ ends'[n].sub \in SubIds
  BY <1>1, <1>2 DEF EndInv, TypeOK
<1>6. edited' \subseteq SubIds
  BY DEF EndInv, TypeOK
<1> HIDE DEF q, s
<1>7. SetSub(s, st)
  BY DEF s
<1> QED
  BY <1>1, <1>2, <1>3, <1>4, <1>5, <1>6, <1>7, SubWritten

(***************************************************************************)
(* The steps of a handler.                                                 *)
(***************************************************************************)
LEMMA ReadStep ==
  ASSUME EndConstants, EndInv, NEW c \in Call
  PROVE  /\ \A p \in Party : CreateCheck(c, p) => EndInv'
         /\ \A s \in SubIds, v \in {"approve", "decline"} : ReviewRead(c, s, v) => EndInv'
         /\ \A s \in SubIds, p \in Party : RequestRead(c, s, p) => EndInv'
         /\ \A s \in SubIds, e \in EndIds, p \in Party : ConfirmRead(c, s, e, p) => EndInv'
         /\ \A s \in SubIds, e \in EndIds, p \in Party : RejectRead(c, s, e, p) => EndInv'
<1>a. /\ Len(subs) \in Nat /\ Len(ends) \in Nat
      /\ bills \in Seq(Nat) /\ unbilled \subseteq SubIds /\ raced \subseteq SubIds
  BY Rows DEF EndInv, TypeOK
<1>b. ASSUME NEW s \in SubIds, NEW r, Start(c, s, r), CallOk(r, subs, ends, revived),
             UNCHANGED <<subs, ends, unbilled, bills, edited, revived>>
      PROVE  EndInv'
  <2>1. call' = [call EXCEPT ![c] = r] /\ raced' \subseteq SubIds
    BY <1>a, <1>b DEF Start
  <2> QED
    BY <1>a, <1>b, <2>1, OnlyCall
<1>c. ASSUME NEW s \in SubIds, NEW p \in Party, NEW v \in {"approve", "decline", "ask"}
      PROVE  CallOk(On(s, p, v), subs, ends, revived)
  <2> DEFINE r == On(s, p, v)
  <2>1. r \in CallState /\ r.pc = v /\ r.sub = s /\ r.req = 0 /\ s \in 1 .. Len(subs)
    BY OnTypes DEF SubIds
  <2> HIDE DEF r
  <2>2. CallOk(r, subs, ends, revived)
    BY <1>a, <2>1 DEF CallOk
  <2> QED
    BY <2>2 DEF r
<1>d. ASSUME NEW s \in SubIds, NEW e \in EndIds, NEW p \in Party, NEW v \in {"settle", "keep"},
             ends[e].sub = s, ends[e].by # p
      PROVE  CallOk(OnEnd(s, e, p, v), subs, ends, revived)
  <2> DEFINE r == OnEnd(s, e, p, v)
  <2>1. /\ r \in CallState /\ r.pc = v /\ r.sub = s /\ r.req = e /\ r.party = p
        /\ s \in 1 .. Len(subs) /\ e \in 1 .. Len(ends)
    BY OnTypes DEF SubIds, EndIds
  <2> HIDE DEF r
  <2>2. CallOk(r, subs, ends, revived)
    BY <1>a, <1>d, <2>1 DEF CallOk
  <2> QED
    BY <2>2 DEF r
<1>1. ASSUME NEW p \in Party, CreateCheck(c, p) PROVE EndInv'
  <2>1. /\ Creating(p) \in CallState /\ Creating(p).pc = "create"
        /\ Creating(p).sub = 0 /\ Creating(p).req = 0 /\ Creating(p).seen = Len(subs)
    BY <1>a DEF Creating, IdleCall, CallState
  <2>2. \A x \in 1 .. Len(subs) : Shut(x, subs, revived)
    BY <1>1 DEF CreateCheck, SubIds, Shut, Blocking, Open
  <2>3. CallOk(Creating(p), subs, ends, revived)
    BY <1>a, <2>1, <2>2 DEF CallOk
  <2> QED
    BY <1>1, <1>a, <2>3, OnlyCall DEF CreateCheck
<1>2. ASSUME NEW s \in SubIds, NEW v \in {"approve", "decline"}, ReviewRead(c, s, v) PROVE EndInv'
  BY <1>2, <1>b, <1>c DEF ReviewRead, Party
<1>3. ASSUME NEW s \in SubIds, NEW p \in Party, RequestRead(c, s, p) PROVE EndInv'
  BY <1>3, <1>b, <1>c DEF RequestRead
<1>4. ASSUME NEW s \in SubIds, NEW e \in EndIds, NEW p \in Party, ConfirmRead(c, s, e, p) PROVE EndInv'
  <2>1. ends[e].sub = s /\ p \notin ends[e].confirmed
    BY <1>4 DEF ConfirmRead, Latest, PendingEnds
  <2>2. ends[e].by \in ends[e].confirmed /\ ends[e].by \in Party
    BY Rows, EndTypes DEF EndInv, EndOk
  <2>3. ends[e].by # p /\ BothWillConfirm(ends[e], p)
    BY <2>1, <2>2 DEF BothWillConfirm, Other, Party
  <2> QED
    BY <1>4, <1>b, <1>d, <2>1, <2>3 DEF ConfirmRead
<1>5. ASSUME NEW s \in SubIds, NEW e \in EndIds, NEW p \in Party, RejectRead(c, s, e, p) PROVE EndInv'
  BY <1>5, <1>b, <1>d DEF RejectRead, MayReject, Latest, PendingEnds
<1> QED
  BY <1>1, <1>2, <1>3, <1>4, <1>5

LEMMA WriteStep ==
  ASSUME EndConstants, EndInv, NEW c \in Call
  PROVE  /\ CreateWrite(c) => EndInv'
         /\ ReviewWrite(c) => EndInv'
         /\ RequestWrite(c) => EndInv'
         /\ SettleRead(c) => EndInv'
         /\ SettleIssue(c) => EndInv'
         /\ Close(c) => EndInv'
         /\ RejectWrite(c) => EndInv'
         /\ CallFails(c) => EndInv'
<1> DEFINE s == call[c].sub
           p == call[c].party
           b == call[c].bill
           e == ends[call[c].req]
<1>a. /\ Len(subs) \in Nat /\ Len(ends) \in Nat /\ raced \subseteq SubIds
      /\ bills \in Seq(Nat) /\ unbilled \subseteq SubIds /\ edited \subseteq SubIds
  BY Rows DEF EndInv, TypeOK
<1>b. call[c] \in CallState /\ CallOk(call[c], subs, ends, revived)
  BY DEF EndInv, TypeOK
<1>c. p \in Party /\ b \in Nat /\ s \in Nat
  BY <1>b, CallTypes
<1>d. call[c].pc \notin {"idle", "create"} => s \in SubIds
  BY <1>a, <1>b, <1>c DEF CallOk, SubIds
<1>e. call[c].pc \in {"close", "keep"} =>
        e \in EndRequest /\ EndOk(e) /\ p # e.by
  BY <1>a, <1>b, Rows DEF CallOk, EndInv, EndIds
<1>f. CallOk(IdleCall, subs, ends, revived)
  BY <1>a, IdleOk
<1>1. ASSUME CreateWrite(c) PROVE EndInv'
  <2> DEFINE row == [status |-> FirstStatus(p), seen |-> call[c].seen]
  <2>1. /\ row \in Subscription /\ row.seen = call[c].seen
        /\ row.status # "PENDING_CANCEL"
    BY <1>b, CallTypes DEF Subscription, SubStatus, FirstStatus
  <2>2. subs' = Append(subs, row) /\ Finish(c) /\ UNCHANGED <<ends, unbilled, bills, raced, edited, revived>>
    BY <1>1 DEF CreateWrite
  <2>3. /\ call[c].seen \in Nat /\ call[c].seen <= Len(subs)
        /\ \A x \in 1 .. call[c].seen : Shut(x, subs, revived)
    BY <1>1, <1>b, CallTypes DEF CreateWrite, CallOk
  <2> HIDE DEF row
  <2>4. /\ subs' \in Seq(Subscription) /\ Len(subs') = Len(subs) + 1
        /\ subs'[Len(subs) + 1] = row
        /\ \A n \in SubIds : subs'[n] = subs[n]
    BY <2>1, <2>2, AppendProperties DEF EndInv, TypeOK, SubIds
  <2>5. /\ EndIds' = EndIds /\ SubIds \subseteq SubIds'
        /\ SubIds' = SubIds \cup {Len(subs) + 1}
    BY <1>a, <2>2, <2>4 DEF SubIds, EndIds
  <2>6. \A x \in SubIds : Shut(x, subs, revived) => Shut(x, subs', revived')
    BY <2>2, <2>4 DEF Shut
  <2>7. RowsKept
    BY <1>a, <2>2, <2>4, <2>6 DEF RowsKept
  <2>8. CallOk(IdleCall, subs', ends', revived')
    BY <2>7, IdleOk DEF RowsKept
  <2>9. /\ \A d \in Call : CallOk(call'[d], subs', ends', revived')
        /\ call' \in [Call -> CallState]
        /\ \A d \in Call : call'[d].sub \in SubIds' \cup {0} /\ call'[d].req \in EndIds' \cup {0}
    BY <2>2, <2>7, <2>8, CallsKept DEF Finish
  <2>10. TypeOK'
    BY <2>2, <2>4, <2>5, <2>9 DEF EndInv, TypeOK
  <2>11. ASSUME NEW x \in SubIds', NEW y \in SubIds', x <= subs'[y].seen
         PROVE  Shut(x, subs', revived')
    <3>1. CASE y = Len(subs) + 1
      <4>1. subs'[y].seen = call[c].seen
        BY <2>1, <2>4, <3>1
      <4>2. x \in Nat /\ 1 <= x /\ x <= call[c].seen
        BY <2>11, <4>1, <2>4, <1>a DEF SubIds
      <4>3. x \in 1 .. call[c].seen /\ x \in SubIds
        BY <1>a, <2>3, <4>2 DEF SubIds
      <4> QED
        BY <2>3, <2>6, <4>3
    <3>2. CASE y \in SubIds
      <4>1. x <= subs[y].seen /\ subs[y].seen \in Nat /\ subs[y].seen < y
        BY <2>4, <2>11, <3>2, Rows DEF EndInv, Subscription
      <4>2. CASE x \in SubIds
        BY <2>6, <3>2, <4>1, <4>2 DEF EndInv
      <4>3. CASE x = Len(subs) + 1
        BY <1>a, <3>2, <4>1, <4>3 DEF EndInv, SubIds
      <4> QED
        BY <2>5, <4>2, <4>3
    <3> QED
      BY <2>5, <3>1, <3>2
  <2>12. EndingHasRequest'
    <3>1. ASSUME NEW x \in SubIds', subs'[x].status = "PENDING_CANCEL"
          PROVE  {i \in EndIds' : ends'[i].sub = x /\ ends'[i].status = "PENDING"} # {}
      <4>1. x \in SubIds /\ subs[x].status = "PENDING_CANCEL"
        BY <2>1, <2>4, <2>5, <3>1
      <4> QED
        BY <2>2, <2>5, <4>1 DEF EndInv, EndingHasRequest, PendingEnds
    <3> QED
      BY <3>1 DEF EndingHasRequest, PendingEnds
  <2>13. \A y \in SubIds' : subs'[y].seen < y
    <3>1. ASSUME NEW y \in SubIds', y = Len(subs) + 1 PROVE subs'[y].seen < y
      BY <1>a, <2>1, <2>3, <2>4, <3>1
    <3> QED
      BY <2>4, <2>5, <3>1 DEF EndInv
  <2> QED
    BY <2>2, <2>5, <2>9, <2>10, <2>11, <2>12, <2>13 DEF EndInv
<1>2. ASSUME ReviewWrite(c) PROVE EndInv'
  <2>1. PICK st \in {"ACTIVE", "REJECTED"} : SetSub(s, st)
    BY <1>2 DEF ReviewWrite
  <2>2. s \in SubIds /\ st \in SubStatus /\ st # "PENDING_CANCEL"
    BY <1>2, <1>d DEF ReviewWrite, SubStatus
  <2>3. Finish(c) /\ UNCHANGED <<ends, unbilled, bills, raced, edited>>
    BY <1>2 DEF ReviewWrite
  <2>4. EndIds' = EndIds /\ ends' \in Seq(EndRequest) /\ Len(ends) <= Len(ends')
    BY <2>3, Rows DEF EndIds, EndInv, TypeOK
  <2>5. \A i \in EndIds' : EndOk(ends'[i]) /\ ends'[i].sub \in SubIds
    BY <2>3, <2>4 DEF EndInv, TypeOK
  <2> HIDE DEF s
  <2> QED
    BY <1>a, <2>1, <2>2, <2>3, <2>4, <2>5, SubWritten
<1>3. ASSUME RequestWrite(c) PROVE EndInv'
  <2> DEFINE n == NewEnd(s, p)
  <2>1. s \in SubIds /\ s \in Nat \ {0} /\ "PENDING_CANCEL" \in SubStatus
    BY <1>3, <1>d DEF RequestWrite, SubIds, SubStatus
  <2>2. n \in EndRequest /\ EndOk(n) /\ n.sub = s /\ n.status = "PENDING"
    BY <1>c, <2>1, Asked
  <2>3. ends' = Append(ends, n)
    BY <1>3 DEF RequestWrite
  <2> HIDE DEF n
  <2>4. /\ ends' \in Seq(EndRequest) /\ Len(ends') = Len(ends) + 1
        /\ ends'[Len(ends) + 1] = n
        /\ \A i \in EndIds : ends'[i] = ends[i]
    BY <2>2, <2>3, AppendProperties DEF EndInv, TypeOK, EndIds
  <2>5. EndIds' = EndIds \cup {Len(ends) + 1} /\ Len(ends) <= Len(ends')
    BY <1>a, <2>4 DEF EndIds
  <2>6. \A i \in EndIds' : EndOk(ends'[i]) /\ ends'[i].sub \in SubIds
    BY <2>1, <2>2, <2>4, <2>5 DEF EndInv, TypeOK
  <2>7. \E i \in EndIds' : ends'[i].sub = s /\ ends'[i].status = "PENDING"
    BY <2>2, <2>4, <2>5
  <2>8. SetSub(s, "PENDING_CANCEL") /\ Finish(c) /\ UNCHANGED <<unbilled, bills, raced, edited>>
    BY <1>3 DEF RequestWrite
  <2>9. edited' \subseteq SubIds
    BY <1>a, <2>8
  <2> HIDE DEF s
  <2>10. \A i \in EndIds : /\ ends'[i].sub = ends[i].sub /\ ends'[i].by = ends[i].by
                           /\ ends[i].sub # s => ends'[i] = ends[i]
    BY <2>4
  <2>11. call' = call \/ \E d \in Call : Finish(d)
    BY <2>8
  <2> HIDE DEF n, e, p, b
  <2> QED
    BY <2>1, <2>4, <2>5, <2>6, <2>7, <2>8, <2>9, <2>10, <2>11, SubWritten
<1>4. ASSUME SettleRead(c) PROVE EndInv'
  <2> DEFINE r == IF s \in unbilled THEN Owing(call[c]) ELSE Settled(call[c], 0)
  <2>1. /\ r \in CallState /\ r.pc \in {"issue", "close"} /\ r.sub = s
        /\ r.req = call[c].req /\ r.party = p
    BY <1>b, SettlingTypes
  <2>2. call' = [call EXCEPT ![c] = r]
    BY <1>4 DEF SettleRead
  <2> HIDE DEF r
  <2>3. CallOk(r, subs, ends, revived)
    BY <1>4, <1>b, <2>1 DEF SettleRead, CallOk
  <2>4. UNCHANGED <<subs, ends, unbilled, bills, raced, edited, revived>>
    BY <1>4 DEF SettleRead
  <2> QED
    BY <1>a, <2>2, <2>3, <2>4, OnlyCall
<1>5. ASSUME SettleIssue(c) PROVE EndInv'
  <2> DEFINE r == Settled(call[c], Len(bills'))
  <2>1. bills' \in Seq(Nat) /\ unbilled' \subseteq SubIds
    BY <1>5, <1>a, <1>c, AppendProperties DEF SettleIssue
  <2>2. Len(bills') \in Nat
    BY <2>1
  <2>3. /\ r \in CallState /\ r.pc = "close" /\ r.sub = s
        /\ r.req = call[c].req /\ r.party = p
    BY <1>b, <2>2, SettlingTypes
  <2>4. call' = [call EXCEPT ![c] = r] /\ UNCHANGED <<subs, ends, raced, edited, revived>>
    BY <1>5 DEF SettleIssue
  <2> HIDE DEF r
  <2>5. CallOk(r, subs, ends, revived)
    BY <1>5, <1>b, <2>3 DEF SettleIssue, CallOk
  <2> QED
    BY <1>a, <2>1, <2>4, <2>5, OnlyCall
<1>6. ASSUME Close(c) PROVE EndInv'
  <2>1. call[c].pc = "close" /\ e \in EndRequest /\ EndOk(e) /\ p # e.by
    BY <1>6, <1>e DEF Close
  <2> DEFINE n == Approved(e, p, b)
  <2>2. n \in EndRequest /\ EndOk(n) /\ n.sub = e.sub /\ n.by = e.by
    BY <1>c, <2>1, Decided
  <2>3. ends' = [ends EXCEPT ![call[c].req] = n]
    BY <1>6 DEF Close
  <2>4. "CANCELLED" \in SubStatus \ {"PENDING_CANCEL"}
    BY DEF SubStatus
  <2> HIDE DEF n
  <2> QED
    BY <1>6, <2>1, <2>2, <2>3, <2>4, EndDecided DEF Close
<1>7. ASSUME RejectWrite(c) PROVE EndInv'
  <2>1. call[c].pc = "keep" /\ e \in EndRequest /\ EndOk(e) /\ p # e.by
    BY <1>7, <1>e DEF RejectWrite
  <2> DEFINE n == Rejected(e, p)
  <2>2. n \in EndRequest /\ EndOk(n) /\ n.sub = e.sub /\ n.by = e.by
    BY <1>c, <2>1, Decided
  <2>3. ends' = [ends EXCEPT ![call[c].req] = n]
    BY <1>7 DEF RejectWrite
  <2>4. AfterReject \in SubStatus \ {"PENDING_CANCEL"}
    BY DEF SubStatus, AfterReject
  <2> HIDE DEF n
  <2> QED
    BY <1>7, <2>1, <2>2, <2>3, <2>4, EndDecided DEF RejectWrite
<1>8. ASSUME CallFails(c) PROVE EndInv'
  BY <1>8, <1>a, <1>f, OnlyCall DEF CallFails, Finish
<1> QED
  BY <1>1, <1>2, <1>3, <1>4, <1>5, <1>6, <1>7, <1>8

\* The steps that are not a handler's.
LEMMA OtherStep ==
  ASSUME EndConstants, EndInv
  PROVE  /\ \A s \in SubIds, st \in SubStatus : UpdateStatus(s, st) => EndInv'
         /\ \A s \in SubIds : Deliver(s) \/ CycleBills(s) => EndInv'
         /\ UNCHANGED vars => EndInv'
<1>1. ASSUME NEW s \in SubIds, NEW st \in SubStatus, UpdateStatus(s, st) PROVE EndInv'
  <2>1. /\ SetSub(s, st) /\ st # "PENDING_CANCEL" /\ edited' \subseteq SubIds
        /\ UNCHANGED <<ends, unbilled, bills, call, raced>>
    BY <1>1 DEF UpdateStatus, EndInv, TypeOK
  <2>2. EndIds' = EndIds /\ ends' \in Seq(EndRequest) /\ Len(ends) <= Len(ends')
    BY <2>1, Rows DEF EndIds, EndInv, TypeOK
  <2>3. \A e \in EndIds' : EndOk(ends'[e]) /\ ends'[e].sub \in SubIds
    BY <2>1, <2>2 DEF EndInv, TypeOK
  <2> QED
    BY <2>1, <2>2, <2>3, SubWritten
<1>2. ASSUME NEW s \in SubIds, Deliver(s) \/ CycleBills(s) PROVE EndInv'
  <2>1. unbilled' \subseteq SubIds /\ UNCHANGED <<subs, ends, bills, call, raced, edited, revived>>
    BY <1>2 DEF Deliver, CycleBills, EndInv, TypeOK
  <2> QED
    BY <2>1 DEF EndInv, TypeOK, SubIds, EndIds, EndingHasRequest, PendingEnds
<1>3. ASSUME UNCHANGED vars PROVE EndInv'
  BY <1>3 DEF vars, EndInv, TypeOK, SubIds, EndIds, EndingHasRequest, PendingEnds
<1> QED
  BY <1>1, <1>2, <1>3

(***************************************************************************)
(* The theorems.                                                           *)
(***************************************************************************)
LEMMA EndInvInit ==
  Init => EndInv
<1> SUFFICES ASSUME Init PROVE EndInv
  OBVIOUS
<1>1. subs = <<>> /\ ends = <<>> /\ Len(subs) = 0 /\ Len(ends) = 0 /\ SubIds = {} /\ EndIds = {}
  BY DEF Init, SubIds, EndIds
<1>2. CallOk(IdleCall, subs, ends, revived)
  BY <1>1, IdleOk
<1>3. \A c \in Call : call[c] = IdleCall
  BY DEF Init
<1>4. IdleCall \in CallState /\ IdleCall.sub = 0 /\ IdleCall.req = 0
  BY DEF IdleCall, CallState, Party
<1>5. TypeOK
  BY <1>1, <1>4, EmptySeq DEF Init, TypeOK
<1> QED
  BY <1>1, <1>2, <1>3, <1>5 DEF EndInv, EndingHasRequest

LEMMA EndInvStep ==
  ASSUME EndConstants, EndInv, [Next]_vars
  PROVE  EndInv'
<1>1. ASSUME NEW c \in Call, CallStep(c) PROVE EndInv'
  BY <1>1, ReadStep, WriteStep DEF CallStep
<1> QED
  BY <1>1, OtherStep DEF Next

THEOREM EndInvHolds == Spec => []EndInv
<1>1. Init => EndInv
  BY EndInvInit
<1>2. EndInv /\ [Next]_vars => EndInv'
  BY EndInvStep, EndConstants
<1> QED
  BY <1>1, <1>2, PTL DEF Spec

\* Every reachable state of the rows and the handlers is well formed.
THEOREM TypeCorrect == Spec => []TypeOK
<1>1. EndInv => TypeOK
  BY DEF EndInv
<1> QED
  BY <1>1, EndInvHolds, PTL

\* However many handlers of either party interleave, fail or repeat, no request is
\* approved without both parties or rejected by the one that asked.
THEOREM EndingNeedsBoth == Spec => []NoUnilateralEnd
<1>1. EndInv => NoUnilateralEnd
  BY DEF EndInv, EndOk, NoUnilateralEnd
<1> QED
  BY <1>1, EndInvHolds, PTL

\* The waiting branch of confirmEnd is never taken.
THEOREM WaitingIsDead == Spec => []NeverWaits
<1>1. EndInv => NeverWaits
  BY DEF EndInv, CallOk, NeverWaits
<1> QED
  BY <1>1, EndInvHolds, PTL

\* A subscription in PENDING_CANCEL always has a request that can be decided.
THEOREM EndingIsNeverStuck == Spec => []EndingHasRequest
<1>1. EndInv => EndingHasRequest
  BY DEF EndInv
<1> QED
  BY <1>1, EndInvHolds, PTL

\* Two subscriptions are open at once only by a race of two creations or because
\* the earlier one was reopened.
THEOREM DuplicatesAreExplained == Spec => []DuplicateNeedsRaceOrRevival
<1>1. ASSUME EndInv, NEW x \in SubIds, NEW y \in SubIds, subs[x].status \in Open
      PROVE  subs[y].seen < x \/ x \in revived
  <2>1. subs[y].seen \in Nat /\ x \in Nat
    BY <1>1, Rows DEF EndInv, Subscription, SubIds
  <2>2. ~(x <= subs[y].seen) \/ Shut(x, subs, revived)
    BY <1>1 DEF EndInv
  <2> QED
    BY <1>1, <2>1, <2>2 DEF Shut
<1>2. EndInv => DuplicateNeedsRaceOrRevival
  BY <1>1 DEF DuplicateNeedsRaceOrRevival
<1> QED
  BY <1>2, EndInvHolds, PTL

(***************************************************************************)
(* SubscriptionEnd implements MutualEnd.  Creations, changes of status and *)
(* the three final writes of the handlers are the steps seen from outside; *)
(* all else (checks, reads, settlements, deliveries, failures) stutters.   *)
(***************************************************************************)
Statuses == [s \in SubIds |-> subs[s].status]

Requests == [e \in EndIds |-> View(ends[e])]

LEMMA ViewsAreSequences ==
  ASSUME TypeOK
  PROVE  /\ Statuses \in Seq(SubStatus) /\ Len(Statuses) = Len(subs)
         /\ Len(Requests) = Len(ends) /\ Requests \in Seq({View(e) : e \in EndRequest})
<1>1. Len(subs) \in Nat /\ Len(ends) \in Nat
  BY Rows
<1>2. \A s \in SubIds : subs[s].status \in SubStatus
  BY Rows DEF Subscription
<1>3. Statuses \in Seq(SubStatus) /\ Len(Statuses) = Len(subs)
  BY <1>1, <1>2, IsASeq, LenProperties DEF Statuses, SubIds
<1>4. \A e \in EndIds : View(ends[e]) \in {View(x) : x \in EndRequest}
  BY Rows
<1>5. Requests \in Seq({View(e) : e \in EndRequest}) /\ Len(Requests) = Len(ends)
  BY <1>1, <1>4, IsASeq, LenProperties DEF Requests, EndIds
<1> QED
  BY <1>3, <1>5

LEMMA SeenSetSub ==
  ASSUME TypeOK, NEW s \in SubIds, NEW st \in SubStatus, SetSub(s, st)
  PROVE  Statuses' = [Statuses EXCEPT ![s] = st]
<1>1. /\ SubIds' = SubIds /\ subs'[s].status = st
      /\ \A n \in SubIds : n # s => subs'[n] = subs[n]
  BY SetSubEffect
<1> QED
  BY <1>1 DEF Statuses

LEMMA SeenCreate ==
  ASSUME TypeOK, NEW x \in Subscription, subs' = Append(subs, x)
  PROVE  Statuses' = Append(Statuses, x.status)
<1> DEFINE n == Len(subs)
           app == Append(Statuses, x.status)
<1>1. n \in Nat /\ x.status \in SubStatus
  BY Rows DEF Subscription
<1>2. /\ Len(subs') = n + 1 /\ subs'[n + 1] = x
      /\ \A i \in 1 .. n : subs'[i] = subs[i]
  BY AppendProperties DEF TypeOK
<1>3. /\ app \in Seq(SubStatus) /\ Len(app) = n + 1 /\ app[n + 1] = x.status
      /\ \A i \in 1 .. n : app[i] = Statuses[i]
  BY <1>1, ViewsAreSequences, AppendProperties
<1>4. app = [i \in 1 .. n + 1 |-> app[i]]
  BY <1>3, LenProperties
<1>5. \A i \in 1 .. n + 1 : app[i] = subs'[i].status
  <2>1. \A i \in 1 .. n + 1 : i = n + 1 \/ i \in 1 .. n
    BY <1>1
  <2> QED
    BY <1>2, <1>3, <2>1 DEF Statuses, SubIds
<1> HIDE DEF app
<1>6. Statuses' = [i \in 1 .. n + 1 |-> subs'[i].status]
  BY <1>2 DEF Statuses, SubIds
<1> QED
  BY <1>4, <1>5, <1>6 DEF app

LEMMA SeenAsked ==
  ASSUME TypeOK, NEW x \in EndRequest, ends' = Append(ends, x)
  PROVE  Requests' = Append(Requests, View(x))
<1> DEFINE n == Len(ends)
           app == Append(Requests, View(x))
<1>1. n \in Nat
  BY Rows
<1>2. /\ Len(ends') = n + 1 /\ ends'[n + 1] = x
      /\ \A i \in 1 .. n : ends'[i] = ends[i]
  BY AppendProperties DEF TypeOK
<1>3. /\ app \in Seq({View(e) : e \in EndRequest}) /\ Len(app) = n + 1 /\ app[n + 1] = View(x)
      /\ \A i \in 1 .. n : app[i] = Requests[i]
  BY <1>1, ViewsAreSequences, AppendProperties
<1>4. app = [i \in 1 .. n + 1 |-> app[i]]
  BY <1>3, LenProperties
<1>5. \A i \in 1 .. n + 1 : app[i] = View(ends'[i])
  <2>1. \A i \in 1 .. n + 1 : i = n + 1 \/ i \in 1 .. n
    BY <1>1
  <2> QED
    BY <1>2, <1>3, <2>1 DEF Requests, EndIds
<1> HIDE DEF app
<1>6. Requests' = [i \in 1 .. n + 1 |-> View(ends'[i])]
  BY <1>2 DEF Requests, EndIds
<1> QED
  BY <1>4, <1>5, <1>6 DEF app

LEMMA SeenDecided ==
  ASSUME TypeOK, NEW e \in EndIds, NEW x \in EndRequest, ends' = [ends EXCEPT ![e] = x]
  PROVE  Requests' = [Requests EXCEPT ![e] = View(x)]
<1>1. /\ EndIds' = EndIds /\ ends'[e] = x
      /\ \A n \in EndIds : n # e => ends'[n] = ends[n]
  BY ExceptSeq DEF TypeOK, EndIds
<1>2. Requests' = [n \in EndIds |-> View(ends'[n])]
  BY <1>1 DEF Requests
<1>3. \A n \in EndIds : View(ends'[n]) = [Requests EXCEPT ![e] = View(x)][n]
  BY <1>1 DEF Requests
<1>4. [Requests EXCEPT ![e] = View(x)] = [n \in EndIds |-> [Requests EXCEPT ![e] = View(x)][n]]
  BY DEF Requests
<1> QED
  BY <1>2, <1>3, <1>4

\* The steps of MutualEnd, said of the rows.
LEMMA SeenSteps ==
  ASSUME Len(Statuses) = Len(subs), Len(Requests) = Len(ends)
  PROVE  /\ \A st \in SubStatus \ {"PENDING_CANCEL", "CANCELLED"} :
              Statuses' = Append(Statuses, st) /\ Requests' = Requests => Agreement!Next
         /\ \A s \in SubIds, st \in SubStatus \ {"PENDING_CANCEL", "CANCELLED"} :
              Statuses' = [Statuses EXCEPT ![s] = st] /\ Requests' = Requests => Agreement!Next
         /\ \A s \in SubIds, p \in Party :
              /\ Statuses' = [Statuses EXCEPT ![s] = "PENDING_CANCEL"]
              /\ Requests' = Append(Requests, [sub |-> s, by |-> p, verdict |-> "PENDING", decider |-> "nobody"])
              => Agreement!Next
         /\ \A e \in EndIds, p \in Party :
              /\ p # ends[e].by
              /\ Statuses' = [Statuses EXCEPT ![ends[e].sub] = "CANCELLED"]
              /\ Requests' = [Requests EXCEPT ![e] = Agreement!Decided(Requests[e], p, "APPROVED")]
              => Agreement!Next
         /\ \A e \in EndIds, p \in Party :
              /\ p # ends[e].by
              /\ Statuses' = [Statuses EXCEPT ![ends[e].sub] = "ACTIVE"]
              /\ Requests' = [Requests EXCEPT ![e] = Agreement!Decided(Requests[e], p, "REJECTED")]
              => Agreement!Next
         /\ Statuses' = Statuses /\ Requests' = Requests => UNCHANGED Agreement!vars
<1>1. \A e \in EndIds : Requests[e].by = ends[e].by /\ Requests[e].sub = ends[e].sub
  BY DEF Requests, View
<1>2. 1 .. Len(Statuses) = SubIds /\ 1 .. Len(Requests) = EndIds
  BY DEF SubIds, EndIds
<1>3. /\ [s \in SubIds |-> subs[s].status] = Statuses
      /\ [e \in EndIds |-> View(ends[e])] = Requests
  BY DEF Statuses, Requests
<1>4. ASSUME NEW st \in SubStatus \ {"PENDING_CANCEL", "CANCELLED"},
             Statuses' = Append(Statuses, st), Requests' = Requests
      PROVE  Agreement!Next
  <2>1. Agreement!Create(st)
    BY <1>4 DEF Agreement!Create, Statuses, Requests
  <2> QED
    BY <2>1 DEF Agreement!Next, Agreement!Ending
<1>5. ASSUME NEW s \in SubIds, NEW st \in SubStatus \ {"PENDING_CANCEL", "CANCELLED"},
             Statuses' = [Statuses EXCEPT ![s] = st], Requests' = Requests
      PROVE  Agreement!Next
  <2>1. Agreement!Change(s, st)
    BY <1>5 DEF Agreement!Change, Statuses, Requests
  <2> QED
    BY <1>2, <1>3, <2>1 DEF Agreement!Next, Agreement!Ending
<1>6. ASSUME NEW s \in SubIds, NEW p \in Party,
             Statuses' = [Statuses EXCEPT ![s] = "PENDING_CANCEL"],
             Requests' = Append(Requests, [sub |-> s, by |-> p, verdict |-> "PENDING", decider |-> "nobody"])
      PROVE  Agreement!Next
  <2>1. Agreement!Ask(s, p)
    BY <1>6 DEF Agreement!Ask, Statuses, Requests
  <2> QED
    BY <1>2, <1>3, <2>1 DEF Agreement!Next
<1>7. ASSUME NEW e \in EndIds, NEW p \in Party, p # ends[e].by,
             Statuses' = [Statuses EXCEPT ![ends[e].sub] = "CANCELLED"],
             Requests' = [Requests EXCEPT ![e] = Agreement!Decided(Requests[e], p, "APPROVED")]
      PROVE  Agreement!Next
  <2>1. p # Requests[e].by /\ Statuses' = [Statuses EXCEPT ![Requests[e].sub] = "CANCELLED"]
    BY <1>1, <1>7
  <2>2. Agreement!Agree(e, p)
    BY <1>7, <2>1 DEF Agreement!Agree, Statuses, Requests
  <2> QED
    BY <1>2, <1>3, <2>2 DEF Agreement!Next
<1>8. ASSUME NEW e \in EndIds, NEW p \in Party, p # ends[e].by,
             Statuses' = [Statuses EXCEPT ![ends[e].sub] = "ACTIVE"],
             Requests' = [Requests EXCEPT ![e] = Agreement!Decided(Requests[e], p, "REJECTED")]
      PROVE  Agreement!Next
  <2>1. p # Requests[e].by /\ Statuses' = [Statuses EXCEPT ![Requests[e].sub] = "ACTIVE"]
    BY <1>1, <1>8
  <2>2. Agreement!Refuse(e, p)
    BY <1>8, <2>1 DEF Agreement!Refuse, Statuses, Requests
  <2> QED
    BY <1>2, <1>3, <2>2 DEF Agreement!Next
<1>9. ASSUME Statuses' = Statuses, Requests' = Requests PROVE UNCHANGED Agreement!vars
  BY <1>9 DEF Agreement!vars, Statuses, Requests
<1> QED
  BY <1>4, <1>5, <1>6, <1>7, <1>8, <1>9

LEMMA WriteSeen ==
  ASSUME EndInv, NEW c \in Call
  PROVE  /\ CreateWrite(c) => Agreement!Next
         /\ ReviewWrite(c) => Agreement!Next
         /\ RequestWrite(c) => Agreement!Next
         /\ Close(c) => Agreement!Next
         /\ RejectWrite(c) => Agreement!Next
<1> DEFINE k == call[c]
           e == ends[k.req]
<1>a. TypeOK /\ Len(Statuses) = Len(subs) /\ Len(Requests) = Len(ends)
  BY ViewsAreSequences DEF EndInv
<1>b. k \in CallState /\ CallOk(k, subs, ends, revived)
  BY DEF EndInv, TypeOK
<1>c. k.party \in Party /\ k.bill \in Nat /\ k.sub \in Nat /\ k.seen \in Nat
  BY <1>b, CallTypes
<1>d. k.pc \notin {"idle", "create"} => k.sub \in SubIds
  BY <1>a, <1>b, <1>c, Rows DEF CallOk, SubIds
<1>e. k.pc \in {"close", "keep"} =>
        /\ k.req \in EndIds /\ e \in EndRequest /\ EndOk(e) /\ k.party # e.by /\ e.sub = k.sub
        /\ Requests[k.req] = View(e)
  BY <1>a, <1>b, Rows DEF CallOk, EndInv, EndIds, Requests
<1>1. ASSUME CreateWrite(c) PROVE Agreement!Next
  <2> DEFINE st == FirstStatus(k.party)
             row == [status |-> st, seen |-> k.seen]
  <2>1. st \in SubStatus \ {"PENDING_CANCEL", "CANCELLED"}
    BY DEF FirstStatus, SubStatus
  <2> HIDE DEF st
  <2>2. row \in Subscription /\ row.status = st
    BY <1>c, <2>1 DEF Subscription
  <2>3. subs' = Append(subs, row) /\ UNCHANGED ends
    BY <1>1 DEF CreateWrite, st
  <2> HIDE DEF row
  <2>4. Statuses' = Append(Statuses, st)
    BY <1>a, <2>2, <2>3, SeenCreate
  <2>5. Requests' = Requests
    BY <2>3 DEF Requests, EndIds
  <2> QED
    BY <1>a, <2>1, <2>4, <2>5, SeenSteps
<1>2. ASSUME ReviewWrite(c) PROVE Agreement!Next
  <2> DEFINE st == IF k.pc = "approve" THEN "ACTIVE" ELSE "REJECTED"
  <2>1. st \in SubStatus \ {"PENDING_CANCEL", "CANCELLED"}
    BY DEF SubStatus
  <2>2. k.sub \in SubIds /\ SetSub(k.sub, st) /\ UNCHANGED ends
    BY <1>2, <1>d DEF ReviewWrite
  <2> HIDE DEF st
  <2>3. Statuses' = [Statuses EXCEPT ![k.sub] = st]
    BY <1>a, <2>1, <2>2, SeenSetSub
  <2>4. Requests' = Requests
    BY <2>2 DEF Requests, EndIds
  <2> QED
    BY <1>a, <2>1, <2>2, <2>3, <2>4, SeenSteps
<1>3. ASSUME RequestWrite(c) PROVE Agreement!Next
  <2> DEFINE new == NewEnd(k.sub, k.party)
  <2>1. /\ k.sub \in SubIds /\ SetSub(k.sub, "PENDING_CANCEL")
        /\ ends' = Append(ends, new)
    BY <1>3, <1>d DEF RequestWrite
  <2>2. "PENDING_CANCEL" \in SubStatus /\ k.sub \in Nat \ {0}
    BY <2>1, Rows, <1>a DEF SubStatus, SubIds
  <2>3. new \in EndRequest
    BY <1>c, <2>2, Asked
  <2>4. View(new) = [sub |-> k.sub, by |-> k.party, verdict |-> "PENDING", decider |-> "nobody"]
    BY DEF View, NewEnd
  <2> HIDE DEF new
  <2>5. Statuses' = [Statuses EXCEPT ![k.sub] = "PENDING_CANCEL"]
    BY <1>a, <2>1, <2>2, SeenSetSub
  <2>6. Requests' = Append(Requests, View(new))
    BY <1>a, <2>1, <2>3, SeenAsked
  <2> QED
    BY <1>a, <1>c, <2>1, <2>4, <2>5, <2>6, SeenSteps
<1>4. ASSUME Close(c) PROVE Agreement!Next
  <2> DEFINE new == Approved(e, k.party, k.bill)
  <2>1. /\ k.pc = "close" /\ SetSub(k.sub, "CANCELLED")
        /\ ends' = [ends EXCEPT ![k.req] = new]
    BY <1>4 DEF Close
  <2>2. /\ k.req \in EndIds /\ e \in EndRequest /\ k.party # e.by /\ e.sub = k.sub
        /\ Requests[k.req] = View(e) /\ EndOk(e) /\ k.sub \in SubIds
    BY <1>d, <1>e, <2>1
  <2>3. new \in EndRequest
    BY <1>c, <2>2, Decided
  <2>4. View(new) = Agreement!Decided(View(e), k.party, "APPROVED")
    BY DEF View, Approved, Agreement!Decided
  <2> HIDE DEF new
  <2>5. Statuses' = [Statuses EXCEPT ![e.sub] = "CANCELLED"]
    BY <1>a, <2>1, <2>2, SeenSetSub DEF SubStatus
  <2>6. Requests' = [Requests EXCEPT ![k.req] = View(new)]
    BY <1>a, <2>1, <2>2, <2>3, SeenDecided
  <2> QED
    BY <1>a, <1>c, <2>2, <2>4, <2>5, <2>6, SeenSteps
<1>5. ASSUME RejectWrite(c) PROVE Agreement!Next
  <2> DEFINE new == Rejected(e, k.party)
  <2>1. /\ k.pc = "keep" /\ SetSub(k.sub, "ACTIVE")
        /\ ends' = [ends EXCEPT ![k.req] = new]
    BY <1>5 DEF RejectWrite, AfterReject
  <2>2. /\ k.req \in EndIds /\ e \in EndRequest /\ k.party # e.by /\ e.sub = k.sub
        /\ Requests[k.req] = View(e) /\ EndOk(e) /\ k.sub \in SubIds
    BY <1>d, <1>e, <2>1
  <2>3. new \in EndRequest
    BY <1>c, <2>2, Decided
  <2>4. View(new) = Agreement!Decided(View(e), k.party, "REJECTED")
    BY DEF View, Rejected, Agreement!Decided
  <2> HIDE DEF new
  <2>5. Statuses' = [Statuses EXCEPT ![e.sub] = "ACTIVE"]
    BY <1>a, <2>1, <2>2, SeenSetSub DEF SubStatus
  <2>6. Requests' = [Requests EXCEPT ![k.req] = View(new)]
    BY <1>a, <2>1, <2>2, <2>3, SeenDecided
  <2> QED
    BY <1>a, <1>c, <2>2, <2>4, <2>5, <2>6, SeenSteps
<1> QED
  BY <1>1, <1>2, <1>3, <1>4, <1>5

LEMMA Unseen ==
  ASSUME EndInv, UNCHANGED <<subs, ends>>
  PROVE  UNCHANGED Agreement!vars
<1>1. Statuses' = Statuses /\ Requests' = Requests
  BY DEF Statuses, Requests, SubIds, EndIds
<1>2. Len(Statuses) = Len(subs) /\ Len(Requests) = Len(ends)
  BY ViewsAreSequences DEF EndInv
<1> QED
  BY <1>1, <1>2, SeenSteps

LEMMA StepSeen ==
  ASSUME EndInv, [Next]_vars
  PROVE  [Agreement!Next]_(Agreement!vars)
<1>1. ASSUME NEW c \in Call, CallStep(c) PROVE [Agreement!Next]_(Agreement!vars)
  <2>1. CASE CreateWrite(c) \/ ReviewWrite(c) \/ RequestWrite(c) \/ Close(c) \/ RejectWrite(c)
    BY <2>1, WriteSeen
  <2>2. CASE \/ \E p \in Party : CreateCheck(c, p)
             \/ \E s \in SubIds, v \in {"approve", "decline"} : ReviewRead(c, s, v)
             \/ \E s \in SubIds, p \in Party : RequestRead(c, s, p)
             \/ \E s \in SubIds, e \in EndIds, p \in Party : ConfirmRead(c, s, e, p)
             \/ \E s \in SubIds, e \in EndIds, p \in Party : RejectRead(c, s, e, p)
             \/ SettleRead(c) \/ SettleIssue(c) \/ CallFails(c)
    <3>1. UNCHANGED <<subs, ends>>
      BY <2>2 DEF CreateCheck, ReviewRead, RequestRead, ConfirmRead, RejectRead, SettleRead,
         SettleIssue, CallFails
    <3> QED
      BY <3>1, Unseen
  <2> QED
    BY <1>1, <2>1, <2>2 DEF CallStep
<1>2. ASSUME NEW s \in SubIds, NEW st \in SubStatus, UpdateStatus(s, st)
      PROVE  [Agreement!Next]_(Agreement!vars)
  <2>1. /\ SetSub(s, st) /\ UNCHANGED ends /\ st \in SubStatus \ {"PENDING_CANCEL", "CANCELLED"}
    BY <1>2 DEF UpdateStatus
  <2>2. TypeOK /\ Len(Statuses) = Len(subs) /\ Len(Requests) = Len(ends)
    BY ViewsAreSequences DEF EndInv
  <2>3. Statuses' = [Statuses EXCEPT ![s] = st]
    BY <2>1, <2>2, SeenSetSub
  <2>4. Requests' = Requests
    BY <2>1 DEF Requests, EndIds
  <2> QED
    BY <2>1, <2>2, <2>3, <2>4, SeenSteps
<1>3. ASSUME NEW s \in SubIds, Deliver(s) \/ CycleBills(s) PROVE [Agreement!Next]_(Agreement!vars)
  BY <1>3, Unseen DEF Deliver, CycleBills
<1>4. CASE UNCHANGED vars
  BY <1>4, Unseen DEF vars
<1> QED
  BY <1>1, <1>2, <1>3, <1>4 DEF Next

\* The end service implements MutualEnd: whatever handlers are in flight, in
\* whatever order they read and write, and wherever they die, a request and
\* its subscription are asked for, agreed and refused in single steps, and only
\* by the party whose turn it is.
THEOREM EndsAreAgreed == Spec => EndsByAgreement
<1>1. Init => Agreement!Init
  <2> SUFFICES ASSUME Init PROVE Agreement!Init
    OBVIOUS
  <2>1. SubIds = {} /\ EndIds = {}
    BY DEF Init, SubIds, EndIds
  <2> QED
    BY <2>1 DEF Agreement!Init
<1>2. EndInv /\ [Next]_vars => [Agreement!Next]_(Agreement!vars)
  BY StepSeen
<1> QED
  BY <1>1, <1>2, EndInvHolds, PTL DEF Spec, EndsByAgreement, Agreement!Spec

(***************************************************************************)
(* What MutualEnd promises, whoever implements it: here of the tables, but *)
(* from the steps of MutualEnd alone.  The types of its variables and the  *)
(* promise are inductive together (Agreed).                                *)
(***************************************************************************)
Ending == {"PENDING_CANCEL", "CANCELLED"}

Asking == [sub : Nat, by : Party, verdict : {"PENDING", "APPROVED", "REJECTED"},
           decider : Party \cup {"nobody"}]

AskedFor(s) ==
  \E e \in 1 .. Len(Requests) : Requests[e].sub = s /\ Requests[e].verdict = "PENDING"

AgreedTo(s) ==
  \E e \in 1 .. Len(Requests) :
    /\ Requests[e].sub = s /\ Requests[e].verdict = "APPROVED"
    /\ Requests[e].decider \in Party \ {Requests[e].by}

EndedByBoth ==
  \A s \in 1 .. Len(Statuses) :
    /\ Statuses[s] = "PENDING_CANCEL" => AskedFor(s)
    /\ Statuses[s] = "CANCELLED" => AgreedTo(s)

Agreed ==
  /\ Statuses \in Seq(SubStatus)
  /\ Requests \in Seq(Asking)
  /\ \A e \in 1 .. Len(Requests) : Requests[e].sub \in 1 .. Len(Statuses)
  /\ EndedByBoth

LEMMA AgreedKept ==
  ASSUME Agreed, [Agreement!Next]_(Agreement!vars)
  PROVE  Agreed'
<1> DEFINE S == SubStatus
           n == Len(Statuses)
           m == Len(Requests)
<1>a. /\ Statuses \in Seq(S) /\ Requests \in Seq(Asking) /\ n \in Nat /\ m \in Nat
      /\ \A e \in 1 .. m : Requests[e] \in Asking /\ Requests[e].sub \in 1 .. n
  BY LenProperties, ElementOfSeq DEF Agreed
<1> HIDE DEF S
<1>b. ASSUME NEW s \in 1 .. n, NEW st \in S, Statuses' = [Statuses EXCEPT ![s] = st]
      PROVE  /\ Statuses' \in Seq(S) /\ Len(Statuses') = n /\ Statuses'[s] = st
             /\ \A x \in 1 .. n : x # s => Statuses'[x] = Statuses[x]
  BY <1>a, <1>b, ExceptSeq
<1>1. ASSUME NEW st \in SubStatus \ Ending, Agreement!Create(st) PROVE Agreed'
  <2>1. /\ Statuses' = Append(Statuses, st) /\ Requests' = Requests /\ st \in S /\ st \notin Ending
    BY <1>1 DEF Agreement!Create, Statuses, Requests, S
  <2>2. /\ Statuses' \in Seq(S) /\ Len(Statuses') = n + 1 /\ Statuses'[n + 1] = st
        /\ \A x \in 1 .. n : Statuses'[x] = Statuses[x]
    BY <1>a, <2>1, AppendProperties
  <2>3. \A x \in 1 .. n + 1 : x \in 1 .. n \/ x = n + 1
    BY <1>a
  <2>4. EndedByBoth'
    <3>1. \A s \in 1 .. n : (AskedFor(s) => AskedFor(s)') /\ (AgreedTo(s) => AgreedTo(s)')
      BY <2>1 DEF AskedFor, AgreedTo
    <3> QED
      BY <2>1, <2>2, <2>3, <3>1 DEF Agreed, EndedByBoth, Ending
  <2> QED
    BY <1>a, <2>1, <2>2, <2>4 DEF Agreed, S
<1>2. ASSUME NEW s \in 1 .. n, NEW st \in SubStatus \ Ending, Agreement!Change(s, st)
      PROVE  Agreed'
  <2>1. /\ Statuses' = [Statuses EXCEPT ![s] = st] /\ Requests' = Requests
        /\ st \in S /\ st \notin Ending
    BY <1>2 DEF Agreement!Change, Statuses, Requests, S
  <2>2. EndedByBoth'
    <3>1. \A x \in 1 .. n : (AskedFor(x) => AskedFor(x)') /\ (AgreedTo(x) => AgreedTo(x)')
      BY <2>1 DEF AskedFor, AgreedTo
    <3> QED
      BY <1>b, <2>1, <3>1 DEF Agreed, EndedByBoth, Ending
  <2> QED
    BY <1>a, <1>b, <2>1, <2>2 DEF Agreed, S
<1>3. ASSUME NEW s \in 1 .. n, NEW p \in Party, Agreement!Ask(s, p) PROVE Agreed'
  <2> DEFINE r == [sub |-> s, by |-> p, verdict |-> "PENDING", decider |-> "nobody"]
  <2>1. /\ Statuses' = [Statuses EXCEPT ![s] = "PENDING_CANCEL"] /\ Requests' = Append(Requests, r)
        /\ "PENDING_CANCEL" \in S
    BY <1>3 DEF Agreement!Ask, Statuses, Requests, S, SubStatus
  <2>2. r \in Asking /\ r.sub = s /\ r.verdict = "PENDING"
    BY <1>a DEF Asking
  <2> HIDE DEF r
  <2>3. /\ Requests' \in Seq(Asking) /\ Len(Requests') = m + 1 /\ Requests'[m + 1] = r
        /\ \A e \in 1 .. m : Requests'[e] = Requests[e]
    BY <1>a, <2>1, <2>2, AppendProperties
  <2>4. \A e \in 1 .. m + 1 : e \in 1 .. m \/ e = m + 1
    BY <1>a
  <2>5. m + 1 \in 1 .. m + 1 /\ 1 .. m \subseteq 1 .. m + 1
    BY <1>a
  <2>6. EndedByBoth'
    <3>1. \A x \in 1 .. n : (AskedFor(x) => AskedFor(x)') /\ (AgreedTo(x) => AgreedTo(x)')
      BY <2>3, <2>5 DEF AskedFor, AgreedTo
    <3>2. AskedFor(s)'
      BY <2>2, <2>3, <2>5 DEF AskedFor
    <3> QED
      BY <1>b, <2>1, <3>1, <3>2 DEF Agreed, EndedByBoth
  <2> QED
    BY <1>a, <1>b, <2>1, <2>2, <2>3, <2>4, <2>6 DEF Agreed, S
<1>4. ASSUME NEW e \in 1 .. m, NEW p \in Party, p # Requests[e].by, NEW st \in {"ACTIVE", "CANCELLED"},
             NEW v \in {"APPROVED", "REJECTED"}, st = "CANCELLED" => v = "APPROVED",
             Statuses' = [Statuses EXCEPT ![Requests[e].sub] = st],
             Requests' = [Requests EXCEPT ![e] = Agreement!Decided(Requests[e], p, v)]
      PROVE  Agreed'
  <2> DEFINE s == Requests[e].sub
             r == Agreement!Decided(Requests[e], p, v)
  <2>1. r \in Asking /\ r.sub = s /\ r.by = Requests[e].by /\ r.verdict = v /\ r.decider = p
    BY <1>a, <1>4 DEF Agreement!Decided, Asking
  <2>2. st \in S /\ s \in 1 .. n
    BY <1>a DEF S, SubStatus
  <2>3. /\ Statuses' \in Seq(S) /\ Len(Statuses') = n /\ Statuses'[s] = st
        /\ \A x \in 1 .. n : x # s => Statuses'[x] = Statuses[x]
    BY <1>4, <1>b, <2>2
  <2> HIDE DEF r
  <2>4. /\ Requests' \in Seq(Asking) /\ Len(Requests') = m /\ Requests'[e] = r
        /\ \A x \in 1 .. m : x # e => Requests'[x] = Requests[x]
    BY <1>a, <1>4, <2>1, ExceptSeq DEF r
  <2>5. EndedByBoth'
    <3>1. \A x \in 1 .. n : x # s => (AskedFor(x) => AskedFor(x)') /\ (AgreedTo(x) => AgreedTo(x)')
      <4>1. \A x \in 1 .. n, y \in 1 .. m : x # s /\ Requests[y].sub = x => Requests'[y] = Requests[y]
        BY <2>4
      <4> QED
        BY <2>4, <4>1 DEF AskedFor, AgreedTo
    <3>2. \A x \in 1 .. n : x = s /\ st = "CANCELLED" => AgreedTo(x)'
      <4>1. /\ Len(Requests') = m /\ Requests'[e].sub = s /\ Requests'[e].verdict = v
            /\ Requests'[e].by = Requests[e].by /\ Requests'[e].decider = p
        BY <2>1, <2>4
      <4> QED
        BY <1>4, <4>1 DEF AgreedTo
    <3> QED
      BY <1>4, <2>2, <2>3, <3>1, <3>2 DEF Agreed, EndedByBoth
  <2> QED
    BY <1>a, <2>1, <2>2, <2>3, <2>4, <2>5 DEF Agreed, S
<1>5. ASSUME NEW e \in 1 .. m, NEW p \in Party, Agreement!Agree(e, p) PROVE Agreed'
  <2>1. /\ p # Requests[e].by
        /\ Statuses' = [Statuses EXCEPT ![Requests[e].sub] = "CANCELLED"]
        /\ Requests' = [Requests EXCEPT ![e] = Agreement!Decided(Requests[e], p, "APPROVED")]
    BY <1>5 DEF Agreement!Agree, Statuses, Requests
  <2> QED
    BY <1>4, <2>1
<1>6. ASSUME NEW e \in 1 .. m, NEW p \in Party, Agreement!Refuse(e, p) PROVE Agreed'
  <2>1. /\ p # Requests[e].by
        /\ Statuses' = [Statuses EXCEPT ![Requests[e].sub] = "ACTIVE"]
        /\ Requests' = [Requests EXCEPT ![e] = Agreement!Decided(Requests[e], p, "REJECTED")]
    BY <1>6 DEF Agreement!Refuse, Statuses, Requests
  <2> QED
    BY <1>4, <2>1
<1>7. CASE UNCHANGED Agreement!vars
  <2>1. Statuses' = Statuses /\ Requests' = Requests
    BY <1>7 DEF Agreement!vars, Statuses, Requests
  <2> QED
    BY <2>1 DEF Agreed, EndedByBoth, AskedFor, AgreedTo
<1> QED
  BY <1>1, <1>2, <1>3, <1>5, <1>6, <1>7 DEF Agreement!Next, Agreement!Ending, Ending, Statuses, Requests

LEMMA AgreedHolds == Agreement!Spec => []Agreement!EndedByBoth
<1>1. Agreement!Init => Agreed
  <2> SUFFICES ASSUME Agreement!Init PROVE Agreed
    OBVIOUS
  <2>1. Statuses = <<>> /\ Requests = <<>>
    BY DEF Agreement!Init, Statuses, Requests
  <2>2. Len(Statuses) = 0 /\ Len(Requests) = 0
    BY <2>1
  <2> QED
    BY <2>1, <2>2, EmptySeq DEF Agreed, EndedByBoth
<1>2. Agreed /\ [Agreement!Next]_(Agreement!vars) => Agreed'
  BY AgreedKept
<1>3. Agreed => Agreement!EndedByBoth
  BY DEF Agreed, EndedByBoth, AskedFor, AgreedTo, Statuses, Requests, Agreement!EndedByBoth,
     Agreement!AskedFor, Agreement!AgreedTo
<1> QED
  BY <1>1, <1>2, <1>3, PTL DEF Agreement!Spec

\* So no subscription is cancelled, or waits for its end, without the request
\* that says so: what MutualEnd promises, said of the tables.
THEOREM CancellingIsAgreed == Spec => []CancelledIsAgreed
  BY AgreedHolds, EndsAreAgreed, PTL DEF EndsByAgreement, CancelledIsAgreed
(***************************************************************************)
(* Subscriptions and their requests.  As long as the handlers on a         *)
(* subscription come one after another, and its status is not set by hand, *)
(* what a handler read is still so (Current) until its last write.         *)
(***************************************************************************)
Match(s) ==
  /\ subs[s].status = "PENDING_CANCEL" <=> PendingEnds(s) # {}
  /\ \A d, e \in PendingEnds(s) : d = e
  /\ subs[s].status = "CANCELLED" <=>
       \E e \in EndIds : ends[e].sub = s /\ ends[e].status = "APPROVED"

Current(k, s) ==
  /\ k.pc \in {"approve", "decline"} => subs[s].status = "PENDING_APPROVAL"
  /\ k.pc = "ask" => subs[s].status = "ACTIVE"
  /\ k.pc \in {"settle", "issue", "close", "keep"} =>
       subs[s].status = "PENDING_CANCEL" /\ ends[k.req].status = "PENDING"

Served(s) ==
  /\ Match(s)
  /\ \A c \in Call : call[c].sub = s => Current(call[c], s)
  /\ \A c, d \in Call : call[c].sub = s /\ call[d].sub = s => c = d

Quiet == SubIds \ (raced \cup edited)

MatchInv == \A s \in Quiet : Served(s)

\* A step that leaves the rows of subscription s alone.
SameRows(s) ==
  /\ subs'[s].status = subs[s].status
  /\ EndIds \subseteq EndIds'
  /\ \A e \in EndIds : ends'[e].sub = ends[e].sub /\ (ends[e].sub = s => ends'[e] = ends[e])
  /\ \A e \in EndIds' \ EndIds : ends'[e].sub # s

LEMMA MatchSame ==
  ASSUME NEW s, SameRows(s), Match(s)
  PROVE  Match(s)'
<1>1. \A e : e \in EndIds' /\ ends'[e].sub = s <=> e \in EndIds /\ ends[e].sub = s
  BY DEF SameRows
<1>2. \A e \in EndIds : ends[e].sub = s => ends'[e] = ends[e]
  BY DEF SameRows
<1>3. PendingEnds(s)' = PendingEnds(s)
  BY <1>1, <1>2 DEF PendingEnds
<1> QED
  BY <1>1, <1>2, <1>3 DEF Match, SameRows

\* Neither the rows of s nor the handlers on it are touched.
LEMMA ServedSame ==
  ASSUME EndInv, NEW s, SameRows(s), Served(s), s # 0,
         \A c \in Call : call'[c] = call[c] \/ (call[c].sub # s /\ call'[c].sub # s)
  PROVE  Served(s)'
<1>1. Match(s)'
  BY MatchSame DEF Served
<1>2. \A c \in Call : call'[c].sub = s <=> call[c].sub = s
  OBVIOUS
<1>3. ASSUME NEW c \in Call, call'[c].sub = s PROVE Current(call[c], s)'
  <2>1. call'[c] = call[c] /\ call[c].sub = s
    BY <1>3
  <2>2. Current(call[c], s)
    BY <2>1 DEF Served
  <2>3. call[c].pc \in {"settle", "issue", "close", "keep"} =>
          call[c].req \in EndIds /\ ends[call[c].req].sub = s
    BY <2>1, Rows DEF EndInv, CallOk, EndIds
  <2>4. call[c].pc \in {"settle", "issue", "close", "keep"} =>
          ends'[call[c].req] = ends[call[c].req]
    BY <2>3 DEF SameRows
  <2> QED
    BY <2>1, <2>2, <2>4 DEF Current, SameRows
<1> QED
  BY <1>1, <1>2, <1>3 DEF Served

\* Handler c is the only one on s, before and after.
LEMMA ServedBy ==
  ASSUME NEW s, NEW c \in Call, NEW k, call \in [Call -> CallState],
         call' = [call EXCEPT ![c] = k],
         \A d \in Call : call[d].sub = s => d = c,
         Match(s)', k.sub = s => Current(k, s)'
  PROVE  Served(s)'
<1>1. call'[c] = k /\ \A d \in Call : d # c => call'[d] = call[d]
  OBVIOUS
<1>2. \A d \in Call : call'[d].sub = s => d = c
  BY <1>1
<1> QED
  BY <1>1, <1>2 DEF Served

\* A read: handler c starts on s in state k, or finds somebody there.
LEMMA StartServed ==
  ASSUME EndInv, MatchInv, NEW c \in Call, NEW s \in SubIds, NEW k,
         Start(c, s, k), k.sub = s, Current(k, s),
         UNCHANGED <<subs, ends, edited>>
  PROVE  MatchInv'
<1>1. /\ call \in [Call -> CallState] /\ call' = [call EXCEPT ![c] = k]
      /\ raced \subseteq raced' /\ SubIds' = SubIds /\ EndIds' = EndIds
  BY DEF Start, EndInv, TypeOK, SubIds, EndIds
<1>2. call[c].sub = 0 \/ call[c].sub # 0
  OBVIOUS
<1>3. ASSUME NEW n \in Quiet' PROVE Served(n)'
  <2>1. n \in Quiet /\ Served(n) /\ SameRows(n) /\ n # 0
    BY <1>1, <1>3 DEF Quiet, MatchInv, SameRows, SubIds
  <2>2. CASE n = s
    <3>1. \A d \in Call : call[d].sub # s
      BY <1>3, <2>2 DEF Start, Quiet
    <3>2. Match(s)'
      BY <2>1, <2>2, MatchSame DEF Served
    <3>3. Current(k, s)'
      BY DEF Current
    <3> QED
      BY <1>1, <2>2, <3>1, <3>2, <3>3, ServedBy
  <2>3. CASE n # s
    <3>1. CASE call[c].sub # n
      <4>1. \A d \in Call : call'[d] = call[d] \/ (call[d].sub # n /\ call'[d].sub # n)
        BY <1>1, <2>3, <3>1
      <4> QED
        BY <2>1, <4>1, ServedSame
    <3>2. CASE call[c].sub = n
      <4>1. \A d \in Call : call[d].sub = n => d = c
        BY <2>1, <3>2 DEF Served
      <4>2. Match(n)'
        BY <2>1, MatchSame DEF Served
      <4> QED
        BY <1>1, <2>3, <4>1, <4>2, ServedBy
    <3> QED
      BY <3>1, <3>2
  <2> QED
    BY <2>2, <2>3
<1> QED
  BY <1>3 DEF MatchInv

\* Handler c goes on, or ends, without touching a row.
LEMMA GoesOnServed ==
  ASSUME EndInv, MatchInv, NEW c \in Call, NEW k, call' = [call EXCEPT ![c] = k],
         k.sub = 0 \/ k.sub = call[c].sub,
         \A s \in SubIds : k.sub = s /\ Current(call[c], s) => Current(k, s),
         UNCHANGED <<subs, ends, edited, raced>>
  PROVE  MatchInv'
<1>1. /\ call \in [Call -> CallState] /\ SubIds' = SubIds /\ EndIds' = EndIds
  BY DEF EndInv, TypeOK, SubIds, EndIds
<1>2. ASSUME NEW n \in Quiet' PROVE Served(n)'
  <2>1. n \in Quiet /\ n \in SubIds /\ Served(n) /\ SameRows(n) /\ n # 0
    BY <1>1, <1>2 DEF Quiet, MatchInv, SameRows, SubIds
  <2>2. CASE call[c].sub # n
    <3>1. \A d \in Call : call'[d] = call[d] \/ (call[d].sub # n /\ call'[d].sub # n)
      BY <1>1, <2>1, <2>2
    <3> QED
      BY <2>1, <3>1, ServedSame
  <2>3. CASE call[c].sub = n
    <3>1. /\ \A d \in Call : call[d].sub = n => d = c
          /\ Current(call[c], n)
      BY <2>1, <2>3 DEF Served
    <3>2. Match(n)'
      BY <2>1, MatchSame DEF Served
    <3>3. k.sub = n => Current(k, n)
      BY <2>1, <3>1
    <3>4. k.sub = n => Current(k, n)'
      BY <3>3 DEF Current
    <3> QED
      BY <1>1, <3>1, <3>2, <3>4, ServedBy
  <2> QED
    BY <2>2, <2>3
<1> QED
  BY <1>2 DEF MatchInv

\* Handler c ends with a write to s and to requests of s that keeps the two in
\* agreement if it was alone.
LEMMA EndsServed ==
  ASSUME EndInv, MatchInv, NEW c \in Call, NEW s \in SubIds, call[c].sub = s, Finish(c),
         SubIds' = SubIds, UNCHANGED <<edited, raced>>,
         \A n \in SubIds : n # s => SameRows(n),
         Served(s) => Match(s)'
  PROVE  MatchInv'
<1>1. call \in [Call -> CallState] /\ call' = [call EXCEPT ![c] = IdleCall] /\ IdleCall.sub = 0
  BY DEF EndInv, TypeOK, Finish, IdleCall
<1>2. ASSUME NEW n \in Quiet' PROVE Served(n)'
  <2>1. n \in Quiet /\ n \in SubIds /\ Served(n) /\ n # 0
    BY <1>2 DEF Quiet, MatchInv, SubIds
  <2>2. CASE n # s
    <3>1. \A d \in Call : call'[d] = call[d] \/ (call[d].sub # n /\ call'[d].sub # n)
      BY <1>1, <2>1, <2>2
    <3> QED
      BY <2>1, <2>2, <3>1, ServedSame
  <2>3. CASE n = s
    <3>1. \A d \in Call : call[d].sub = s => d = c
      BY <2>1, <2>3 DEF Served
    <3> QED
      BY <1>1, <2>1, <2>3, <3>1, ServedBy DEF IdleCall, SubIds
  <2> QED
    BY <2>2, <2>3
<1> QED
  BY <1>2 DEF MatchInv

LEMMA ReadServed ==
  ASSUME EndInv, MatchInv, NEW c \in Call
  PROVE  /\ \A p \in Party : CreateCheck(c, p) => MatchInv'
         /\ \A s \in SubIds, v \in {"approve", "decline"} : ReviewRead(c, s, v) => MatchInv'
         /\ \A s \in SubIds, p \in Party : RequestRead(c, s, p) => MatchInv'
         /\ \A s \in SubIds, e \in EndIds, p \in Party : ConfirmRead(c, s, e, p) => MatchInv'
         /\ \A s \in SubIds, e \in EndIds, p \in Party : RejectRead(c, s, e, p) => MatchInv'
<1>a. SubIds \subseteq Nat /\ EndIds \subseteq Nat
  BY DEF SubIds, EndIds
<1>1. ASSUME NEW p \in Party, CreateCheck(c, p) PROVE MatchInv'
  <2>1. PICK k : k = Creating(p)
    OBVIOUS
  <2>2. k.sub = 0 /\ k.pc = "create"
    BY <2>1 DEF Creating, IdleCall
  <2>3. \A s \in SubIds : Current(k, s)
    BY <2>2 DEF Current
  <2> QED
    BY <1>1, <2>1, <2>2, <2>3, GoesOnServed DEF CreateCheck
<1>2. ASSUME NEW s \in SubIds, NEW v \in {"approve", "decline"}, ReviewRead(c, s, v) PROVE MatchInv'
  <2>1. PICK k : k = On(s, "DISTRIBUTOR", v)
    OBVIOUS
  <2>2. k.sub = s /\ k.pc = v
    BY <1>a, <2>1, OnTypes DEF Party
  <2>3. Current(k, s)
    BY <1>2, <2>2 DEF Current, ReviewRead
  <2> QED
    BY <1>2, <2>1, <2>2, <2>3, StartServed DEF ReviewRead
<1>3. ASSUME NEW s \in SubIds, NEW p \in Party, RequestRead(c, s, p) PROVE MatchInv'
  <2>1. PICK k : k = On(s, p, "ask")
    OBVIOUS
  <2>2. k.sub = s /\ k.pc = "ask"
    BY <1>a, <2>1, OnTypes
  <2>3. Current(k, s)
    BY <1>3, <2>2 DEF Current, RequestRead
  <2> QED
    BY <1>3, <2>1, <2>2, <2>3, StartServed DEF RequestRead
<1>4. ASSUME NEW s \in SubIds, NEW e \in EndIds, NEW p \in Party, NEW v \in {"settle", "keep"},
             Latest(s, e), subs[s].status = "PENDING_CANCEL", Start(c, s, OnEnd(s, e, p, v)),
             UNCHANGED <<subs, ends, edited>>
      PROVE  MatchInv'
  <2>1. PICK k : k = OnEnd(s, e, p, v)
    OBVIOUS
  <2>2. k.sub = s /\ k.pc = v /\ k.req = e
    BY <1>a, <2>1, OnTypes
  <2>3. ends[e].status = "PENDING"
    BY <1>4 DEF Latest, PendingEnds
  <2>4. Current(k, s)
    BY <1>4, <2>2, <2>3 DEF Current
  <2> QED
    BY <1>4, <2>1, <2>2, <2>4, StartServed
<1>5. ASSUME NEW s \in SubIds, NEW e \in EndIds, NEW p \in Party, ConfirmRead(c, s, e, p) PROVE MatchInv'
  <2>1. ends[e].sub = s /\ p \notin ends[e].confirmed
    BY <1>5 DEF ConfirmRead, Latest, PendingEnds
  <2>2. ends[e].by \in ends[e].confirmed /\ ends[e].by \in Party
    BY Rows, EndTypes DEF EndInv, EndOk
  <2>3. BothWillConfirm(ends[e], p)
    BY <2>1, <2>2 DEF BothWillConfirm, Other, Party
  <2> QED
    BY <1>4, <1>5, <2>3 DEF ConfirmRead
<1>6. ASSUME NEW s \in SubIds, NEW e \in EndIds, NEW p \in Party, RejectRead(c, s, e, p) PROVE MatchInv'
  BY <1>4, <1>6 DEF RejectRead
<1> QED
  BY <1>1, <1>2, <1>3, <1>5, <1>6

\* The four handlers' last writes.
LEMMA WriteServed ==
  ASSUME EndInv, MatchInv, NEW c \in Call
  PROVE  /\ ReviewWrite(c) => MatchInv'
         /\ RequestWrite(c) => MatchInv'
         /\ Close(c) => MatchInv'
         /\ RejectWrite(c) => MatchInv'
<1>a. call[c] \in CallState /\ CallOk(call[c], subs, ends, revived)
  BY DEF EndInv, TypeOK
<1>b. TypeOK /\ Len(subs) \in Nat /\ Len(ends) \in Nat
  BY Rows DEF EndInv
<1>c. call[c].pc \notin {"idle", "create"} => call[c].sub \in SubIds
  BY <1>a, <1>b, CallTypes DEF CallOk, SubIds
<1>d. call[c].pc \in {"close", "keep"} =>
        call[c].req \in EndIds /\ ends[call[c].req].sub = call[c].sub
  BY <1>a, <1>b, CallTypes DEF CallOk, EndIds
<1>e. {"ACTIVE", "REJECTED", "PENDING_CANCEL", "CANCELLED"} \subseteq SubStatus
  BY DEF SubStatus
<1>1. ASSUME ReviewWrite(c) PROVE MatchInv'
  <2>1. PICK s \in SubIds : call[c].sub = s
    BY <1>1, <1>c DEF ReviewWrite
  <2>2. PICK st \in {"ACTIVE", "REJECTED"} : SetSub(s, st)
    BY <1>1, <2>1 DEF ReviewWrite
  <2>3. /\ SubIds' = SubIds /\ subs'[s].status = st
        /\ \A n \in SubIds : n # s => subs'[n] = subs[n]
    BY <1>b, <1>e, <2>2, SetSubEffect
  <2>4. EndIds' = EndIds /\ ends' = ends /\ Finish(c) /\ UNCHANGED <<edited, raced>>
    BY <1>1 DEF ReviewWrite, EndIds
  <2>5. ASSUME Served(s) PROVE Match(s)'
    <3>1. subs[s].status = "PENDING_APPROVAL"
      BY <1>1, <2>1, <2>5 DEF ReviewWrite, Served, Current
    <3>2. PendingEnds(s)' = PendingEnds(s)
      BY <2>4 DEF PendingEnds
    <3> QED
      BY <2>3, <2>4, <2>5, <3>1, <3>2 DEF Served, Match
  <2>6. \A n \in SubIds : n # s => SameRows(n)
    BY <2>3, <2>4 DEF SameRows
  <2> QED
    BY <2>1, <2>3, <2>4, <2>5, <2>6, EndsServed
<1>2. ASSUME RequestWrite(c) PROVE MatchInv'
  <2>1. PICK s \in SubIds : call[c].sub = s
    BY <1>2, <1>c DEF RequestWrite
  <2>2. PICK x : x = NewEnd(s, call[c].party)
    OBVIOUS
  <2>3. x \in EndRequest /\ x.sub = s /\ x.status = "PENDING"
    BY <1>a, <2>2, Asked, CallTypes DEF SubIds
  <2>4. SetSub(s, "PENDING_CANCEL") /\ ends' = Append(ends, x) /\ Finish(c)
        /\ UNCHANGED <<edited, raced>>
    BY <1>2, <2>1, <2>2 DEF RequestWrite
  <2>5. /\ SubIds' = SubIds /\ subs'[s].status = "PENDING_CANCEL"
        /\ \A n \in SubIds : n # s => subs'[n] = subs[n]
    BY <1>b, <1>e, <2>4, SetSubEffect
  <2>6. PICK m : m = Len(ends) + 1
    OBVIOUS
  <2>7. /\ Len(ends') = m /\ ends'[m] = x
        /\ \A e \in EndIds : ends'[e] = ends[e]
    BY <1>b, <2>3, <2>4, <2>6, AppendProperties DEF TypeOK, EndIds
  <2>8. EndIds' = EndIds \cup {m} /\ m \notin EndIds
    BY <1>b, <2>6, <2>7 DEF EndIds
  <2>9. ASSUME Served(s) PROVE Match(s)'
    <3>1. subs[s].status = "ACTIVE"
      BY <1>2, <2>1, <2>9 DEF RequestWrite, Served, Current
    <3>2. PendingEnds(s) = {} /\ \A e \in EndIds : ends[e].sub = s => ends[e].status # "APPROVED"
      BY <2>9, <3>1 DEF Served, Match
    <3>3. PendingEnds(s)' = {m}
      BY <2>3, <2>7, <2>8, <3>2 DEF PendingEnds
    <3>4. \A e \in EndIds' : ends'[e].sub = s => ends'[e].status # "APPROVED"
      BY <2>3, <2>7, <2>8, <3>2
    <3> QED
      BY <2>5, <3>3, <3>4 DEF Match
  <2>10. \A n \in SubIds : n # s => SameRows(n)
    BY <2>3, <2>5, <2>7, <2>8 DEF SameRows
  <2> QED
    BY <2>1, <2>4, <2>5, <2>9, <2>10, EndsServed
<1>3. ASSUME NEW x \in EndRequest, NEW q \in EndIds, NEW s \in SubIds,
             call[c].sub = s, call[c].req = q, call[c].pc \in {"close", "keep"},
             x.sub = s, NEW st \in {"ACTIVE", "CANCELLED"},
             x.status = IF st = "ACTIVE" THEN "REJECTED" ELSE "APPROVED",
             ends' = [ends EXCEPT ![q] = x], SetSub(s, st), Finish(c),
             UNCHANGED <<edited, raced>>
      PROVE  MatchInv'
  <2>1. /\ SubIds' = SubIds /\ subs'[s].status = st
        /\ \A n \in SubIds : n # s => subs'[n] = subs[n]
    BY <1>3, <1>b, <1>e, SetSubEffect
  <2>2. /\ EndIds' = EndIds /\ ends'[q] = x
        /\ \A n \in EndIds : n # q => ends'[n] = ends[n]
    BY <1>3, <1>b, ExceptSeq DEF TypeOK, EndIds
  <2>3. ends[q].sub = s
    BY <1>3, <1>d
  <2>4. ASSUME Served(s) PROVE Match(s)'
    <3>1. subs[s].status = "PENDING_CANCEL" /\ ends[q].status = "PENDING"
      BY <1>3, <2>4 DEF Served, Current
    <3>2. \A e \in EndIds : ends[e].sub = s => ends[e].status # "APPROVED"
      BY <2>4, <3>1 DEF Served, Match
    <3>3. \A e \in EndIds : ends[e].sub = s /\ ends[e].status = "PENDING" => e = q
      BY <2>3, <2>4, <3>1 DEF Served, Match, PendingEnds
    <3>4. PendingEnds(s)' = {}
      BY <1>3, <2>2, <3>3 DEF PendingEnds
    <3>5. (\E e \in EndIds' : ends'[e].sub = s /\ ends'[e].status = "APPROVED")
          <=> st = "CANCELLED"
      BY <1>3, <2>2, <3>2
    <3> QED
      BY <1>3, <2>1, <3>4, <3>5 DEF Match
  <2>5. \A n \in SubIds : n # s => SameRows(n)
    BY <1>3, <2>1, <2>2, <2>3 DEF SameRows
  <2> QED
    BY <1>3, <2>1, <2>4, <2>5, EndsServed
<1>4. ASSUME NEW q \in EndIds, call[c].req = q, call[c].pc \in {"close", "keep"}
      PROVE  /\ Approved(ends[q], call[c].party, call[c].bill) \in EndRequest
             /\ Approved(ends[q], call[c].party, call[c].bill).sub = call[c].sub
             /\ Approved(ends[q], call[c].party, call[c].bill).status = "APPROVED"
             /\ Rejected(ends[q], call[c].party) \in EndRequest
             /\ Rejected(ends[q], call[c].party).sub = call[c].sub
             /\ Rejected(ends[q], call[c].party).status = "REJECTED"
  <2>1. /\ ends[q] \in EndRequest /\ call[c].party \in Party /\ call[c].bill \in Nat
        /\ ends[q].sub = call[c].sub
    BY <1>4, <1>a, <1>b, <1>d, Rows, CallTypes
  <2> QED
    BY <2>1 DEF Approved, Rejected, EndRequest
<1>5. ASSUME Close(c) PROVE MatchInv'
  <2>1. PICK s \in SubIds, q \in EndIds : call[c].sub = s /\ call[c].req = q
    BY <1>5, <1>c, <1>d DEF Close
  <2>2. PICK x : x = Approved(ends[q], call[c].party, call[c].bill)
    OBVIOUS
  <2>3. call[c].pc = "close" /\ x \in EndRequest /\ x.sub = s /\ x.status = "APPROVED"
    BY <1>4, <1>5, <2>1, <2>2 DEF Close
  <2>4. /\ ends' = [ends EXCEPT ![q] = x] /\ SetSub(s, "CANCELLED") /\ Finish(c)
        /\ UNCHANGED <<edited, raced>>
    BY <1>5, <2>1, <2>2 DEF Close
  <2> QED
    BY <1>3, <2>1, <2>3, <2>4
<1>6. ASSUME RejectWrite(c) PROVE MatchInv'
  <2>1. PICK s \in SubIds, q \in EndIds : call[c].sub = s /\ call[c].req = q
    BY <1>6, <1>c, <1>d DEF RejectWrite
  <2>2. PICK x : x = Rejected(ends[q], call[c].party)
    OBVIOUS
  <2>3. call[c].pc = "keep" /\ x \in EndRequest /\ x.sub = s /\ x.status = "REJECTED"
    BY <1>4, <1>6, <2>1, <2>2 DEF RejectWrite
  <2>4. /\ ends' = [ends EXCEPT ![q] = x] /\ SetSub(s, "ACTIVE") /\ Finish(c)
        /\ UNCHANGED <<edited, raced>>
    BY <1>6, <2>1, <2>2 DEF RejectWrite, AfterReject
  <2> QED
    BY <1>3, <2>1, <2>3, <2>4
<1> QED
  BY <1>1, <1>2, <1>5, <1>6

LEMMA MatchStep ==
  ASSUME EndConstants, EndInv, MatchInv, [Next]_vars
  PROVE  MatchInv'
<1>a. TypeOK /\ Len(subs) \in Nat /\ Len(ends) \in Nat /\ call \in [Call -> CallState]
  BY Rows DEF EndInv, TypeOK
<1>1. ASSUME NEW c \in Call, CreateWrite(c) PROVE MatchInv'
  <2>1. PICK x : x = [status |-> FirstStatus(call[c].party), seen |-> call[c].seen]
    OBVIOUS
  <2>2. call[c] \in CallState /\ call[c].pc = "create"
    BY <1>1, <1>a DEF CreateWrite
  <2>3. x \in Subscription /\ x.status \in {"ACTIVE", "PENDING_APPROVAL"}
    BY <2>1, <2>2, CallTypes DEF Subscription, SubStatus, FirstStatus
  <2>4. /\ subs' = Append(subs, x) /\ Finish(c) /\ UNCHANGED <<ends, raced, edited>>
        /\ EndIds' = EndIds
    BY <1>1, <2>1 DEF CreateWrite, EndIds
  <2>5. PICK m : m = Len(subs) + 1
    OBVIOUS
  <2>6. /\ Len(subs') = m /\ subs'[m] = x
        /\ \A n \in SubIds : subs'[n] = subs[n]
    BY <1>a, <2>3, <2>4, <2>5, AppendProperties DEF TypeOK, SubIds
  <2>7. SubIds' = SubIds \cup {m} /\ m \notin SubIds /\ m # 0
    BY <1>a, <2>5, <2>6 DEF SubIds
  <2>8. call' = [call EXCEPT ![c] = IdleCall] /\ IdleCall.sub = 0
    BY <2>4 DEF Finish, IdleCall
  <2>9. ASSUME NEW n \in Quiet', n # m PROVE Served(n)'
    <3>1. n \in Quiet /\ Served(n) /\ n # 0
      BY <2>4, <2>7, <2>9 DEF Quiet, MatchInv, SubIds
    <3>2. SameRows(n)
      BY <2>4, <2>6, <3>1 DEF SameRows, Quiet
    <3>3. CASE call[c].sub # n
      <4>1. \A d \in Call : call'[d] = call[d] \/ (call[d].sub # n /\ call'[d].sub # n)
        BY <1>a, <2>8, <3>1, <3>3
      <4> QED
        BY <3>1, <3>2, <4>1, ServedSame
    <3>4. CASE call[c].sub = n
      <4>1. \A d \in Call : call[d].sub = n => d = c
        BY <3>1, <3>4 DEF Served
      <4>2. Match(n)'
        BY <3>1, <3>2, MatchSame DEF Served
      <4> QED
        BY <1>a, <2>8, <3>1, <4>1, <4>2, ServedBy
    <3> QED
      BY <3>3, <3>4
  <2>10. Served(m)'
    <3>1. \A d \in Call : call[d].sub # m
      BY <1>a, <2>7 DEF TypeOK
    <3>2. \A d \in Call : call'[d].sub # m
      BY <1>a, <2>7, <2>8, <3>1
    <3>3. \A e \in EndIds' : ends'[e].sub # m
      BY <1>a, <2>4, <2>7 DEF TypeOK
    <3>4. PendingEnds(m)' = {}
      BY <3>3 DEF PendingEnds
    <3> QED
      BY <2>3, <2>6, <3>2, <3>3, <3>4 DEF Served, Match
  <2> QED
    BY <2>9, <2>10 DEF MatchInv
<1>2. ASSUME NEW c \in Call, SettleRead(c) \/ SettleIssue(c) \/ CallFails(c) PROVE MatchInv'
  <2>1. call[c] \in CallState
    BY <1>a
  <2>2. ASSUME SettleRead(c) \/ SettleIssue(c) PROVE MatchInv'
    <3>1. PICK k : call' = [call EXCEPT ![c] = k] /\
                   (k = Owing(call[c]) \/ \E b : k = Settled(call[c], b))
      BY <2>2 DEF SettleRead, SettleIssue
    <3>2. k.sub = call[c].sub /\ k.req = call[c].req /\ k.pc \in {"issue", "close"}
      BY <2>1, <3>1 DEF Owing, Settled, CallState
    <3>3. call[c].pc \in {"settle", "issue"} /\ UNCHANGED <<subs, ends, edited, raced>>
      BY <2>2 DEF SettleRead, SettleIssue
    <3>4. \A s \in SubIds : Current(call[c], s) => Current(k, s)
      BY <3>2, <3>3 DEF Current
    <3> QED
      BY <3>1, <3>2, <3>3, <3>4, GoesOnServed
  <2>3. ASSUME CallFails(c) PROVE MatchInv'
    <3>1. call' = [call EXCEPT ![c] = IdleCall] /\ UNCHANGED <<subs, ends, edited, raced>>
      BY <2>3 DEF CallFails, Finish
    <3>2. IdleCall.sub = 0 /\ \A s \in SubIds : IdleCall.sub # s
      BY DEF IdleCall, SubIds
    <3> QED
      BY <3>1, <3>2, GoesOnServed
  <2> QED
    BY <1>2, <2>2, <2>3
<1>3. ASSUME NEW s \in SubIds, NEW st \in SubStatus, UpdateStatus(s, st) PROVE MatchInv'
  <2>1. /\ SetSub(s, st) /\ edited' = edited \cup {s} /\ ends' = ends /\ EndIds' = EndIds
        /\ call' = call /\ raced' = raced
    BY <1>3 DEF UpdateStatus, EndIds
  <2>2. /\ SubIds' = SubIds
        /\ \A n \in SubIds : n # s => subs'[n] = subs[n]
    BY <1>a, <2>1, SetSubEffect
  <2>3. ASSUME NEW n \in Quiet' PROVE Served(n)'
    <3>1. n \in Quiet /\ n \in SubIds /\ n # s /\ Served(n) /\ n # 0
      BY <2>1, <2>2, <2>3 DEF Quiet, MatchInv, SubIds
    <3>2. SameRows(n)
      BY <2>1, <2>2, <3>1 DEF SameRows
    <3> QED
      BY <2>1, <3>1, <3>2, ServedSame
  <2> QED
    BY <2>3 DEF MatchInv
<1>4. ASSUME UNCHANGED <<subs, ends, call, raced, edited>> PROVE MatchInv'
  <2>1. ASSUME NEW n \in Quiet' PROVE Served(n)'
    <3>1. n \in Quiet /\ Served(n) /\ n # 0 /\ SameRows(n)
      BY <1>4, <2>1 DEF Quiet, MatchInv, SubIds, EndIds, SameRows
    <3> QED
      BY <1>4, <3>1, ServedSame
  <2> QED
    BY <2>1 DEF MatchInv
<1>5. ASSUME NEW s \in SubIds, Deliver(s) \/ CycleBills(s) PROVE MatchInv'
  BY <1>4, <1>5 DEF Deliver, CycleBills
<1>6. CASE UNCHANGED vars
  BY <1>4, <1>6 DEF vars
<1>7. ASSUME NEW c \in Call, CallStep(c) PROVE MatchInv'
  BY <1>1, <1>2, <1>7, ReadServed, WriteServed DEF CallStep
<1> QED
  BY <1>3, <1>5, <1>6, <1>7 DEF Next

\* Handlers that come one after another keep a subscription and its requests
\* in agreement: only a race or a status set by hand tells them apart.
THEOREM MismatchNeedsRaceOrEdit == Spec => []RequestsMatchStatus
<1>1. Init => MatchInv
  BY DEF Init, MatchInv, Quiet, SubIds
<1>2. EndInv /\ MatchInv /\ [Next]_vars => MatchInv'
  BY MatchStep, EndConstants
<1>3. MatchInv => RequestsMatchStatus
  BY DEF MatchInv, Quiet, Served, Match, RequestsMatchStatus
<1> QED
  BY <1>1, <1>2, <1>3, EndInvHolds, PTL DEF Spec
============================================================================
