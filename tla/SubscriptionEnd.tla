-------------------------- MODULE SubscriptionEnd --------------------------
(***************************************************************************)
(* The life of the subscriptions one customer has with one distributor:    *)
(* created, approved or declined, paused, ended by mutual consent.         *)
(* customer.service, distributor.service and subscription-end.service read *)
(* a row, decide, and later write it by id; only the final writes of an    *)
(* end request are in a transaction.  A Call is one handler in flight, a   *)
(* step of it what others can observe between two awaits.                  *)
(***************************************************************************)
EXTENDS Naturals, Sequences, FiniteSets

CONSTANTS
  Call,            \* handlers that may be in flight together
  ApprovalEnabled, \* isSubscriptionApprovalEnabled()
  MaxSubs,         \* bound: subscriptions, with those being created
  MaxEnds,         \* bound: end requests, with those being made
  MaxBills         \* bound: no delivery is made with this many settlement bills

ASSUME EndConstants ==
  /\ ApprovalEnabled \in BOOLEAN
  /\ MaxSubs \in Nat
  /\ MaxEnds \in Nat
  /\ MaxBills \in Nat

VARIABLES
  subs,      \* subscription rows in creation order
  ends,      \* subscriptionEndRequest rows in creation order
  unbilled,  \* subscriptions with delivered items a settlement would bill
  bills,     \* history: the settlement bills, each with its subscription
  call,      \* local state of the handlers
  raced,     \* history: subscriptions two handlers worked on at once
  edited,    \* history: subscriptions whose status the distributor set
  revived    \* history: subscriptions that were not Open and became so

vars == <<subs, ends, unbilled, bills, call, raced, edited, revived>>

Party == {"CUSTOMER", "DISTRIBUTOR"}

Other(p) == IF p = "CUSTOMER" THEN "DISTRIBUTOR" ELSE "CUSTOMER"

SubStatus == {"ACTIVE", "PAUSED", "PENDING_APPROVAL", "PENDING_CANCEL", "CANCELLED", "REJECTED"}

\* Slip: a subscription whose end is being settled is overlooked.
BlockingUnlessEnding == {"ACTIVE", "PENDING_APPROVAL"}

\* The statuses assertNoActiveSubscription looks for.
Blocking == {"ACTIVE", "PENDING_CANCEL", "PENDING_APPROVAL"}

\* A subscription that is served or may come to be, as it stands.
Open == {"ACTIVE", "PENDING_CANCEL", "PENDING_APPROVAL"}

\* seen is history: the subscriptions there were when the creation checked.
Subscription == [status : SubStatus, seen : Nat]

(***************************************************************************)
(* confirmed is the set of parties whose ...ConfirmedAt is set, bill the   *)
(* settlementBillId (0 for null).  acted (who asked or confirmed) and      *)
(* decider are history.                                                    *)
(***************************************************************************)
EndRequest == [sub : Nat \ {0}, by : Party, confirmed : SUBSET Party,
               status : {"PENDING", "APPROVED", "REJECTED"}, bill : Nat,
               acted : SUBSET Party, decider : Party \cup {"nobody"}]

CallState == [pc : {"idle", "create", "approve", "decline", "ask", "wait",
                    "settle", "issue", "close", "keep"},
              sub : Nat, req : Nat, party : Party, seen : Nat, bill : Nat]

SubIds == 1 .. Len(subs)
EndIds == 1 .. Len(ends)

IdleCall == [pc |-> "idle", sub |-> 0, req |-> 0, party |-> "CUSTOMER",
             seen |-> 0, bill |-> 0]

TypeOK ==
  /\ subs \in Seq(Subscription)
  /\ ends \in Seq(EndRequest)
  /\ unbilled \subseteq SubIds
  /\ bills \in Seq(Nat)
  /\ call \in [Call -> CallState]
  /\ raced \subseteq SubIds /\ edited \subseteq SubIds /\ revived \subseteq SubIds
  /\ \A e \in EndIds : ends[e].sub \in SubIds
  /\ \A c \in Call : call[c].sub \in SubIds \cup {0} /\ call[c].req \in EndIds \cup {0}

Init ==
  /\ subs = <<>> /\ ends = <<>> /\ bills = <<>>
  /\ unbilled = {} /\ raced = {} /\ edited = {} /\ revived = {}
  /\ call = [c \in Call |-> IdleCall]

----------------------------------------------------------------------------
(* Updates of rows and of a handler's local state.                         *)

WithStatus(sub, st) == [sub EXCEPT !.status = st]

Owing(state) == [state EXCEPT !.pc = "issue"]

Settled(state, b) == [state EXCEPT !.pc = "close", !.bill = b]

Finish(c) == call' = [call EXCEPT ![c] = IdleCall]

\* The subscription update by id, whatever its status is by now.
SetSub(s, st) ==
  /\ subs' = [subs EXCEPT ![s] = WithStatus(@, st)]
  /\ revived' = IF subs[s].status \notin Open /\ st \in Open
                THEN revived \cup {s} ELSE revived

\* Handler c starts on subscription s: history notes if it is not alone.
Start(c, s, state) ==
  /\ call[c].pc = "idle"
  /\ call' = [call EXCEPT ![c] = state]
  /\ raced' = IF \E d \in Call : call[d].sub = s THEN raced \cup {s} ELSE raced

\* For the bounds: the handlers that may still add a row.
InFlight(pc) == {c \in Call : call[c].pc = pc}

On(s, p, pc) == [IdleCall EXCEPT !.pc = pc, !.sub = s, !.party = p]

OnEnd(s, e, p, pc) == [On(s, p, pc) EXCEPT !.req = e]

Creating(p) == [IdleCall EXCEPT !.pc = "create", !.party = p, !.seen = Len(subs)]

----------------------------------------------------------------------------
(* Creation and approval.                                                  *)

\* assertNoActiveSubscription, in both createSubscription handlers.
CreateCheck(c, p) ==
  /\ call[c].pc = "idle"
  /\ Len(subs) + Cardinality(InFlight("create")) < MaxSubs
  /\ \A s \in SubIds : subs[s].status \notin Blocking
  /\ call' = [call EXCEPT ![c] = Creating(p)]
  /\ UNCHANGED <<subs, ends, unbilled, bills, raced, edited, revived>>

\* The distributor's subscriptions and, without approval, the customer's
\* start ACTIVE.
FirstStatus(p) == IF p = "CUSTOMER" /\ ApprovalEnabled THEN "PENDING_APPROVAL" ELSE "ACTIVE"

CreateWrite(c) ==
  /\ call[c].pc = "create"
  /\ subs' = Append(subs, [status |-> FirstStatus(call[c].party), seen |-> call[c].seen])
  /\ Finish(c)
  /\ UNCHANGED <<ends, unbilled, bills, raced, edited, revived>>

\* approveSubscription and rejectSubscription read the same way.
ReviewRead(c, s, verdict) ==
  /\ subs[s].status = "PENDING_APPROVAL"
  /\ Start(c, s, On(s, "DISTRIBUTOR", verdict))
  /\ UNCHANGED <<subs, ends, unbilled, bills, edited, revived>>

ReviewWrite(c) ==
  /\ call[c].pc \in {"approve", "decline"}
  /\ SetSub(call[c].sub, IF call[c].pc = "approve" THEN "ACTIVE" ELSE "REJECTED")
  /\ Finish(c)
  /\ UNCHANGED <<ends, unbilled, bills, raced, edited>>

\* The distributor's updateSubscription refuses four target statuses and
\* never looks at the status the subscription has.
UpdateStatus(s, st) ==
  /\ st \notin {"CANCELLED", "PENDING_CANCEL", "PENDING_APPROVAL", "REJECTED"}
  /\ SetSub(s, st)
  /\ edited' = edited \cup {s}
  /\ UNCHANGED <<ends, unbilled, bills, call, raced>>

----------------------------------------------------------------------------
(* The end request.                                                        *)

PendingEnds(s) == {e \in EndIds : ends[e].sub = s /\ ends[e].status = "PENDING"}

\* The request loadSubscriptionForParty takes: the latest still PENDING.
Latest(s, e) == e \in PendingEnds(s) /\ \A d \in PendingEnds(s) : d <= e

RequestRead(c, s, p) ==
  /\ subs[s].status = "ACTIVE"
  /\ Len(ends) + Cardinality(InFlight("ask")) < MaxEnds
  /\ Start(c, s, On(s, p, "ask"))
  /\ UNCHANGED <<subs, ends, unbilled, bills, edited, revived>>

\* The initiator is confirmed from the start.
FirstConfirmed(p) == {p}

NewEnd(s, p) ==
  [sub |-> s, by |-> p, confirmed |-> FirstConfirmed(p), status |-> "PENDING",
   bill |-> 0, acted |-> {p}, decider |-> "nobody"]

\* One transaction: the request and PENDING_CANCEL.
RequestWrite(c) ==
  /\ call[c].pc = "ask"
  /\ ends' = Append(ends, NewEnd(call[c].sub, call[c].party))
  /\ SetSub(call[c].sub, "PENDING_CANCEL")
  /\ Finish(c)
  /\ UNCHANGED <<unbilled, bills, raced, edited>>

BothWillConfirm(end, p) == Other(p) \in end.confirmed

\* A handler whose other party has yet to confirm would wait: NeverWaits shows
\* none does, so nothing follows "wait".
ConfirmRead(c, s, e, p) ==
  /\ Latest(s, e) /\ subs[s].status = "PENDING_CANCEL"
  /\ p \notin ends[e].confirmed
  /\ Start(c, s, OnEnd(s, e, p, IF BothWillConfirm(ends[e], p) THEN "settle" ELSE "wait"))
  /\ UNCHANGED <<subs, ends, unbilled, bills, edited, revived>>

\* createSettlementBill looks for unbilled deliveries, returns null if there
\* are none ...
SettleRead(c) ==
  /\ call[c].pc = "settle"
  /\ call' = [call EXCEPT ![c] = IF @.sub \in unbilled THEN Owing(@) ELSE Settled(@, 0)]
  /\ UNCHANGED <<subs, ends, unbilled, bills, raced, edited, revived>>

\* ... and else bills those it found.
SettleIssue(c) ==
  LET s == call[c].sub IN
  /\ call[c].pc = "issue"
  /\ bills' = Append(bills, s)
  /\ unbilled' = unbilled \ {s}
  /\ call' = [call EXCEPT ![c] = Settled(@, Len(bills'))]
  /\ UNCHANGED <<subs, ends, raced, edited, revived>>

Approved(end, p, b) ==
  [end EXCEPT !.status = "APPROVED", !.confirmed = Party, !.bill = b,
              !.acted = @ \cup {p}, !.decider = p]

\* Second transaction: the request approved, the subscription CANCELLED.
Close(c) ==
  /\ call[c].pc = "close"
  /\ ends' = [ends EXCEPT ![call[c].req] = Approved(@, call[c].party, call[c].bill)]
  /\ SetSub(call[c].sub, "CANCELLED")
  /\ Finish(c)
  /\ UNCHANGED <<unbilled, bills, raced, edited>>

\* "Initiator cannot reject their own request - only the other party".
MayReject(end, p) == end.by # p

RejectRead(c, s, e, p) ==
  /\ Latest(s, e) /\ subs[s].status = "PENDING_CANCEL"
  /\ MayReject(ends[e], p)
  /\ Start(c, s, OnEnd(s, e, p, "keep"))
  /\ UNCHANGED <<subs, ends, unbilled, bills, edited, revived>>

\* Slip: only the subscription is written.
ForgottenRejection(end, p) == [end EXCEPT !.decider = p]

Rejected(end, p) == [end EXCEPT !.status = "REJECTED", !.decider = p]

\* Slip: the subscription is left as it was.
StillEnding == "PENDING_CANCEL"

AfterReject == "ACTIVE"

RejectWrite(c) ==
  /\ call[c].pc = "keep"
  /\ ends' = [ends EXCEPT ![call[c].req] = Rejected(@, call[c].party)]
  /\ SetSub(call[c].sub, AfterReject)
  /\ Finish(c)
  /\ UNCHANGED <<unbilled, bills, raced, edited>>

\* A handler dies between two of its awaits; NO_ACTIVE_PRICING is one cause.
CallFails(c) ==
  /\ call[c].pc # "idle"
  /\ Finish(c)
  /\ UNCHANGED <<subs, ends, unbilled, bills, raced, edited, revived>>

----------------------------------------------------------------------------
(* Deliveries and billing cycles, as far as a settlement sees them.        *)

Deliver(s) ==
  /\ Len(bills) < MaxBills
  /\ unbilled' = unbilled \cup {s}
  /\ UNCHANGED <<subs, ends, bills, call, raced, edited, revived>>

CycleBills(s) ==
  /\ s \in unbilled
  /\ unbilled' = unbilled \ {s}
  /\ UNCHANGED <<subs, ends, bills, call, raced, edited, revived>>

----------------------------------------------------------------------------
CallStep(c) ==
  \/ \E p \in Party : CreateCheck(c, p)
  \/ CreateWrite(c)
  \/ \E s \in SubIds, v \in {"approve", "decline"} : ReviewRead(c, s, v)
  \/ ReviewWrite(c)
  \/ \E s \in SubIds, p \in Party : RequestRead(c, s, p)
  \/ RequestWrite(c)
  \/ \E s \in SubIds, e \in EndIds, p \in Party : ConfirmRead(c, s, e, p)
  \/ SettleRead(c)
  \/ SettleIssue(c)
  \/ Close(c)
  \/ \E s \in SubIds, e \in EndIds, p \in Party : RejectRead(c, s, e, p)
  \/ RejectWrite(c)
  \/ CallFails(c)

Next ==
  \/ \E c \in Call : CallStep(c)
  \/ \E s \in SubIds, st \in SubStatus : UpdateStatus(s, st)
  \/ \E s \in SubIds : Deliver(s) \/ CycleBills(s)

Spec == Init /\ [][Next]_vars

----------------------------------------------------------------------------
(* Properties.                                                             *)

\* Ending needs both parties: an approved request was acted on by each, and a
\* rejected one was rejected by the party that did not ask, however the
\* handlers interleave.
NoUnilateralEnd ==
  \A e \in EndIds :
    /\ ends[e].status = "APPROVED" => ends[e].acted = Party
    /\ ends[e].status = "REJECTED" => ends[e].decider # ends[e].by

\* confirmEnd never finds the other party's confirmation missing: its waiting
\* branch is dead code, since the initiator is confirmed from the start and
\* cannot confirm again.
NeverWaits == \A c \in Call : call[c].pc # "wait"

\* No subscription is stuck in PENDING_CANCEL: there is always a PENDING request
\* the other party can still confirm or reject, even after races and crashes.
EndingHasRequest ==
  \A s \in SubIds : subs[s].status = "PENDING_CANCEL" => PendingEnds(s) # {}

\* Two subscriptions are open at once only if the later one was checked before
\* the earlier one was written, or the earlier one was paused or closed at the
\* time and set back to an open status since.
DuplicateNeedsRaceOrRevival ==
  \A x, y \in SubIds :
    x < y /\ subs[x].status \in Open /\ subs[y].status \in Open =>
      subs[y].seen < x \/ x \in revived

\* Where no two handlers overlapped and the distributor set no status by hand,
\* the subscription and its requests agree: PENDING_CANCEL with exactly one
\* request pending, CANCELLED with an approved one.
RequestsMatchStatus ==
  \A s \in SubIds \ (raced \cup edited) :
    /\ subs[s].status = "PENDING_CANCEL" <=> PendingEnds(s) # {}
    /\ \A d, e \in PendingEnds(s) : d = e
    /\ subs[s].status = "CANCELLED" <=>
         \E e \in EndIds : ends[e].sub = s /\ ends[e].status = "APPROVED"

\* Seen from outside, the end of a subscription is a matter of single steps:
\* every handler of subscription-end.service.ts takes effect at one moment, on
\* the request and the subscription together, or not at all, and only the party
\* that did not ask decides.
View(end) == [sub |-> end.sub, by |-> end.by, verdict |-> end.status, decider |-> end.decider]

Agreement == INSTANCE MutualEnd WITH
  Status  <- SubStatus,
  status  <- [s \in SubIds |-> subs[s].status],
  request <- [e \in EndIds |-> View(ends[e])]

EndsByAgreement == Agreement!Spec

CancelledIsAgreed == Agreement!EndedByBoth
============================================================================
