----------------------------- MODULE MutualEnd -----------------------------
(***************************************************************************)
(* What subscription-end.service.ts promises of the ends of subscriptions, *)
(* without handlers, queries, settlements and crashes: a party asks, the   *)
(* other party agrees or refuses, and each of these changes the request    *)
(* and the subscription in one step or not at all.  Nothing else makes a   *)
(* subscription end.  SubscriptionEnd is shown to implement it.            *)
(*                                                                         *)
(* It does not promise that a request is decided once: two handlers that   *)
(* read it while it was pending both decide it, and the later one counts   *)
(* for the request and for the subscription.                               *)
(***************************************************************************)
EXTENDS Naturals, Sequences

CONSTANTS
  Party,   \* the two sides of a subscription
  Status   \* what a subscription can be

VARIABLES
  status,  \* the subscriptions' statuses, in creation order
  request  \* the end requests: whose end, who asked, who decided and how

vars == <<status, request>>

Ending == {"PENDING_CANCEL", "CANCELLED"}

Request == [sub : Nat, by : Party, verdict : {"PENDING", "APPROVED", "REJECTED"},
            decider : Party \cup {"nobody"}]

Init == status = <<>> /\ request = <<>>

Create(st) ==
  /\ status' = Append(status, st)
  /\ UNCHANGED request

\* Approvals, refused applications, and whatever the distributor sets by hand.
Change(s, st) ==
  /\ status' = [status EXCEPT ![s] = st]
  /\ UNCHANGED request

Ask(s, p) ==
  /\ status' = [status EXCEPT ![s] = "PENDING_CANCEL"]
  /\ request' = Append(request, [sub |-> s, by |-> p, verdict |-> "PENDING", decider |-> "nobody"])

Decided(r, p, verdict) == [sub |-> r.sub, by |-> r.by, verdict |-> verdict, decider |-> p]

Agree(e, p) ==
  /\ p # request[e].by
  /\ status' = [status EXCEPT ![request[e].sub] = "CANCELLED"]
  /\ request' = [request EXCEPT ![e] = Decided(@, p, "APPROVED")]

Refuse(e, p) ==
  /\ p # request[e].by
  /\ status' = [status EXCEPT ![request[e].sub] = "ACTIVE"]
  /\ request' = [request EXCEPT ![e] = Decided(@, p, "REJECTED")]

Next ==
  \/ \E st \in Status \ Ending : Create(st)
  \/ \E s \in 1 .. Len(status), st \in Status \ Ending : Change(s, st)
  \/ \E s \in 1 .. Len(status), p \in Party : Ask(s, p)
  \/ \E e \in 1 .. Len(request), p \in Party : Agree(e, p) \/ Refuse(e, p)

Spec == Init /\ [][Next]_vars

----------------------------------------------------------------------------
AskedFor(s) ==
  \E e \in 1 .. Len(request) : request[e].sub = s /\ request[e].verdict = "PENDING"

AgreedTo(s) ==
  \E e \in 1 .. Len(request) :
    /\ request[e].sub = s /\ request[e].verdict = "APPROVED"
    /\ request[e].decider \in Party \ {request[e].by}

\* What follows: a subscription that is ending has a request to decide, and a
\* cancelled one a request that the party which did not ask has approved.
EndedByBoth ==
  \A s \in 1 .. Len(status) :
    /\ status[s] = "PENDING_CANCEL" => AskedFor(s)
    /\ status[s] = "CANCELLED" => AgreedTo(s)
============================================================================
