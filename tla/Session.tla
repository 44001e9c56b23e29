------------------------------ MODULE Session ------------------------------
(***************************************************************************)
(* The session of one account: the refresh-token rotation of               *)
(* auth.service, and the three pieces of browser code that share a token   *)
(* pair without knowing of each other: the axios interceptor of lib/api    *)
(* (one refresh at a time, the other calls queued), the notification       *)
(* stream of lib/notification-sse (a refresh of its own), and the store of *)
(* auth-store, one in memory per tab and one in localStorage for all.      *)
(*                                                                         *)
(* A token pair is the number of its creation: access token n expires,     *)
(* refresh token n is traded for the next pair until it expires itself.    *)
(* An Agent is an API call or one life of a tab's stream; the requests in  *)
(* flight are its steps.                                                   *)
(***************************************************************************)
EXTENDS Naturals, Sequences, FiniteSets

CONSTANTS
  Tab,
  Api,       \* API calls, each made again and again
  Stream,    \* lives of the notification streams
  TabOf,     \* the tab an agent belongs to
  MaxPairs   \* bound: token pairs the server creates

Agent == Api \cup Stream

ASSUME SessionConstants ==
  /\ Api \cap Stream = {}
  /\ TabOf \in [Agent -> Tab]
  /\ MaxPairs \in Nat

VARIABLES
  live,      \* refreshToken rows of the account
  expired,   \* access tokens past their 15 minutes
  overdue,   \* rows past their 7 days, which nothing removes
  origin,    \* pairs created, each with the refresh token traded for it (0: sign-in)
  store,     \* a tab's zustand store: has it a user, which pair
  saved,     \* localStorage, the same
  refreshing,\* a tab's isRefreshing
  agent,     \* local state of the agents
  presented, \* history: <<refresh token, tab, kind>> posted to /auth/refresh
  lost,      \* history: refresh tokens whose answer was lost on the way
  late       \* history: a tab was signed out while a refresh of its was in flight

vars == <<live, expired, overdue, origin, store, saved, refreshing, agent, presented, lost, late>>
server  == <<live, expired, overdue, origin>>
history == <<presented, lost, late>>

Pairs == 1 .. Len(origin)
NoPair == 0

Nobody == [user |-> FALSE, pair |-> NoPair]

Idle == [pc |-> "idle", tok |-> NoPair, retry |-> FALSE, got |-> NoPair, for |-> NoPair]

Posting == {"post", "found", "deleted", "answered"}

TypeOK ==
  /\ origin \in Seq(0 .. MaxPairs)
  /\ live \subseteq Pairs /\ expired \subseteq Pairs /\ overdue \subseteq Pairs
  /\ store \in [Tab -> [user : BOOLEAN, pair : Pairs \cup {NoPair}]]
  /\ saved \in [user : BOOLEAN, pair : Pairs \cup {NoPair}]
  /\ refreshing \in [Tab -> BOOLEAN]
  /\ agent \in [Agent -> [pc : {"idle", "sent", "queued", "open"} \cup Posting,
                          tok : Pairs \cup {NoPair}, retry : BOOLEAN,
                          got : Pairs \cup {NoPair}, for : Pairs \cup {NoPair}]]
  /\ presented \subseteq Pairs \X Tab \X {"api", "stream"}
  /\ lost \subseteq Pairs /\ late \in BOOLEAN

Init ==
  /\ live = {} /\ expired = {} /\ overdue = {} /\ origin = <<>>
  /\ store = [t \in Tab |-> Nobody] /\ saved = Nobody
  /\ refreshing = [t \in Tab |-> FALSE]
  /\ agent = [a \in Agent |-> Idle]
  /\ presented = {} /\ lost = {} /\ late = FALSE

Of(t) == {a \in Agent : TabOf[a] = t}

Refreshing(a) == agent[a].pc \in Posting

Kind(a) == IF a \in Api THEN "api" ELSE "stream"

Set(a, state) == agent' = [agent EXCEPT ![a] = state]

To(state, pc) == [state EXCEPT !.pc = pc]

\* A request carrying access token n.
Sent(n, retry, for) ==
  [pc |-> "sent", tok |-> n, retry |-> retry, got |-> NoPair, for |-> for]

----------------------------------------------------------------------------
(* auth-store.                                                             *)

\* Slip: a new access token beside the old refresh token.
SaveOld(row, n) == row

\* setTokens keeps the user the store has by now.
SaveTokens(row, n) == [row EXCEPT !.pair = n]

SetTokens(t, n) ==
  /\ store' = [store EXCEPT ![t] = SaveTokens(@, n)]
  /\ saved' = store'[t]

\* The notes of history: the other refreshes of the tab go on regardless.
ClearAuth(t, me) ==
  /\ store' = [store EXCEPT ![t] = Nobody]
  /\ saved' = Nobody
  /\ late' = (late \/ \E a \in Of(t) \ me : Refreshing(a))

\* login, register and activate end in setAuth with a new pair.
SignIn(t) ==
  /\ store[t].pair = NoPair /\ Len(origin) < MaxPairs
  /\ origin' = Append(origin, NoPair)
  /\ live' = live \cup {Len(origin')}
  /\ store' = [store EXCEPT ![t] = [user |-> TRUE, pair |-> Len(origin')]]
  /\ saved' = store'[t]
  /\ UNCHANGED <<expired, overdue, refreshing, agent, presented, lost, late>>

\* handleSignOut: the server is not told.
SignOut(t) ==
  /\ store[t].pair # NoPair
  /\ ClearAuth(t, {})
  /\ UNCHANGED <<server, refreshing, agent, presented, lost>>

\* The page is loaded anew and hydrate reads localStorage.  Tokens saved
\* without a user are taken over before parsed.user.role throws and clears them.
Load(t) ==
  /\ store' = [store EXCEPT ![t] = saved]
  /\ saved' = IF saved.user THEN saved ELSE Nobody
  /\ refreshing' = [refreshing EXCEPT ![t] = FALSE]
  /\ agent' = [a \in Agent |-> IF a \in Of(t) THEN Idle ELSE agent[a]]
  /\ lost' = lost \cup {agent[a].tok : a \in {x \in Of(t) : Refreshing(x)}}
  /\ UNCHANGED <<server, presented, late>>

----------------------------------------------------------------------------
(* POST /auth/refresh.  Whoever posts, the server goes through three       *)
(* queries, and any failure is the same to the browser.                    *)

Expire(n) ==
  /\ n \notin expired
  /\ expired' = expired \cup {n}
  /\ UNCHANGED <<live, overdue, origin, store, saved, refreshing, agent, history>>

\* A row's 7 days end, long after its access token's 15 minutes.
Outlast(n) ==
  /\ n \in (live \cap expired) \ overdue
  /\ overdue' = overdue \cup {n}
  /\ UNCHANGED <<live, expired, origin, store, saved, refreshing, agent, history>>

Post(a) ==
  LET n == store[TabOf[a]].pair IN
  /\ Set(a, [agent[a] EXCEPT !.pc = "post", !.tok = n, !.retry = (a \in Api)])
  /\ presented' = presented \cup {<<n, TabOf[a], Kind(a)>>}

Answer(state, n) == [state EXCEPT !.pc = "answered", !.got = n]

\* findUnique by token, and its expiresAt is not past.
Finds(n) == n \in live \ overdue

RefreshFind(a) ==
  /\ agent[a].pc = "post"
  /\ Set(a, IF Finds(agent[a].tok) THEN To(agent[a], "found") ELSE Answer(agent[a], NoPair))
  /\ UNCHANGED <<server, store, saved, refreshing, history>>

\* Slip: deleteMany, which does not mind that the row is gone.
DeletedAnyway(n) == TRUE

\* delete by id throws when the row is gone.
Deletes(n) == n \in live

RefreshDelete(a) ==
  LET n == agent[a].tok IN
  /\ agent[a].pc = "found"
  /\ live' = live \ {n}
  /\ Set(a, IF Deletes(n) THEN To(agent[a], "deleted") ELSE Answer(agent[a], NoPair))
  /\ UNCHANGED <<expired, overdue, origin, store, saved, refreshing, history>>

RefreshCreate(a) ==
  /\ agent[a].pc = "deleted" /\ Len(origin) < MaxPairs
  /\ origin' = Append(origin, agent[a].tok)
  /\ live' = live \cup {Len(origin')}
  /\ Set(a, Answer(agent[a], Len(origin')))
  /\ UNCHANGED <<expired, overdue, store, saved, refreshing, history>>

\* The network, the throttler or a crash of the server fails the request,
\* before, between or after the queries.
RefreshLost(a) ==
  /\ Refreshing(a) /\ (agent[a].pc = "answered" => agent[a].got # NoPair)
  /\ Set(a, Answer(agent[a], NoPair))
  /\ lost' = lost \cup {agent[a].tok}
  /\ UNCHANGED <<server, store, saved, refreshing, presented, late>>

----------------------------------------------------------------------------
(* The axios interceptor.                                                  *)

\* A signed-out tab calls without a token.
Call(a) ==
  /\ agent[a].pc = "idle"
  /\ Set(a, Sent(store[TabOf[a]].pair, FALSE, NoPair))
  /\ UNCHANGED <<server, store, saved, refreshing, history>>

\* Any answer but 401 goes to the caller; some endpoints are public.
CallAnswered(a) ==
  /\ agent[a].pc = "sent" /\ agent[a].tok \notin expired
  /\ Set(a, Idle)
  /\ UNCHANGED <<server, store, saved, refreshing, history>>

Unauthorized(a) == agent[a].pc = "sent" /\ agent[a].tok \in expired \cup {NoPair}

\* 401 on a call that was retried: the caller gets the error.
CallRejected(a) ==
  /\ Unauthorized(a) /\ agent[a].retry
  /\ Set(a, Idle)
  /\ UNCHANGED <<server, store, saved, refreshing, history>>

\* 401 with no refresh token in the store.
CallSignedOut(a) ==
  /\ Unauthorized(a) /\ ~agent[a].retry /\ store[TabOf[a]].pair = NoPair
  /\ Set(a, Idle)
  /\ ClearAuth(TabOf[a], {a})
  /\ UNCHANGED <<server, refreshing, presented, lost>>

MayRefresh(t) == ~refreshing[t]

\* 401 while the tab refreshes: the call waits in failedQueue.
CallQueued(a) ==
  LET t == TabOf[a] IN
  /\ Unauthorized(a) /\ ~agent[a].retry /\ store[t].pair # NoPair
  /\ ~MayRefresh(t)
  /\ Set(a, To(Idle, "queued"))
  /\ UNCHANGED <<server, store, saved, refreshing, history>>

\* 401 otherwise: the call refreshes with the token the store has by now.
CallRefreshes(a) ==
  LET t == TabOf[a] IN
  /\ Unauthorized(a) /\ ~agent[a].retry /\ store[t].pair # NoPair
  /\ MayRefresh(t)
  /\ Post(a)
  /\ refreshing' = [refreshing EXCEPT ![t] = TRUE]
  /\ UNCHANGED <<server, store, saved, lost, late>>

Queued(t) == {a \in Api : TabOf[a] = t /\ agent[a].pc = "queued"}

\* Slip: processQueue is left out of the success path.
QueueForgotten(t, n) == {}

\* processQueue resolves every queued promise.
Resolved(t, n) == Queued(t)

\* The tokens are set, the queued calls and the call itself made again: only
\* the latter is marked _retry.
CallRefreshed(a) ==
  LET t == TabOf[a]
      n == agent[a].got
  IN
  /\ a \in Api /\ agent[a].pc = "answered" /\ n # NoPair
  /\ SetTokens(t, n)
  /\ agent' = [x \in Agent |->
       CASE x = a -> Sent(store'[t].pair, TRUE, NoPair)
         [] x \in Resolved(t, n) -> Sent(store'[t].pair, FALSE, NoPair)
         [] OTHER -> agent[x]]
  /\ refreshing' = [refreshing EXCEPT ![t] = FALSE]
  /\ UNCHANGED <<server, history>>

\* Every queued call fails with this one, and the tab is signed out.
CallRefreshFailed(a) ==
  LET t == TabOf[a] IN
  /\ a \in Api /\ agent[a].pc = "answered" /\ agent[a].got = NoPair
  /\ agent' = [x \in Agent |-> IF x = a \/ x \in Queued(t) THEN Idle ELSE agent[x]]
  /\ ClearAuth(t, {a})
  /\ refreshing' = [refreshing EXCEPT ![t] = FALSE]
  /\ UNCHANGED <<server, presented, lost>>

----------------------------------------------------------------------------
(* The notification stream.  The effect of notification-arrival-watcher    *)
(* runs once per access token ("for"); its cleanup aborts the stream but   *)
(* not a refresh the stream has under way.                                 *)

Connect(s) ==
  LET n == store[TabOf[s]].pair IN
  /\ agent[s].pc = "idle" /\ n # NoPair
  /\ \A x \in Stream : TabOf[x] = TabOf[s] /\ agent[x].pc # "idle" => agent[x].for # n
  /\ Set(s, Sent(n, FALSE, n))
  /\ UNCHANGED <<server, store, saved, refreshing, history>>

Connected(s) ==
  /\ agent[s].pc = "sent" /\ agent[s].tok \notin expired
  /\ Set(s, [To(Idle, "open") EXCEPT !.for = agent[s].for])
  /\ UNCHANGED <<server, store, saved, refreshing, history>>

\* The connection ends, or fails otherwise than by a 401.
Disconnected(s) ==
  /\ agent[s].pc \in {"sent", "open"}
  /\ Set(s, Idle)
  /\ UNCHANGED <<server, store, saved, refreshing, history>>

\* 401: refreshAccessToken, whether or not the interceptor is at it.
StreamRefreshes(s) ==
  /\ Unauthorized(s) /\ store[TabOf[s]].pair # NoPair
  /\ Post(s)
  /\ UNCHANGED <<server, store, saved, refreshing, lost, late>>

StreamSignedOut(s) ==
  /\ Unauthorized(s) /\ store[TabOf[s]].pair = NoPair
  /\ Set(s, Idle)
  /\ ClearAuth(TabOf[s], {s})
  /\ UNCHANGED <<server, refreshing, presented, lost>>

\* connectOnce again, with the token refreshed.
StreamRefreshed(s) ==
  LET n == agent[s].got IN
  /\ s \in Stream /\ agent[s].pc = "answered" /\ n # NoPair
  /\ SetTokens(TabOf[s], n)
  /\ Set(s, Sent(n, FALSE, agent[s].for))
  /\ UNCHANGED <<server, refreshing, history>>

StreamRefreshFailed(s) ==
  /\ s \in Stream /\ agent[s].pc = "answered" /\ agent[s].got = NoPair
  /\ Set(s, Idle)
  /\ ClearAuth(TabOf[s], {s})
  /\ UNCHANGED <<server, refreshing, presented, lost>>

----------------------------------------------------------------------------
Refresh(a) ==
  \/ RefreshFind(a)
  \/ RefreshDelete(a)
  \/ RefreshCreate(a)
  \/ RefreshLost(a)

\* What happens to a call once it is made.
CallProceeds(a) ==
  \/ CallAnswered(a)
  \/ CallRejected(a)
  \/ CallSignedOut(a)
  \/ CallQueued(a)
  \/ CallRefreshes(a)
  \/ CallRefreshed(a)
  \/ CallRefreshFailed(a)

StreamStep(s) ==
  \/ Connect(s)
  \/ Connected(s)
  \/ Disconnected(s)
  \/ StreamRefreshes(s)
  \/ StreamSignedOut(s)
  \/ StreamRefreshed(s)
  \/ StreamRefreshFailed(s)

Next ==
  \/ \E t \in Tab : SignIn(t) \/ SignOut(t) \/ Load(t)
  \/ \E n \in Pairs : Expire(n) \/ Outlast(n)
  \/ \E a \in Agent : Refresh(a)
  \/ \E a \in Api : Call(a) \/ CallProceeds(a)
  \/ \E s \in Stream : StreamStep(s)

Spec == Init /\ [][Next]_vars

\* Every request is answered or fails, and the browser handles the answer.
FairSpec == Spec /\ \A a \in Api : WF_vars(Refresh(a)) /\ WF_vars(CallProceeds(a))

----------------------------------------------------------------------------
(* Properties.                                                             *)

\* The pairs a refresh token has bought, and the requests past its deletion.
Bought(m) == {n \in Pairs : origin[n] = m}
Buying(m) == {a \in Agent : agent[a].pc = "deleted" /\ agent[a].tok = m}

\* A refresh token buys one pair: of two refreshes that both found the row,
\* from whatever tabs and streams, the delete lets one pass.
OneSuccessor ==
  \A m \in Pairs :
    /\ \A x, y \in Bought(m) : x = y
    /\ \A a, b \in Buying(m) : a = b
    /\ Bought(m) = {} \/ Buying(m) = {}

\* failedQueue: a call waits only while another call of its tab refreshes, and
\* one call does at a time; no call is left behind in the queue.
QueueIsServed ==
  \A t \in Tab :
    /\ Queued(t) # {} => refreshing[t]
    /\ refreshing[t] => \E a \in Api : TabOf[a] = t /\ Refreshing(a)
    /\ \A a, b \in Api :
         TabOf[a] = t /\ TabOf[b] = t /\ Refreshing(a) /\ Refreshing(b) => a = b

\* A refresh fails only where an answer got lost, the token is past its 7 days, or
\* it was also presented by another tab or by a stream: the interceptor alone never
\* presents a token twice.
RefreshFailureIsExplained ==
  \A a \in Agent :
    agent[a].pc = "answered" /\ agent[a].got = NoPair
        /\ agent[a].tok \notin lost \cup overdue =>
      \E p, q \in presented : p[1] = agent[a].tok /\ q[1] = p[1] /\ (p # q \/ p[3] = "stream")

\* Tokens without a user, which every page takes for a session, come only from
\* a refresh that outlived the sign-out.
UserlessOnlyByLateRefresh ==
  (\E t \in Tab : store[t].pair # NoPair /\ ~store[t].user) => late

\* Every API call ends: with an answer, or with the error that signs the tab out.
CallsEnd == \A a \in Api : (agent[a].pc # "idle") ~> (agent[a].pc = "idle")
============================================================================
