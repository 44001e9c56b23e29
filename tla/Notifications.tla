---------------------------- MODULE Notifications --------------------------
(***************************************************************************)
(* The notifications of one user: notification.service.ts writes the rows  *)
(* and publishes unread snapshots through the hub to the user's stream;    *)
(* notification-arrival-watcher.tsx keeps the badge and raises the toasts  *)
(* of his open tab, from the stream while it is live and from polls while  *)
(* it is not.  A snapshot is two queries in parallel, made after every     *)
(* change and not awaited by the handler that caused it, so snapshots      *)
(* overtake changes, polls and each other.  Rows are told apart by         *)
(* createdAt, so a row is its place in the table.                          *)
(***************************************************************************)
EXTENDS Integers, Sequences, FiniteSets

CONSTANTS
  Event,   \* the eventIds of one occasion, each with its user
  Mine,    \* those for the user followed
  Call,    \* handlers that report the occasion: all create the same events
  MaxMark, \* bound: markRead and markAllRead requests
  MaxDrop  \* bound: times the stream breaks

ASSUME NotificationsAssumption ==
  /\ IsFiniteSet(Event) /\ Mine \subseteq Event /\ Call # {}
  /\ MaxMark \in Nat /\ MaxDrop \in Nat

VARIABLES
  told,    \* events that have their row, for whichever user
  rows,    \* how many rows the user has; they are numbered as they are made
  unread,  \* rows whose readAt is null
  version, \* history: changes made to the user's rows
  call,    \* local state of the reporting handlers
  snap,    \* publishUnreadSnapshot calls under way
  mark,    \* a markRead or markAllRead request of the tab
  marks,   \* bound: how many were sent
  stream,  \* the stream: "down", "asking" (its first snapshot is read), "live"
  wire,    \* what the hub sent and the tab has not received, and the first snapshot
  drops,   \* bound: how often the stream broke
  fetch,   \* the unread-count request of the tab
  cache,   \* what the tab last heard: badge and latest
  primed,  \* primedRef
  prev,    \* prevLatestRef; 0 is null
  toasts,  \* history: how often each row was shown as a toast
  missed,  \* history: the tab may have missed the last change
  disorder \* history: the tab heard of an older latest row after a newer one

server == <<told, rows, unread, version>>
client == <<cache, primed, prev, toasts>>
heard == <<missed, disorder>>
vars == <<server, call, snap, mark, marks, stream, wire, drops, fetch, client, heard>>

Row == 1 .. Cardinality(Mine)

\* count and latest are read apart: countAt and latestAt tell after how many
\* changes, and are history; -1 where the query has not answered.
Blank == [count |-> -1, latest |-> -1, countAt |-> -1, latestAt |-> -1]
Whole(s) == s.count >= 0 /\ s.latest >= 0
Snapshot == [count : Row \cup {-1, 0}, latest : Row \cup {-1, 0},
             countAt : Nat \cup {-1}, latestAt : Nat \cup {-1}]

NoFetch == [Blank EXCEPT !.count = -2]

TypeOK ==
  /\ told \subseteq Event /\ rows = Cardinality(told \cap Mine) /\ unread \subseteq 1 .. rows
  /\ version \in Nat
  /\ call \in [Call -> [pc : {"new", "look", "insert", "done", "failed", "died"}, left : SUBSET Event,
                        event : SUBSET Event]]
  /\ \A i \in DOMAIN snap : snap[i] \in Snapshot
  /\ mark \in {"none", "one", "all", "marked"} /\ marks \in 0 .. MaxMark
  /\ stream \in {"down", "asking", "live"} /\ drops \in 0 .. MaxDrop
  /\ \A i \in DOMAIN wire : wire[i] \in Snapshot
  /\ fetch \in Snapshot \cup {NoFetch} /\ cache \in Snapshot
  /\ primed \in BOOLEAN /\ prev \in Row \cup {0} /\ toasts \in [Row -> 0 .. 2]
  /\ missed \in BOOLEAN /\ disorder \in BOOLEAN

Init ==
  /\ told = {} /\ rows = 0 /\ unread = {} /\ version = 0
  /\ call = [c \in Call |-> [pc |-> "new", left |-> Event, event |-> {}]]
  /\ snap = <<>> /\ mark = "none" /\ marks = 0
  /\ stream = "down" /\ wire = <<>> /\ drops = 0
  /\ fetch = NoFetch /\ cache = Blank /\ primed = FALSE /\ prev = 0
  /\ toasts = [n \in Row |-> 0] /\ missed = FALSE /\ disorder = FALSE

----------------------------------------------------------------------------
(* unreadCount: two queries that answer in either order.                   *)

CountRead(s)  == [s EXCEPT !.count = Cardinality(unread), !.countAt = version]
LatestRead(s) == [s EXCEPT !.latest = rows, !.latestAt = version]

\* s becomes t when one of its two queries answers.
Reads(s, t) ==
  \/ s.count = -1 /\ t = CountRead(s)
  \/ s.latest = -1 /\ t = LatestRead(s)

\* History: the oldest state a snapshot shows anything of.
Age(s) == IF s.countAt < s.latestAt THEN s.countAt ELSE s.latestAt

----------------------------------------------------------------------------
(* create and createMany.                                                  *)

\* Slip: the event is looked up without its user.
MadeForAnyone(e) == told # {}

\* findUnique by <<eventId, userId>>.
Made(e) == e \in told

Goes(c, pc, left, event) == call' = [call EXCEPT ![c] = [pc |-> pc, left |-> left, event |-> event]]

\* createMany takes its inputs one by one, in the handler's order; a row that is
\* found is returned as if it had been created.
Look(c, e) ==
  /\ call[c].pc \in {"new", "look"} /\ e \in call[c].left
  /\ IF Made(e) THEN Goes(c, "look", call[c].left \ {e}, {})
                ELSE Goes(c, "insert", call[c].left \ {e}, {e})
  /\ UNCHANGED <<server, snap, mark, marks, stream, wire, drops, fetch, client, heard>>

\* The user's snapshot is read and published while the handler goes on.
Insert(c, e) ==
  /\ call[c].pc = "insert" /\ e \in call[c].event /\ e \notin told
  /\ told' = told \cup {e}
  /\ Goes(c, "look", call[c].left, {})
  /\ IF e \in Mine
     THEN /\ rows' = rows + 1 /\ unread' = unread \cup {rows + 1} /\ version' = version + 1
          /\ snap' = Append(snap, Blank)
     ELSE UNCHANGED <<rows, unread, version, snap>>
  /\ UNCHANGED <<mark, marks, stream, wire, drops, fetch, client, heard>>

\* The unique key <<eventId, userId>> refuses the row: the exception leaves
\* createMany and the handler, whose other notifications are not made.
InsertRefused(c) ==
  /\ call[c].pc = "insert" /\ call[c].event \subseteq told
  /\ Goes(c, "failed", call[c].left, {})
  /\ UNCHANGED <<server, snap, mark, marks, stream, wire, drops, fetch, client, heard>>

CallEnds(c) ==
  /\ call[c].pc = "look" /\ call[c].left = {}
  /\ Goes(c, "done", {}, {})
  /\ UNCHANGED <<server, snap, mark, marks, stream, wire, drops, fetch, client, heard>>

\* The process dies, or the database is gone.
CallDies(c) ==
  /\ call[c].pc \in {"look", "insert"}
  /\ Goes(c, "died", call[c].left, {})
  /\ UNCHANGED <<server, snap, mark, marks, stream, wire, drops, fetch, client, heard>>

----------------------------------------------------------------------------
(* publishUnreadSnapshot and the hub.                                      *)

Without(i) == [j \in 1 .. Len(snap) - 1 |-> IF j < i THEN snap[j] ELSE snap[j + 1]]

SnapReads(i) ==
  /\ \E t \in {CountRead(snap[i]), LatestRead(snap[i])} :
       Reads(snap[i], t) /\ snap' = [snap EXCEPT ![i] = t]
  /\ UNCHANGED <<server, call, mark, marks, stream, wire, drops, fetch, client, heard>>

\* To the stream if it has subscribed; else to nobody.
Publish(i) ==
  /\ Whole(snap[i])
  /\ snap' = Without(i)
  /\ wire' = IF stream = "live" THEN Append(wire, snap[i]) ELSE wire
  /\ missed' = (missed \/ stream = "asking")
  /\ UNCHANGED <<server, call, mark, marks, stream, drops, fetch, client, disorder>>

\* Its errors are swallowed.
SnapFails(i) ==
  /\ snap' = Without(i) /\ missed' = TRUE
  /\ UNCHANGED <<server, call, mark, marks, stream, wire, drops, fetch, client, disorder>>

----------------------------------------------------------------------------
(* The tab hears of a snapshot.                                            *)

\* Slip: a toast does not become the latest seen.
NotSeen(latest) == prev

\* prevLatestRef after a payload; a null latest leaves it.
Seen(latest) == IF latest = 0 THEN prev ELSE latest

\* Slip: the badge has to show more than this one.
WorthSeveral(s) == s.count > 1

Worth(s) == s.count > 0

Toast(s) ==
  toasts' = IF primed /\ s.latest \notin {0, prev} /\ Worth(s)
            THEN [toasts EXCEPT ![s.latest] = IF @ = 2 THEN 2 ELSE @ + 1] ELSE toasts

\* applyPayload and the polling effect agree but for where they are called:
\* the first payload primes without a toast.
Notice(s) ==
  /\ primed' = TRUE
  /\ prev' = IF primed THEN Seen(s.latest) ELSE s.latest
  /\ Toast(s)

\* Slip: a payload without a new row is not worth caching.
KeptIfNews(s) == IF s.latest = cache.latest THEN cache ELSE s

\* setQueryData, or the query's answer: whatever was cached before.
Kept(s) == s

Hear(s) ==
  /\ cache' = Kept(s)
  /\ missed' = (Age(s) < version /\ (missed \/ Age(s) < Age(cache)))
  /\ disorder' = (disorder \/ s.latestAt < cache.latestAt)

----------------------------------------------------------------------------
(* The stream: notification.controller stream, openNotificationStream.     *)

Connect ==
  /\ stream = "down" /\ drops < MaxDrop
  /\ stream' = "asking" /\ wire' = <<Blank>>
  /\ UNCHANGED <<server, call, snap, mark, marks, drops, fetch, client, heard>>

StreamReads ==
  /\ stream = "asking"
  /\ \E t \in {CountRead(wire[1]), LatestRead(wire[1])} : Reads(wire[1], t) /\ wire' = <<t>>
  /\ UNCHANGED <<server, call, snap, mark, marks, stream, drops, fetch, client, heard>>

\* The hub adds the subject and the first snapshot is sent.
Subscribe ==
  /\ stream = "asking" /\ Whole(wire[1]) /\ stream' = "live"
  /\ UNCHANGED <<server, call, snap, mark, marks, wire, drops, fetch, client, heard>>

\* onNotification.
Receive ==
  /\ stream = "live" /\ wire # <<>>
  /\ wire' = Tail(wire)
  /\ Hear(wire[1]) /\ Notice(wire[1])
  /\ UNCHANGED <<server, call, snap, mark, marks, stream, drops, fetch>>

\* onDisconnected: the polling effect runs over what is cached.
Drop ==
  /\ stream # "down" /\ stream' = "down" /\ wire' = <<>> /\ drops' = drops + 1
  /\ IF cache # Blank THEN Notice(cache) ELSE UNCHANGED <<primed, prev, toasts>>
  /\ UNCHANGED <<server, call, snap, mark, marks, fetch, cache, heard>>

----------------------------------------------------------------------------
(* useUnreadNotificationCount and the marks.                               *)

\* The poll while the stream is not live, or a stale entry when the window
\* comes into focus.
FetchStart ==
  /\ fetch = NoFetch /\ fetch' = Blank
  /\ UNCHANGED <<server, call, snap, mark, marks, stream, wire, drops, client, heard>>

FetchReads ==
  /\ fetch # NoFetch
  /\ \E t \in {CountRead(fetch), LatestRead(fetch)} : Reads(fetch, t) /\ fetch' = t
  /\ UNCHANGED <<server, call, snap, mark, marks, stream, wire, drops, client, heard>>

\* While the stream is live the answer only becomes the badge.
FetchAnswer ==
  /\ fetch # NoFetch /\ Whole(fetch)
  /\ fetch' = NoFetch
  /\ Hear(fetch)
  /\ IF stream = "live" THEN UNCHANGED <<primed, prev, toasts>> ELSE Notice(fetch)
  /\ UNCHANGED <<server, call, snap, mark, marks, stream, wire, drops>>

MarkSend(what) ==
  /\ mark = "none" /\ marks < MaxMark /\ unread # {}
  /\ mark' = what /\ marks' = marks + 1
  /\ UNCHANGED <<server, call, snap, stream, wire, drops, fetch, client, heard>>

Marking(S) ==
  /\ unread' = unread \ S /\ version' = version + 1
  /\ snap' = Append(snap, Blank) /\ mark' = "marked"
  /\ UNCHANGED <<told, rows, call, marks, stream, wire, drops, fetch, client, heard>>

MarkRead(n) == mark = "one" /\ n \in 1 .. rows /\ Marking({n})
MarkAllRead == mark = "all" /\ Marking(unread)

\* onSuccess invalidates: a request under way is dropped for a new one.
MarkAnswer ==
  /\ mark = "marked" /\ mark' = "none" /\ fetch' = Blank
  /\ UNCHANGED <<server, call, snap, marks, stream, wire, drops, client, heard>>

Next ==
  \/ \E c \in Call :
       \/ \E e \in Event : Look(c, e) \/ Insert(c, e)
       \/ InsertRefused(c) \/ CallEnds(c) \/ CallDies(c)
  \/ \E i \in DOMAIN snap : SnapReads(i) \/ Publish(i) \/ SnapFails(i)
  \/ Connect \/ StreamReads \/ Subscribe \/ Receive \/ Drop
  \/ FetchStart \/ FetchReads \/ FetchAnswer
  \/ \E what \in {"one", "all"} : MarkSend(what)
  \/ \E n \in Row : MarkRead(n)
  \/ MarkAllRead \/ MarkAnswer

Spec == Init /\ [][Next]_vars

\* The poll's timer fires, and its queries and answers arrive.
FairSpec == Spec /\ WF_vars(FetchStart) /\ WF_vars(FetchReads) /\ WF_vars(FetchAnswer)

----------------------------------------------------------------------------
(* Properties.                                                             *)

Ended(c) == call[c].pc \in {"done", "failed"}

\* A create that loses the race for the unique key throws and takes the rest of
\* its createMany with it; all the same, once every handler that reports the
\* occasion has ended and none died, every event has its row.
EveryoneIsTold == (\A c \in Call : Ended(c)) => told = Event

\* What the bell shows, and what the last toast was about, are up to date.
BadgeIsRight == cache.count = Cardinality(unread) /\ cache.latest = rows

\* Nothing is under way that the tab has still to hear of.
Quiet == stream = "live" /\ wire = <<>> /\ snap = <<>> /\ fetch = NoFetch /\ mark = "none"

\* While the stream is live nothing polls: a badge that is wrong then was
\* overwritten by an older snapshot that arrived later, or missed one that was
\* published between the stream's first snapshot and its subscription or whose
\* queries failed.
StaleBadgeIsExplained ==
  Quiet /\ ~BadgeIsRight => missed

\* A row is shown as a toast again only after the tab heard of an older row
\* than it knew: no reconnection, poll or repeated snapshot raises it twice.
ToastTwiceOnlyIfDisorder == (\E n \in Row : toasts[n] = 2) => disorder

\* Rows that reach a primed tab together share the toast of the newest: those
\* it overtook never get one of their own.  If any of them is still unread, the
\* newest is toasted, unless the snapshot's count was read before its latest.
UnreadRowsPassWithAToast ==
  [][\A n \in Row :
       primed /\ prev < n /\ n <= prev' /\ n \in unread =>
         toasts'[prev'] > 0 \/ cache'.countAt < cache'.latestAt]_vars

\* Once the stream stays down the polls bring the badge and the latest row up
\* to date for good.
PollsCatchUp == <>[](stream = "down") => <>[]BadgeIsRight
============================================================================
