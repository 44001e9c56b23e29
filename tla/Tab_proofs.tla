----------------------------- MODULE Tab_proofs ----------------------------
(***************************************************************************)
(* Proofs about what a tab shows: Notifications, any number of reporting   *)
(* handlers and of rows, snapshots and messages under way; and Screens,    *)
(* any people and any number of changes, for every query and change that   *)
(* the pages have.                                                         *)
(***************************************************************************)
EXTENDS Notifications, Screens, FiniteSetTheorems, SequenceTheorems, TLAPS

(***************************************************************************)
(* Types.                                                                  *)
(***************************************************************************)
ServerOk ==
  /\ told \subseteq Event /\ rows = Cardinality(told \cap Mine)
  /\ unread \subseteq 1 .. rows /\ version \in Nat

\* Once the stream is live, only whole snapshots are on the wire.
FlowOk ==
  /\ snap \in Seq(Snapshot) /\ wire \in Seq(Snapshot)
  /\ stream \in {"down", "asking", "live"}
  /\ stream = "down" => wire = <<>>
  /\ stream = "asking" => Len(wire) = 1
  /\ stream = "live" => \A i \in 1 .. Len(wire) : Whole(wire[i])
  /\ cache \in Snapshot /\ (cache = Blank \/ Whole(cache))
  /\ fetch \in Snapshot \cup {NoFetch}

Typed == ServerOk /\ FlowOk /\ TypeOK

LEMMA RowFacts ==
  ASSUME ServerOk
  PROVE  /\ Cardinality(Mine) \in Nat /\ rows \in Nat /\ rows <= Cardinality(Mine)
         /\ IsFiniteSet(unread) /\ Cardinality(unread) \in Nat
         /\ Cardinality(unread) <= Cardinality(Mine)
         /\ rows \in Row \cup {0} /\ Cardinality(unread) \in Row \cup {0}
<1>1. IsFiniteSet(Mine) /\ IsFiniteSet(told \cap Mine)
  BY NotificationsAssumption, FS_Subset, told \cap Mine \subseteq Mine
<1>2. Cardinality(Mine) \in Nat /\ rows \in Nat /\ rows <= Cardinality(Mine)
  BY <1>1, FS_Subset, FS_CardinalityType, told \cap Mine \subseteq Mine DEF ServerOk
<1>3. IsFiniteSet(1 .. rows) /\ Cardinality(1 .. rows) = rows
  <2>1. /\ IsFiniteSet(1 .. rows)
        /\ Cardinality(1 .. rows) = IF 1 > rows THEN 0 ELSE rows - 1 + 1
    BY <1>2, FS_Interval
  <2> QED BY <2>1, <1>2
<1>4. IsFiniteSet(unread) /\ Cardinality(unread) <= rows
  BY <1>3, FS_Subset DEF ServerOk
<1>5. Cardinality(unread) \in Nat
  BY <1>4, FS_CardinalityType
<1> QED BY <1>2, <1>4, <1>5 DEF Row

LEMMA BlankFacts ==
  /\ Blank \in Snapshot /\ Blank # NoFetch /\ NoFetch \notin Snapshot
  /\ Blank.count = -1 /\ Blank.latest = -1 /\ Blank.countAt = -1 /\ Blank.latestAt = -1
  /\ NoFetch.count = -2 /\ NoFetch.latest = -1 /\ NoFetch.countAt = -1 /\ NoFetch.latestAt = -1
  BY NotificationsAssumption, FS_Subset, FS_CardinalityType DEF Blank, NoFetch, Snapshot, Row

\* What a query brings.
LEMMA ReadFacts ==
  ASSUME ServerOk, NEW s \in Snapshot
  PROVE  /\ CountRead(s) \in Snapshot /\ LatestRead(s) \in Snapshot
         /\ CountRead(s).count = Cardinality(unread) /\ CountRead(s).countAt = version
         /\ CountRead(s).latest = s.latest /\ CountRead(s).latestAt = s.latestAt
         /\ LatestRead(s).latest = rows /\ LatestRead(s).latestAt = version
         /\ LatestRead(s).count = s.count /\ LatestRead(s).countAt = s.countAt
  BY RowFacts DEF Snapshot, CountRead, LatestRead, ServerOk

\* The user's rows change only where a notification is inserted or read.
LEMMA ServerMoves ==
  ASSUME [Next]_vars
  PROVE  \/ UNCHANGED server
         \/ \E c \in Call, e \in Event : Insert(c, e)
         \/ \E S : Marking(S)
  BY DEF Next, vars, Look, InsertRefused, CallEnds, CallDies, SnapReads,
     Publish, SnapFails, Connect, StreamReads, Subscribe, Receive, Drop, FetchStart,
     FetchReads, FetchAnswer, MarkSend, MarkRead, MarkAllRead, MarkAnswer

LEMMA ServerStep ==
  ASSUME ServerOk, [Next]_vars
  PROVE  ServerOk'
<1>1. rows \in Nat
  BY RowFacts
<1>2. ASSUME NEW c \in Call, NEW e \in Event, Insert(c, e)  PROVE ServerOk'
  <2>1. CASE e \in Mine
    <3>1. IsFiniteSet(told \cap Mine)
      BY NotificationsAssumption, FS_Subset, told \cap Mine \subseteq Mine
    <3>2. told' \cap Mine = (told \cap Mine) \cup {e} /\ e \notin told \cap Mine
      BY <1>2, <2>1 DEF Insert
    <3>3. Cardinality(told' \cap Mine) = Cardinality(told \cap Mine) + 1
      BY <3>1, <3>2, FS_AddElement
    <3>4. rows' = rows + 1 /\ unread' = unread \cup {rows + 1} /\ version' = version + 1
          /\ told' = told \cup {e}
      BY <1>2, <2>1 DEF Insert
    <3>5. unread' \subseteq 1 .. rows'
      <4>1. unread \subseteq 1 .. rows
        BY DEF ServerOk
      <4> QED BY ONLY <3>4, <4>1, <1>1
    <3>6. told' \subseteq Event /\ version' \in Nat
      BY <3>4 DEF ServerOk
    <3>7. rows' = Cardinality(told' \cap Mine)
      BY <3>3, <3>4 DEF ServerOk
    <3> QED BY <3>5, <3>6, <3>7 DEF ServerOk
  <2>2. CASE e \notin Mine
    <3>1. told' \cap Mine = told \cap Mine /\ told' \subseteq Event
      BY <1>2, <2>2 DEF Insert, ServerOk
    <3> QED BY <1>2, <2>2, <3>1 DEF Insert, ServerOk
  <2> QED BY <2>1, <2>2
<1>3. ASSUME NEW S, Marking(S)  PROVE ServerOk'
  <2>1. told' = told /\ rows' = rows /\ unread' \subseteq unread /\ version' = version + 1
    BY <1>3 DEF Marking
  <2> QED BY <2>1 DEF ServerOk
<1>4. ASSUME UNCHANGED server  PROVE ServerOk'
  BY <1>4 DEF ServerOk, server
<1> QED
  <2>1. CASE UNCHANGED server
  BY <1>4, <2>1
 <2>2. CASE \E c \in Call, e \in Event : Insert(c, e)
  BY <1>2, <2>2
  <2>3. CASE \E S : Marking(S)
 BY <1>3, <2>3
  <2> QED BY <2>1, <2>2, <2>3, ServerMoves

(***************************************************************************)
(* Who is told.                                                            *)
(***************************************************************************)
Handler == [pc : {"new", "look", "insert", "done", "failed", "died"}, left : SUBSET Event,
            event : SUBSET Event]

\* A handler that has not failed has made what it will not come to.
CallOk(c) ==
  /\ call[c].pc \in {"new", "look", "done"} => call[c].event = {}
  /\ call[c].pc = "insert" => \E e \in Event : call[c].event = {e}
  /\ call[c].pc \in {"new", "look", "insert"} => Event \subseteq told \cup call[c].left \cup call[c].event
  /\ call[c].pc = "done" => Event \subseteq told

\* The handler that inserted last: nobody is before it with what it is at.
Ahead(c) == call[c].pc # "failed" /\ call[c].event \cap told = {}

TellInv ==
  /\ told \subseteq Event /\ call \in [Call -> Handler]
  /\ \A c \in Call : CallOk(c)
  /\ \E c \in Call : Ahead(c)

LEMMA TellMoves ==
  ASSUME [Next]_vars
  PROVE  \/ UNCHANGED <<told, call>>
         \/ \E c \in Call, e \in Event : Look(c, e) \/ Insert(c, e)
         \/ \E c \in Call : InsertRefused(c) \/ CallEnds(c) \/ CallDies(c)
  BY DEF Next, vars, server, SnapReads, Publish, SnapFails, Connect, StreamReads, Subscribe,
     Receive, Drop, FetchStart, FetchReads, FetchAnswer, MarkSend, MarkRead, MarkAllRead,
     Marking, MarkAnswer

\* A step of a handler changes its own fields alone.
LEMMA GoesFacts ==
  ASSUME call \in [Call -> Handler], NEW c \in Call, NEW pc, NEW left, NEW event,
         Goes(c, pc, left, event)
  PROVE  /\ DOMAIN call' = Call
         /\ call'[c].pc = pc /\ call'[c].left = left /\ call'[c].event = event
         /\ \A d \in Call : d # c => call'[d] = call[d]
         /\ pc \in {"new", "look", "insert", "done", "failed", "died"}
              /\ left \in SUBSET Event /\ event \in SUBSET Event => call' \in [Call -> Handler]
  BY DEF Goes, Handler

LEMMA TellStep ==
  ASSUME TellInv, [Next]_vars
  PROVE  TellInv'
<1> USE DEF server
<1>t. call \in [Call -> Handler] /\ told \subseteq Event
  BY DEF TellInv
<1>1. ASSUME NEW c \in Call, NEW e \in Event, Look(c, e)  PROVE TellInv'
  <2>1. told' = told /\ e \in call[c].left /\ call[c].pc \in {"new", "look"}
    BY <1>1 DEF Look
  <2>c. CallOk(c) /\ call[c].left \subseteq Event
    BY <1>t DEF TellInv, Handler
  <2>2. CASE e \in told
    <3>1. Goes(c, "look", call[c].left \ {e}, {})
      BY <1>1, <2>2 DEF Look, Made
    <3>2. call' \in [Call -> Handler]
      BY <3>1, <2>c, <1>t, GoesFacts
    <3>3. \A d \in Call : CallOk(d)'
      BY <3>1, <2>1, <2>2, <2>c, <1>t, GoesFacts DEF CallOk, TellInv
    <3>4. \E d \in Call : Ahead(d)'
      BY <3>1, <2>1, <1>t, GoesFacts DEF Ahead, TellInv
    <3> QED BY <3>2, <3>3, <3>4, <2>1, <1>t DEF TellInv
  <2>3. CASE e \notin told
    <3>1. Goes(c, "insert", call[c].left \ {e}, {e})
      BY <1>1, <2>3 DEF Look, Made
    <3>2. call' \in [Call -> Handler]
      BY <3>1, <2>c, <1>t, GoesFacts
    <3>3. \A d \in Call : CallOk(d)'
      BY <3>1, <2>1, <2>c, <1>t, GoesFacts DEF CallOk, TellInv
    <3>4. \E d \in Call : Ahead(d)'
      BY <3>1, <2>1, <2>3, <1>t, GoesFacts DEF Ahead, TellInv
    <3> QED BY <3>2, <3>3, <3>4, <2>1, <1>t DEF TellInv
  <2> QED BY <2>2, <2>3
<1>2. ASSUME NEW c \in Call, NEW e \in Event, Insert(c, e)  PROVE TellInv'
  <2>1. told' = told \cup {e} /\ e \in call[c].event /\ call[c].pc = "insert"
        /\ Goes(c, "look", call[c].left, {})
    BY <1>2 DEF Insert
  <2>2. CallOk(c) /\ call[c].left \subseteq Event /\ call[c].event = {e}
    BY <1>t, <2>1 DEF TellInv, Handler, CallOk
  <2>3. call' \in [Call -> Handler]
    BY <2>1, <2>2, <1>t, GoesFacts
  <2>4. \A d \in Call : CallOk(d)'
    BY <2>1, <2>2, <1>t, GoesFacts DEF CallOk, TellInv
  <2>5. Ahead(c)'
    BY <2>1, <1>t, GoesFacts DEF Ahead
  <2> QED BY <2>1, <2>3, <2>4, <2>5, <1>t DEF TellInv
<1>3. ASSUME NEW c \in Call, InsertRefused(c)  PROVE TellInv'
  <2>1. told' = told /\ call[c].event \subseteq told /\ call[c].pc = "insert"
        /\ Goes(c, "failed", call[c].left, {})
    BY <1>3 DEF InsertRefused
  <2>2. CallOk(c) /\ call[c].left \subseteq Event /\ ~Ahead(c)
    BY <1>t, <2>1 DEF TellInv, Handler, CallOk, Ahead
  <2>3. call' \in [Call -> Handler]
    BY <2>1, <2>2, <1>t, GoesFacts
  <2>4. \A d \in Call : CallOk(d)'
    BY <2>1, <2>2, <1>t, GoesFacts DEF CallOk, TellInv
  <2>5. \E d \in Call : Ahead(d)'
    BY <2>1, <2>2, <1>t, GoesFacts DEF Ahead, TellInv
  <2> QED BY <2>1, <2>3, <2>4, <2>5, <1>t DEF TellInv
<1>4. ASSUME NEW c \in Call, CallEnds(c)  PROVE TellInv'
  <2>1. told' = told /\ call[c].left = {} /\ call[c].pc = "look" /\ Goes(c, "done", {}, {})
    BY <1>4 DEF CallEnds
  <2>2. Event \subseteq told
    BY <1>t, <2>1 DEF TellInv, CallOk
  <2>3. call' \in [Call -> Handler]
    BY <2>1, <1>t, GoesFacts
  <2>4. \A d \in Call : CallOk(d)'
    BY <2>1, <2>2, <1>t, GoesFacts DEF CallOk, TellInv
  <2>5. \E d \in Call : Ahead(d)'
    BY <2>1, <1>t, GoesFacts DEF Ahead, TellInv
  <2> QED BY <2>1, <2>3, <2>4, <2>5, <1>t DEF TellInv
<1>5. ASSUME NEW c \in Call, CallDies(c)  PROVE TellInv'
  <2>1. told' = told /\ call[c].pc \in {"look", "insert"} /\ Goes(c, "died", call[c].left, {})
    BY <1>5 DEF CallDies
  <2>2. call[c].left \subseteq Event
    BY <1>t DEF Handler
  <2>3. call' \in [Call -> Handler]
    BY <2>1, <2>2, <1>t, GoesFacts
  <2>4. \A d \in Call : CallOk(d)'
    BY <2>1, <1>t, GoesFacts DEF CallOk, TellInv
  <2>5. \E d \in Call : Ahead(d)'
    BY <2>1, <1>t, GoesFacts DEF Ahead, TellInv
  <2> QED BY <2>1, <2>3, <2>4, <2>5, <1>t DEF TellInv
<1>6. ASSUME UNCHANGED <<told, call>>  PROVE TellInv'
  BY <1>6 DEF TellInv, CallOk, Ahead
<1> QED
  BY <1>1, <1>2, <1>3, <1>4, <1>5, <1>6, TellMoves

LEMMA TellInit == Init => TellInv
<1> SUFFICES ASSUME Init PROVE TellInv
  OBVIOUS
<1>1. told = {} /\ call = [c \in Call |-> [pc |-> "new", left |-> Event, event |-> {}]]
  BY DEF Init
<1>2. call \in [Call -> Handler]
  BY <1>1 DEF Handler
<1>3. \A c \in Call : CallOk(c) /\ Ahead(c)
  BY <1>1 DEF CallOk, Ahead
<1> QED
  BY <1>1, <1>2, <1>3, NotificationsAssumption DEF TellInv

\* EveryoneIsTold: once every handler of notification.service's createMany has
\* ended and none died, every event has its row, although a lost race for the
\* unique key ends a handler early: whoever inserted last met no one after.
THEOREM AllAreTold == Spec => []EveryoneIsTold
<1>1. TellInv => EveryoneIsTold
  <2> SUFFICES ASSUME TellInv, \A c \in Call : Ended(c)  PROVE told = Event
    BY DEF EveryoneIsTold
  <2>1. PICK c \in Call : Ahead(c)
    BY DEF TellInv
  <2>2. call[c].pc = "done"
    BY <2>1 DEF Ended, Ahead
  <2> QED
    BY <2>2 DEF TellInv, CallOk
<1>2. TellInv /\ [Next]_vars => TellInv'
  BY TellStep
<1> QED
  BY <1>1, <1>2, TellInit, PTL DEF Spec

(***************************************************************************)
(* Snapshots under way.                                                    *)
(***************************************************************************)
LEMMA WithoutFacts ==
  ASSUME snap \in Seq(Snapshot), NEW i \in DOMAIN snap
  PROVE  /\ Without(i) \in Seq(Snapshot)
         /\ Len(Without(i)) = Len(snap) - 1
         /\ \A j \in 1 .. Len(snap) - 1 : Without(i)[j] = IF j < i THEN snap[j] ELSE snap[j + 1]
<1>1. Len(snap) \in Nat /\ i \in 1 .. Len(snap) /\ \A j \in 1 .. Len(snap) : snap[j] \in Snapshot
  OBVIOUS
<1>2. Len(snap) - 1 \in Nat
  BY <1>1
<1>3. Without(i) \in [1 .. Len(snap) - 1 -> Snapshot]
  <2> SUFFICES ASSUME NEW j \in 1 .. Len(snap) - 1
               PROVE  (IF j < i THEN snap[j] ELSE snap[j + 1]) \in Snapshot
    BY DEF Without
  <2>1. j \in 1 .. Len(snap) /\ j + 1 \in 1 .. Len(snap)
    BY <1>1
  <2> QED BY <1>1, <2>1
<1>4. Without(i) \in Seq(Snapshot) /\ Len(Without(i)) = Len(snap) - 1
  BY <1>2, <1>3
<1> QED
  BY <1>4 DEF Without

\* What a query that answers makes of a snapshot.
LEMMA ReadsFacts ==
  ASSUME ServerOk, NEW s \in Snapshot, NEW t, Reads(s, t)
  PROVE  t \in Snapshot /\ t # Blank
  <1>1. version # -1 /\ Cardinality(unread) # -1
    BY RowFacts DEF ServerOk
  <1> QED BY <1>1, ReadFacts, BlankFacts DEF Reads

\* Publish and SnapFails take one snapshot out, SnapReads changes one, Insert and
\* Marking start one.
SnapMove ==
  \/ UNCHANGED snap
  \/ snap' = Append(snap, Blank) /\ UNCHANGED <<stream, wire, fetch, cache, missed>>
  \/ \E i \in DOMAIN snap, t \in Snapshot :
       /\ Reads(snap[i], t) /\ snap' = [snap EXCEPT ![i] = t]
       /\ UNCHANGED <<server, stream, wire, fetch, cache, missed>>
  \/ \E i \in DOMAIN snap : SnapFails(i) \/ Publish(i)

LEMMA SnapMoves ==
  ASSUME ServerOk, snap \in Seq(Snapshot), [Next]_vars
  PROVE  SnapMove
<1> USE DEF server, client, heard
<1>1. ASSUME NEW i \in DOMAIN snap, SnapReads(i)  PROVE SnapMove
  <2>1. PICK t \in {CountRead(snap[i]), LatestRead(snap[i])} :
          Reads(snap[i], t) /\ snap' = [snap EXCEPT ![i] = t]
    BY <1>1 DEF SnapReads
  <2>2. snap[i] \in Snapshot
    OBVIOUS
  <2>3. t \in Snapshot
    BY <2>1, <2>2, ReadsFacts
  <2>4. UNCHANGED <<server, stream, wire, fetch, cache, missed>>
    BY <1>1 DEF SnapReads
  <2> QED BY <2>1, <2>3, <2>4 DEF SnapMove
<1>2. ASSUME NEW i \in DOMAIN snap, SnapFails(i) \/ Publish(i)  PROVE SnapMove
  BY <1>2 DEF SnapMove
<1>3. ASSUME NEW c \in Call, NEW e \in Event, Insert(c, e)  PROVE SnapMove
  BY <1>3 DEF SnapMove, Insert
<1>4. ASSUME NEW S, Marking(S)  PROVE SnapMove
  BY <1>4 DEF SnapMove, Marking
<1>5. ASSUME UNCHANGED snap  PROVE SnapMove
  BY <1>5 DEF SnapMove
<1> QED
  BY <1>1, <1>2, <1>3, <1>4, <1>5 DEF Next, vars, Look, InsertRefused, CallEnds, CallDies,
     Connect, StreamReads, Subscribe, Receive, Drop, FetchStart, FetchReads, FetchAnswer,
     MarkSend, MarkRead, MarkAllRead, MarkAnswer

\* The tab's own steps.
TabMove ==
  \/ Connect \/ StreamReads \/ Subscribe \/ Receive \/ Drop
  \/ FetchStart \/ FetchReads \/ FetchAnswer \/ MarkAnswer

LEMMA TabMoves ==
  ASSUME [Next]_vars
  PROVE  \/ TabMove
         \/ UNCHANGED <<stream, fetch, client, disorder>>
              /\ ((\E i \in DOMAIN snap : Publish(i)) \/ UNCHANGED wire)
<1> USE DEF server, client, heard
<1>1. ASSUME NEW c \in Call, NEW e \in Event, Look(c, e) \/ Insert(c, e)
      PROVE UNCHANGED <<stream, fetch, client, disorder, wire>>
  BY <1>1 DEF Look, Insert
<1>2. ASSUME NEW c \in Call, InsertRefused(c) \/ CallEnds(c) \/ CallDies(c)
      PROVE UNCHANGED <<stream, fetch, client, disorder, wire>>
  BY <1>2 DEF InsertRefused, CallEnds, CallDies
<1>3. ASSUME NEW i \in DOMAIN snap, SnapReads(i) \/ SnapFails(i)
      PROVE UNCHANGED <<stream, fetch, client, disorder, wire>>
  BY <1>3 DEF SnapReads, SnapFails
<1>4. ASSUME NEW i \in DOMAIN snap, Publish(i)
      PROVE UNCHANGED <<stream, fetch, client, disorder>>
  BY <1>4 DEF Publish
<1>5. ASSUME NEW S, Marking(S)  PROVE UNCHANGED <<stream, fetch, client, disorder, wire>>
  BY <1>5 DEF Marking
<1>6. ASSUME NEW what, MarkSend(what)  PROVE UNCHANGED <<stream, fetch, client, disorder, wire>>
  BY <1>6 DEF MarkSend
<1>7. ASSUME UNCHANGED vars  PROVE UNCHANGED <<stream, fetch, client, disorder, wire>>
  BY <1>7 DEF vars
<1> QED
  BY <1>1, <1>2, <1>3, <1>4, <1>5, <1>6, <1>7 DEF Next, MarkRead, MarkAllRead, TabMove

LEMMA SnapStep ==
  ASSUME ServerOk, FlowOk, [Next]_vars
  PROVE  snap' \in Seq(Snapshot)
<1>1. snap \in Seq(Snapshot)
  BY DEF FlowOk
<1>2. CASE UNCHANGED snap
  BY <1>1, <1>2
<1>3. CASE snap' = Append(snap, Blank)
  BY <1>1, <1>3, BlankFacts
<1>4. ASSUME NEW i \in DOMAIN snap, NEW t \in Snapshot, snap' = [snap EXCEPT ![i] = t]
      PROVE  snap' \in Seq(Snapshot)
  BY <1>1, <1>4
<1>5. ASSUME NEW i \in DOMAIN snap, SnapFails(i) \/ Publish(i)
      PROVE  snap' \in Seq(Snapshot)
  BY <1>1, <1>5, WithoutFacts DEF SnapFails, Publish
<1> QED
  BY <1>1, <1>2, <1>3, <1>4, <1>5, SnapMoves DEF SnapMove

LEMMA WireStep ==
  ASSUME ServerOk, FlowOk, [Next]_vars
  PROVE  /\ wire' \in Seq(Snapshot) /\ stream' \in {"down", "asking", "live"}
         /\ stream' = "down" => wire' = <<>>
         /\ stream' = "asking" => Len(wire') = 1
         /\ stream' = "live" => \A i \in 1 .. Len(wire') : Whole(wire'[i])
<1> DEFINE Ok == /\ wire' \in Seq(Snapshot) /\ stream' \in {"down", "asking", "live"}
                 /\ stream' = "down" => wire' = <<>>
                 /\ stream' = "asking" => Len(wire') = 1
                 /\ stream' = "live" => \A i \in 1 .. Len(wire') : Whole(wire'[i])
<1>f. /\ wire \in Seq(Snapshot) /\ snap \in Seq(Snapshot)
      /\ stream \in {"down", "asking", "live"}
      /\ stream = "down" => wire = <<>>
      /\ stream = "asking" => Len(wire) = 1
      /\ stream = "live" => \A i \in 1 .. Len(wire) : Whole(wire[i])
  BY DEF FlowOk
<1>1. CASE Connect
  <2>1. wire' = <<Blank>> /\ stream' = "asking"
    BY <1>1 DEF Connect
  <2> QED BY <2>1, BlankFacts
<1>2. CASE StreamReads
  <2>1. stream = "asking" /\ stream' = stream /\ wire[1] \in Snapshot
    BY <1>2, <1>f DEF StreamReads
  <2>2. PICK t : Reads(wire[1], t) /\ wire' = <<t>>
    BY <1>2 DEF StreamReads
  <2>3. t \in Snapshot
    BY <2>1, <2>2, ReadsFacts
  <2> QED BY <2>1, <2>2, <2>3
<1>3. CASE Subscribe
  <2>1. wire' = wire /\ stream' = "live" /\ Len(wire) = 1 /\ Whole(wire[1])
    BY <1>3, <1>f DEF Subscribe
  <2> QED BY <2>1, <1>f
<1>4. CASE Receive
  <2>1. wire # <<>> /\ wire' = Tail(wire) /\ stream = "live" /\ stream' = "live"
    BY <1>4 DEF Receive
  <2>2. /\ Tail(wire) \in Seq(Snapshot) /\ Len(Tail(wire)) = Len(wire) - 1
        /\ \A i \in 1 .. Len(wire) - 1 : Tail(wire)[i] = wire[i + 1]
    BY <1>f, <2>1
  <2>3. \A i \in 1 .. Len(Tail(wire)) : Whole(Tail(wire)[i])
    BY <1>f, <2>1, <2>2
  <2> QED BY <2>1, <2>2, <2>3
<1>5. CASE Drop
  <2>1. wire' = <<>> /\ stream' = "down"
    BY <1>5 DEF Drop
  <2> QED BY <2>1
<1>6. CASE FetchStart \/ FetchReads \/ FetchAnswer \/ MarkAnswer
  <2>1. wire' = wire /\ stream' = stream
    BY <1>6 DEF FetchStart, FetchReads, FetchAnswer, MarkAnswer
  <2> QED BY <2>1, <1>f
<1>7. ASSUME NEW i \in DOMAIN snap, Publish(i), stream' = stream
      PROVE  Ok
  <2>1. CASE stream = "live"
    <3>1. wire' = Append(wire, snap[i]) /\ snap[i] \in Snapshot /\ Whole(snap[i])
      BY <1>7, <1>f, <2>1 DEF Publish
    <3>2. /\ wire' \in Seq(Snapshot) /\ Len(wire') = Len(wire) + 1
          /\ wire'[Len(wire) + 1] = snap[i]
          /\ \A j \in 1 .. Len(wire) : wire'[j] = wire[j]
      BY <3>1, <1>f
    <3> QED BY <3>1, <3>2, <2>1, <1>f, <1>7
  <2>2. CASE stream # "live"
    BY <1>7, <1>f, <2>2 DEF Publish
  <2> QED BY <2>1, <2>2
<1>8. CASE UNCHANGED <<stream, wire>>
  BY <1>8, <1>f
<1> QED
  BY <1>1, <1>2, <1>3, <1>4, <1>5, <1>6, <1>7, <1>8, TabMoves DEF TabMove

LEMMA FlowStep ==
  ASSUME ServerOk, FlowOk, [Next]_vars
  PROVE  FlowOk'
<1>1. cache' \in Snapshot /\ (cache' = Blank \/ Whole(cache'))
  <2>f. cache \in Snapshot /\ (cache = Blank \/ Whole(cache)) /\ wire \in Seq(Snapshot)
        /\ fetch \in Snapshot \cup {NoFetch}
        /\ (stream = "live" => \A i \in 1 .. Len(wire) : Whole(wire[i]))
    BY DEF FlowOk
  <2>1. CASE Receive
    <3>1. wire[1] \in Snapshot /\ Whole(wire[1]) /\ cache' = wire[1]
      BY <2>1, <2>f DEF Receive, Hear, Kept
    <3> QED BY <3>1
  <2>2. CASE FetchAnswer
    BY <2>2, <2>f DEF FetchAnswer, Hear, Kept
  <2>3. CASE UNCHANGED cache
    BY <2>3, <2>f
  <2> QED
    BY <2>1, <2>2, <2>3, TabMoves DEF TabMove, client, Connect, StreamReads, Subscribe, Drop,
       FetchStart, FetchReads, MarkAnswer
<1>2. fetch' \in Snapshot \cup {NoFetch}
  <2>f. fetch \in Snapshot \cup {NoFetch}
    BY DEF FlowOk
  <2>1. CASE FetchReads
    BY <2>1, <2>f, ReadsFacts DEF FetchReads
  <2>2. CASE FetchStart \/ FetchAnswer \/ MarkAnswer
    BY <2>2, <2>f, BlankFacts DEF FetchStart, FetchAnswer, MarkAnswer
  <2>3. CASE UNCHANGED fetch
    BY <2>3, <2>f
  <2> QED
    BY <2>1, <2>2, <2>3, TabMoves DEF TabMove, client, Connect, StreamReads, Subscribe,
       Receive, Drop
<1> QED
  BY <1>1, <1>2, SnapStep, WireStep DEF FlowOk

(***************************************************************************)
(* What a snapshot still says of the rows.                                 *)
(***************************************************************************)
Coming == {snap[i] : i \in DOMAIN snap} \cup {wire[i] : i \in DOMAIN wire}
Shots == Coming \cup {fetch, cache}

Faithful(s) ==
  /\ s \in Snapshot \cup {NoFetch}
  /\ s.countAt <= version /\ s.latestAt <= version /\ s.latest <= rows
  /\ s.count < 0 <=> s.countAt = -1
  /\ s.latest = -1 <=> s.latestAt = -1
  /\ s.countAt = version => s.count = Cardinality(unread)
  /\ s.latestAt = version => s.latest = rows
  /\ s.count = 0 /\ s.latestAt <= s.countAt => \A n \in unread : n > s.latest

FaithInv == \A s \in Shots : Faithful(s)

LEMMA FieldTypes ==
  ASSUME NEW s \in Snapshot \cup {NoFetch}
  PROVE  /\ s.count \in Int /\ s.latest \in Int /\ s.countAt \in Int /\ s.latestAt \in Int
         /\ s.latest >= -1 /\ s.countAt >= -1 /\ s.latestAt >= -1 /\ s.count >= -2
         /\ s \in Snapshot => s.count >= -1
<1>1. CASE s = NoFetch
  BY <1>1, BlankFacts
<1>2. CASE s \in Snapshot
  <2>1. Cardinality(Mine) \in Nat
    BY NotificationsAssumption, FS_Subset, FS_CardinalityType
  <2> QED BY <1>2, <2>1 DEF Snapshot, Row
<1> QED BY <1>1, <1>2

LEMMA FaithfulKept ==
  ASSUME ServerOk, [Next]_vars, NEW s, Faithful(s)
  PROVE  Faithful(s)'
<1>f. /\ s \in Snapshot \cup {NoFetch} /\ version \in Nat /\ rows \in Nat
      /\ unread \subseteq 1 .. rows
  BY RowFacts DEF Faithful, ServerOk
<1>t. /\ s.count \in Int /\ s.latest \in Int /\ s.countAt \in Int /\ s.latestAt \in Int
  BY <1>f, FieldTypes
<1>1. CASE version' = version + 1 /\ rows' \in {rows, rows + 1} /\ unread' \subseteq unread \cup {rows + 1}
           /\ (rows' = rows => unread' \subseteq unread)
  <2>1. (\A n \in unread : n > s.latest) => (\A n \in unread' : n > s.latest)
    BY <1>1, <1>f, <1>t DEF Faithful
  <2>2. s.countAt < version' /\ s.latestAt < version' /\ s.latest <= rows'
    BY <1>1, <1>f, <1>t DEF Faithful
  <2> QED BY <1>f, <1>t, <2>1, <2>2, <1>1 DEF Faithful, Snapshot
<1>2. CASE UNCHANGED <<rows, unread, version>>
  BY <1>2 DEF Faithful
<1>3. ASSUME NEW c \in Call, NEW e \in Event, Insert(c, e)  PROVE Faithful(s)'
  BY <1>3, <1>1, <1>2, <1>f DEF Insert
<1>4. ASSUME NEW S, Marking(S)  PROVE Faithful(s)'
  <2>1. version' = version + 1 /\ rows' = rows /\ unread' = unread \ S
    BY <1>4 DEF Marking
  <2> QED BY <2>1, <1>1
<1>5. CASE UNCHANGED server
  BY <1>5, <1>2 DEF server
<1> QED
  BY <1>3, <1>4, <1>5, ServerMoves

LEMMA FaithfulRead ==
  ASSUME ServerOk, NEW s \in Snapshot, Faithful(s), NEW t, Reads(s, t)
  PROVE  Faithful(t)
<1>1. /\ version \in Nat /\ rows \in Nat /\ unread \subseteq 1 .. rows /\ IsFiniteSet(unread)
      /\ Cardinality(unread) \in Nat
  BY RowFacts DEF ServerOk
<1>2. Cardinality(unread) = 0 => unread = {}
  BY <1>1, FS_EmptySet
<1>3. /\ s.count \in Int /\ s.latest \in Int /\ s.countAt \in Int /\ s.latestAt \in Int
  BY FieldTypes
<1>4. CASE s.count = -1 /\ t = CountRead(s)
  <2>1. /\ t \in Snapshot /\ t.count = Cardinality(unread) /\ t.countAt = version
        /\ t.latest = s.latest /\ t.latestAt = s.latestAt
    BY <1>4, ReadFacts
  <2> QED BY <1>1, <1>2, <1>3, <2>1 DEF Faithful
<1>5. CASE s.latest = -1 /\ t = LatestRead(s)
  <2>1. /\ t \in Snapshot /\ t.count = s.count /\ t.countAt = s.countAt
        /\ t.latest = rows /\ t.latestAt = version
    BY <1>5, ReadFacts
  <2>2. s.count = 0 /\ version <= s.countAt => unread = {}
    BY <1>1, <1>2, <1>3 DEF Faithful
  <2> QED BY <1>1, <1>3, <2>1, <2>2 DEF Faithful
<1> QED
  BY <1>4, <1>5 DEF Reads

LEMMA BlanksAreFaithful ==
  ASSUME ServerOk, NEW s \in {Blank, NoFetch}
  PROVE  Faithful(s)
  BY BlankFacts, RowFacts DEF Faithful, ServerOk

\* Where a snapshot comes from.
LEMMA NewShots ==
  ASSUME ServerOk, FlowOk, [Next]_vars, NEW t \in Shots'
  PROVE  \/ t \in Shots \cup {Blank, NoFetch}
         \/ UNCHANGED server /\ \E s \in Shots \cap Snapshot : Reads(s, t)
<1> DEFINE Sourced == \/ t \in Shots \cup {Blank, NoFetch}
                      \/ UNCHANGED server /\ \E s \in Shots \cap Snapshot : Reads(s, t)
<1>f. snap \in Seq(Snapshot) /\ wire \in Seq(Snapshot) /\ snap' \in Seq(Snapshot)
      /\ wire' \in Seq(Snapshot) /\ fetch \in Snapshot \cup {NoFetch}
  BY FlowStep DEF FlowOk
<1>1. ASSUME NEW i \in DOMAIN snap', t = snap'[i]  PROVE Sourced
  <2>1. CASE UNCHANGED snap
    BY <1>1, <2>1 DEF Shots, Coming
  <2>2. CASE snap' = Append(snap, Blank)
    <3>1. (i \in DOMAIN snap /\ t = snap[i]) \/ t = Blank
      BY <1>1, <2>2, <1>f, BlankFacts
    <3> QED BY <3>1 DEF Shots, Coming
  <2>3. ASSUME NEW j \in DOMAIN snap, NEW u \in Snapshot, Reads(snap[j], u),
               snap' = [snap EXCEPT ![j] = u], UNCHANGED server
        PROVE  Sourced
    <3>1. i \in DOMAIN snap /\ snap[j] \in Snapshot
      BY <1>1, <2>3, <1>f
    <3>2. IF i = j THEN t = u ELSE t = snap[i]
      BY <1>1, <2>3, <3>1
    <3> QED BY <2>3, <3>1, <3>2 DEF Shots, Coming
  <2>4. ASSUME NEW j \in DOMAIN snap, SnapFails(j) \/ Publish(j)  PROVE Sourced
    <3>1. snap' = Without(j)
      BY <2>4 DEF SnapFails, Publish
    <3>2. \E k \in DOMAIN snap : t = snap[k]
      <4>1. DOMAIN Without(j) = 1 .. Len(snap) - 1
        BY <1>f, WithoutFacts DEF Without
      <4>2. i \in 1 .. Len(snap) - 1 /\ t = (IF i < j THEN snap[i] ELSE snap[i + 1])
        BY <1>1, <3>1, <4>1, <1>f, WithoutFacts
      <4>3. Len(snap) \in Nat /\ DOMAIN snap = 1 .. Len(snap)
        BY <1>f
      <4> QED BY <4>2, <4>3
    <3> QED BY <3>2 DEF Shots, Coming
  <2> QED
    BY <2>1, <2>2, <2>3, <2>4, <1>f, SnapMoves DEF SnapMove
<1>2. ASSUME NEW i \in DOMAIN wire', t = wire'[i]  PROVE Sourced
  <2>1. CASE Connect
    <3>1. wire' = <<Blank>> /\ i = 1
      BY <1>2, <2>1 DEF Connect
    <3> QED BY <3>1, <1>2
  <2>2. CASE StreamReads
    <3>1. PICK u : Reads(wire[1], u) /\ wire' = <<u>>
      BY <2>2 DEF StreamReads
    <3>2. t = u /\ wire[1] \in Shots \cap Snapshot /\ UNCHANGED server
      <4>1. Len(wire) = 1 /\ UNCHANGED server
        BY <2>2 DEF StreamReads, FlowOk
      <4>2. 1 \in DOMAIN wire
        BY <4>1, <1>f
      <4>3. wire[1] \in Snapshot /\ wire[1] \in Coming
        BY <4>2, <1>f DEF Coming
      <4>4. i = 1
        BY <1>2, <3>1
      <4> QED BY <4>1, <4>3, <4>4, <3>1, <1>2 DEF Shots
    <3> QED BY <3>1, <3>2
  <2>3. CASE Receive
    <3>1. wire # <<>> /\ wire' = Tail(wire)
      BY <2>3 DEF Receive
    <3>2. i + 1 \in DOMAIN wire /\ t = wire[i + 1]
      <4>1. /\ Len(Tail(wire)) = Len(wire) - 1 /\ DOMAIN wire = 1 .. Len(wire) /\ Len(wire) \in Nat
            /\ Tail(wire) \in Seq(Snapshot)
            /\ \A j \in 1 .. Len(wire) - 1 : Tail(wire)[j] = wire[j + 1]
        BY <1>f, <3>1
      <4>2. i \in 1 .. Len(wire) - 1
        BY <1>2, <3>1, <4>1
      <4> QED BY <1>2, <3>1, <4>1, <4>2
    <3> QED BY <3>2 DEF Shots, Coming
  <2>4. CASE Drop
    <3>1. wire' = <<>>
      BY <2>4 DEF Drop
    <3> QED BY <3>1, <1>2
  <2>5. ASSUME NEW j \in DOMAIN snap, Publish(j)  PROVE Sourced
    <3>1. wire' = wire \/ wire' = Append(wire, snap[j])
      BY <2>5 DEF Publish
    <3>2. t = snap[j] \/ (i \in DOMAIN wire /\ t = wire[i])
      <4>1. CASE wire' = Append(wire, snap[j])
        <5>1. snap[j] \in Snapshot
          BY <1>f
        <5>2. /\ DOMAIN wire' = 1 .. Len(wire) + 1 /\ wire'[Len(wire) + 1] = snap[j]
              /\ \A k \in 1 .. Len(wire) : k \in DOMAIN wire /\ wire'[k] = wire[k]
              /\ Len(wire) \in Nat
          BY <1>f, <4>1, <5>1
        <5> QED BY <1>2, <5>2
      <4> QED BY <1>2, <3>1, <4>1
    <3> QED BY <3>2 DEF Shots, Coming
  <2>6. CASE wire' = wire
    BY <1>2, <2>6 DEF Shots, Coming
  <2> QED
    BY <2>1, <2>2, <2>3, <2>4, <2>5, <2>6, TabMoves DEF TabMove, Subscribe, FetchStart,
       FetchReads, FetchAnswer, MarkAnswer
<1>3. ASSUME t = fetch'  PROVE Sourced
  <2>1. CASE FetchReads
    <3>1. fetch \in Snapshot /\ UNCHANGED server /\ Reads(fetch, t)
      BY <1>3, <2>1, <1>f DEF FetchReads
    <3> QED BY <3>1 DEF Shots
  <2>2. CASE FetchStart \/ FetchAnswer \/ MarkAnswer
    BY <1>3, <2>2 DEF FetchStart, FetchAnswer, MarkAnswer
  <2>3. CASE UNCHANGED fetch
    BY <1>3, <2>3 DEF Shots
  <2> QED
    BY <2>1, <2>2, <2>3, TabMoves DEF TabMove, Connect, StreamReads, Subscribe, Receive, Drop
<1>4. ASSUME t = cache'  PROVE Sourced
  <2>1. CASE Receive
    <3>1. t = wire[1] /\ 1 \in DOMAIN wire
      BY <1>4, <2>1, <1>f DEF Receive, Hear, Kept
    <3> QED BY <3>1 DEF Shots, Coming
  <2>2. CASE FetchAnswer
    BY <1>4, <2>2 DEF FetchAnswer, Hear, Kept, Shots
  <2>3. CASE UNCHANGED cache
    BY <1>4, <2>3 DEF Shots
  <2> QED
    BY <2>1, <2>2, <2>3, TabMoves DEF TabMove, client, Connect, StreamReads, Subscribe, Drop,
       FetchStart, FetchReads, MarkAnswer
<1> QED
  BY <1>1, <1>2, <1>3, <1>4 DEF Shots, Coming

LEMMA FaithStep ==
  ASSUME ServerOk, FlowOk, FaithInv, [Next]_vars
  PROVE  FaithInv'
<1> SUFFICES ASSUME NEW t \in Shots'  PROVE Faithful(t)'
  BY DEF FaithInv
<1>1. Faithful(t)
  <2>1. CASE t \in Shots
    BY <2>1 DEF FaithInv
  <2>2. CASE t \in {Blank, NoFetch}
    BY <2>2, BlanksAreFaithful
  <2>3. ASSUME NEW s \in Shots \cap Snapshot, Reads(s, t)  PROVE Faithful(t)
    BY <2>3, FaithfulRead DEF FaithInv
  <2> QED BY <2>1, <2>2, <2>3, NewShots
<1> QED
  BY <1>1, FaithfulKept

(***************************************************************************)
(* What the tab has still to hear of.                                      *)
(***************************************************************************)

\* What is read of it is read after the last change.
Fresh(s) == s.countAt \in {-1, version} /\ s.latestAt \in {-1, version}

\* Either a snapshot that tells of the last change is under way or was heard, or
\* the tab may have missed it.
FreshInv ==
  stream # "down" /\ ~missed => (\E s \in Coming : Fresh(s)) \/ Age(cache) = version

LEMMA HearFacts ==
  ASSUME ServerOk, FaithInv, NEW s \in Shots, s \in Snapshot, Whole(s), Hear(s)
  PROVE  /\ cache' = s /\ (Fresh(s) <=> Age(s) = version)
         /\ Age(s) # version /\ ~missed' => ~missed /\ Age(cache) # version
<1>1. Faithful(s) /\ Faithful(cache) /\ cache \in Snapshot \cup {NoFetch}
  BY DEF FaithInv, Shots, Faithful
<1>2. /\ s.count \in Int /\ s.latest \in Int /\ s.countAt \in Int /\ s.latestAt \in Int
      /\ cache.countAt \in Int /\ cache.latestAt \in Int
      /\ s.count >= 0 /\ s.latest >= 0 /\ version \in Nat
  BY <1>1, FieldTypes DEF Whole, ServerOk
<1>3. s.countAt # -1 /\ s.latestAt # -1
  BY <1>1, <1>2 DEF Faithful
<1>4. Fresh(s) <=> Age(s) = version
  BY <1>1, <1>2, <1>3 DEF Fresh, Age, Faithful
<1>5. Age(s) \in Int /\ Age(cache) \in Int /\ Age(s) <= version
  BY <1>1, <1>2 DEF Age, Faithful
<1>6. (missed' <=> (Age(s) < version /\ (missed \/ Age(s) < Age(cache)))) /\ cache' = s
  BY DEF Hear, Kept
<1>7. Age(s) # version /\ ~missed' => ~missed /\ Age(cache) # version
  BY <1>2, <1>5, <1>6
<1> QED
  BY <1>4, <1>6, <1>7

LEMMA FreshRead ==
  ASSUME ServerOk, NEW s \in Snapshot, Fresh(s), NEW t, Reads(s, t)
  PROVE  Fresh(t)
  BY ReadFacts DEF Fresh, Reads

LEMMA FreshStep ==
  ASSUME ServerOk, FlowOk, FaithInv, FreshInv, [Next]_vars
  PROVE  FreshInv'
<1>f. snap \in Seq(Snapshot) /\ wire \in Seq(Snapshot) /\ snap' \in Seq(Snapshot)
      /\ wire' \in Seq(Snapshot) /\ fetch \in Snapshot \cup {NoFetch}
  BY FlowStep DEF FlowOk
<1>a. ASSUME snap' = Append(snap, Blank)
      PROVE  FreshInv' /\ \E s \in Coming' : Fresh(s)
  <2>1. Len(snap) + 1 \in DOMAIN snap' /\ snap'[Len(snap) + 1] = Blank
    BY <1>a, <1>f, BlankFacts
  <2>2. Blank \in Coming'
    BY <2>1 DEF Coming
  <2>3. Fresh(Blank) /\ Fresh(Blank)'
    BY BlankFacts DEF Fresh
  <2> QED BY <2>2, <2>3 DEF FreshInv
<1> SUFFICES ASSUME stream' # "down", ~missed', version' = version
             PROVE  (\E s \in Coming' : Fresh(s)) \/ Age(cache') = version
  <2>1. CASE version' = version
    <3>1. \A s : Fresh(s)' <=> Fresh(s)
      BY <2>1 DEF Fresh
    <3>2. Age(cache)' = Age(cache')
      BY DEF Age
    <3> QED BY <2>1, <3>1, <3>2 DEF FreshInv
  <2>2. CASE version' # version
    <3>1. snap' = Append(snap, Blank)
      BY <2>2, ServerMoves DEF server, Insert, Marking
    <3> QED BY <3>1, <1>a
  <2> QED BY <2>1, <2>2
<1> DEFINE Goal == (\E s \in Coming' : Fresh(s)) \/ Age(cache') = version
<1>s. stream' \in {"asking", "live"}
  BY FlowStep DEF FlowOk
<1>1. CASE Connect
  <2>1. wire' = <<Blank>>
    BY <1>1 DEF Connect
  <2>2. 1 \in DOMAIN wire' /\ wire'[1] = Blank
    BY <2>1
  <2>3. Blank \in Coming' /\ Fresh(Blank)
    BY <2>2, BlankFacts DEF Coming, Fresh
  <2> QED BY <2>3
<1>2. CASE StreamReads
  <2>1. PICK t : Reads(wire[1], t) /\ wire' = <<t>>
    BY <1>2 DEF StreamReads
  <2>2. /\ stream = "asking" /\ missed' = missed /\ cache' = cache /\ snap' = snap
        /\ Len(wire) = 1
    BY <1>2 DEF StreamReads, client, heard, FlowOk
  <2>3. DOMAIN wire = {1} /\ wire[1] \in Snapshot
    <3>1. DOMAIN wire = 1 .. Len(wire) /\ \A i \in DOMAIN wire : wire[i] \in Snapshot
      BY <1>f
    <3> QED BY <2>2, <3>1
  <2>4. 1 \in DOMAIN wire' /\ wire'[1] = t
    BY <2>1
  <2>5. t \in Coming' /\ {snap[i] : i \in DOMAIN snap} \subseteq Coming'
    BY <2>2, <2>4 DEF Coming
  <2>6. Fresh(wire[1]) => Fresh(t)
    BY <2>1, <2>3, FreshRead
  <2>7. (\E s \in Coming : Fresh(s)) \/ Age(cache) = version
    BY <2>2 DEF FreshInv
  <2> QED BY <2>2, <2>3, <2>5, <2>6, <2>7 DEF Coming
<1>3. CASE Receive
  <2>1. /\ stream = "live" /\ wire # <<>> /\ wire' = Tail(wire) /\ snap' = snap /\ Hear(wire[1])
    BY <1>3 DEF Receive
  <2>2. 1 \in DOMAIN wire /\ wire[1] \in Snapshot /\ Whole(wire[1])
    BY <1>f, <2>1 DEF FlowOk
  <2>3. wire[1] \in Shots
    BY <2>2 DEF Shots, Coming
  <2>4. \A i \in DOMAIN wire : i # 1 => wire[i] \in Coming'
    <3> SUFFICES ASSUME NEW i \in DOMAIN wire, i # 1  PROVE wire[i] \in Coming'
      OBVIOUS
    <3>1. /\ Len(Tail(wire)) = Len(wire) - 1 /\ DOMAIN wire = 1 .. Len(wire) /\ Len(wire) \in Nat
          /\ Tail(wire) \in Seq(Snapshot)
          /\ \A j \in 1 .. Len(wire) - 1 : Tail(wire)[j] = wire[j + 1]
      BY <1>f, <2>1
    <3>2. i - 1 \in 1 .. Len(wire) - 1
      BY <3>1
    <3>3. i - 1 \in DOMAIN wire' /\ wire'[i - 1] = wire[i]
      BY <2>1, <3>1, <3>2
    <3> QED BY <3>3 DEF Coming
  <2>5. CASE Age(wire[1]) = version
    BY <2>1, <2>2, <2>3, <2>5, HearFacts
  <2>6. CASE Age(wire[1]) # version
    <3>1. ~missed /\ Age(cache) # version /\ ~Fresh(wire[1])
      BY <2>1, <2>2, <2>3, <2>6, HearFacts
    <3>2. PICK s \in Coming : Fresh(s)
      BY <2>1, <3>1 DEF FreshInv
    <3>3. s \in Coming'
      BY <2>1, <2>4, <3>1, <3>2 DEF Coming
    <3> QED BY <3>2, <3>3
  <2> QED BY <2>5, <2>6
<1>4. CASE FetchAnswer
  <2>1. /\ fetch # NoFetch /\ Whole(fetch) /\ Hear(fetch) /\ stream' = stream /\ snap' = snap
        /\ wire' = wire
    BY <1>4 DEF FetchAnswer
  <2>2. fetch \in Shots /\ fetch \in Snapshot /\ Coming' = Coming
    BY <1>f, <2>1 DEF Shots, Coming
  <2>3. CASE Age(fetch) = version
    BY <2>1, <2>2, <2>3, HearFacts
  <2>4. CASE Age(fetch) # version
    <3>1. ~missed /\ Age(cache) # version
      BY <2>1, <2>2, <2>4, HearFacts
    <3> QED BY <2>1, <2>2, <3>1 DEF FreshInv
  <2> QED BY <2>3, <2>4
<1>5. CASE Drop
  BY <1>5 DEF Drop
<1>6. ASSUME NEW i \in DOMAIN snap, Publish(i) \/ SnapFails(i)  PROVE Goal
  <2>1. Publish(i)
    BY <1>6 DEF SnapFails
  <2>2. /\ stream' = stream /\ cache' = cache /\ snap' = Without(i)
        /\ wire' = (IF stream = "live" THEN Append(wire, snap[i]) ELSE wire)
        /\ missed' <=> (missed \/ stream = "asking")
    BY <2>1 DEF Publish, client
  <2>3. ~missed /\ stream = "live" /\ wire' = Append(wire, snap[i])
    BY <2>2, <1>s
  <2>4. /\ DOMAIN snap = 1 .. Len(snap) /\ Len(snap) \in Nat /\ snap[i] \in Snapshot
        /\ DOMAIN Without(i) = 1 .. Len(snap) - 1
        /\ \A j \in 1 .. Len(snap) - 1 : Without(i)[j] = IF j < i THEN snap[j] ELSE snap[j + 1]
    BY <1>f, WithoutFacts DEF Without
  <2>5. \A s \in Coming : s \in Coming'
    <3>1. ASSUME NEW j \in DOMAIN snap, j # i  PROVE snap[j] \in Coming'
      <4>1. CASE j < i
        <5>1. j \in DOMAIN snap' /\ snap'[j] = snap[j]
          BY <2>2, <2>4, <4>1
        <5> QED BY <5>1 DEF Coming
      <4>2. CASE ~(j < i)
        <5>1. j - 1 \in DOMAIN snap' /\ snap'[j - 1] = snap[j]
          BY <2>2, <2>4, <3>1, <4>2
        <5> QED BY <5>1 DEF Coming
      <4> QED BY <4>1, <4>2
    <3>2. /\ DOMAIN wire' = 1 .. Len(wire) + 1 /\ wire'[Len(wire) + 1] = snap[i]
          /\ DOMAIN wire = 1 .. Len(wire) /\ Len(wire) \in Nat
          /\ \A k \in 1 .. Len(wire) : wire'[k] = wire[k]
      BY <1>f, <2>3, <2>4
    <3>3. snap[i] \in Coming'
      BY <3>2 DEF Coming
    <3>4. \A k \in DOMAIN wire : wire[k] \in Coming'
      BY <3>2 DEF Coming
    <3> QED BY <3>1, <3>3, <3>4 DEF Coming
  <2> QED BY <2>2, <2>3, <2>5 DEF FreshInv
<1>7. ASSUME NEW i \in DOMAIN snap, NEW t \in Snapshot, Reads(snap[i], t),
             snap' = [snap EXCEPT ![i] = t], UNCHANGED <<stream, wire, cache, missed>>
      PROVE  Goal
  <2>1. snap[i] \in Snapshot /\ DOMAIN snap' = DOMAIN snap /\ snap'[i] = t
        /\ \A j \in DOMAIN snap : j # i => snap'[j] = snap[j]
    BY <1>f, <1>7
  <2>2. Fresh(snap[i]) => Fresh(t)
    BY <1>7, <2>1, FreshRead
  <2>3. t \in Coming' /\ \A s \in Coming : s # snap[i] => s \in Coming'
    BY <1>7, <2>1 DEF Coming
  <2>4. (\E s \in Coming : Fresh(s)) \/ Age(cache) = version
    BY <1>7 DEF FreshInv
  <2> QED BY <1>7, <2>2, <2>3, <2>4
<1>8. CASE UNCHANGED <<snap, wire, cache, missed>> /\ (stream' = stream \/ stream # "down")
  BY <1>8 DEF FreshInv, Coming
<1> QED
  <2>1. CASE TabMove
    BY <1>1, <1>2, <1>3, <1>4, <1>5, <1>8, <2>1 DEF TabMove, Subscribe, FetchStart, FetchReads,
       MarkAnswer, client, heard
  <2>2. CASE ~TabMove
    <3>1. UNCHANGED <<stream, cache>> /\ ((\E i \in DOMAIN snap : Publish(i)) \/ UNCHANGED wire)
      BY <2>2, TabMoves DEF client
    <3>2. UNCHANGED snap /\ (\A i \in DOMAIN snap : ~Publish(i)) => UNCHANGED missed
      BY <2>2 DEF TabMove, Next, vars, heard, Look, Insert, InsertRefused, CallEnds, CallDies,
         SnapReads, SnapFails, MarkSend, MarkRead, MarkAllRead, Marking
    <3>3. CASE UNCHANGED snap /\ \A i \in DOMAIN snap : ~Publish(i)
      BY <1>8, <3>1, <3>2, <3>3
    <3> QED BY <1>a, <1>6, <1>7, <1>f, <3>3, SnapMoves DEF SnapMove
  <2> QED BY <2>1, <2>2

LEMMA InitFacts ==
  ASSUME Init
  PROVE  ServerOk /\ FlowOk /\ FaithInv /\ FreshInv
<1>1. /\ told = {} /\ rows = 0 /\ unread = {} /\ version = 0 /\ snap = <<>> /\ wire = <<>>
      /\ stream = "down" /\ fetch = NoFetch /\ cache = Blank
  BY DEF Init
<1>2. ServerOk
  <2>1. Cardinality(told \cap Mine) = 0
    BY <1>1, FS_EmptySet
  <2> QED BY <1>1, <2>1 DEF ServerOk
<1>3. FlowOk
  BY <1>1, BlankFacts DEF FlowOk
<1>4. Shots = {NoFetch, Blank}
  BY <1>1 DEF Shots, Coming
<1>5. FaithInv
  BY <1>2, <1>4, BlanksAreFaithful DEF FaithInv
<1> QED
  BY <1>1, <1>2, <1>3, <1>5 DEF FreshInv

TabInv == ServerOk /\ FlowOk /\ FaithInv /\ FreshInv

LEMMA TabInvHolds == Spec => []TabInv
<1>1. TabInv /\ [Next]_vars => TabInv'
  BY ServerStep, FlowStep, FaithStep, FreshStep DEF TabInv
<1> QED
  BY <1>1, InitFacts, PTL DEF Spec, TabInv

\* StaleBadgeIsExplained: with a live stream and nothing under way the badge is
\* right, unless the watcher may have missed a change: snapshots overtook one
\* another, one failed, or one was published before the stream had subscribed.
THEOREM WrongBadgeNeedsMiss == Spec => []StaleBadgeIsExplained
<1>1. TabInv => StaleBadgeIsExplained
  <2> SUFFICES ASSUME TabInv, Quiet, ~missed  PROVE BadgeIsRight
    BY DEF StaleBadgeIsExplained
  <2>1. Coming = {}
    BY DEF Quiet, Coming
  <2>2. Age(cache) = version
    BY <2>1 DEF TabInv, FreshInv, Quiet
  <2>3. Faithful(cache)
    BY DEF TabInv, FaithInv, Shots
  <2>4. /\ cache.countAt \in Int /\ cache.latestAt \in Int /\ version \in Nat
    BY <2>3, FieldTypes DEF Faithful, TabInv, ServerOk
  <2>5. cache.countAt = version /\ cache.latestAt = version
    BY <2>2, <2>3, <2>4 DEF Age, Faithful
  <2> QED
    BY <2>3, <2>5 DEF Faithful, BadgeIsRight
<1> QED
  BY <1>1, TabInvHolds, PTL

(***************************************************************************)
(* Toasts.                                                                 *)
(***************************************************************************)
Ordered(s, t) == s.latestAt <= t.latestAt => s.latest <= t.latest

\* Rows are only added: a later reading of the latest one shows no older row.
OrderInv == \A s, t \in Shots : Ordered(s, t)

LEMMA OrderStep ==
  ASSUME ServerOk, FlowOk, FaithInv, OrderInv, [Next]_vars
  PROVE  OrderInv'
<1> DEFINE Bare(t) == t.latest = -1 /\ t.latestAt = -1
           Last(t) == t.latest = rows /\ t.latestAt = version
           Alike(t, s) == t.latest = s.latest /\ t.latestAt = s.latestAt
<1>1. ASSUME NEW t \in Shots'
      PROVE  Bare(t) \/ Last(t) \/ \E s \in Shots : Alike(t, s)
  <2>1. CASE t \in Shots
    BY <2>1
  <2>2. CASE t \in {Blank, NoFetch}
    BY <2>2, BlankFacts
  <2>3. ASSUME NEW s \in Shots \cap Snapshot, Reads(s, t)
        PROVE  Last(t) \/ Alike(t, s)
    BY <2>3, ReadFacts DEF Reads
  <2> QED BY <2>1, <2>2, <2>3, NewShots
<1>2. ASSUME NEW s \in Shots
      PROVE  /\ s.latest \in Int /\ s.latestAt \in Int /\ s.latest >= -1 /\ s.latestAt >= -1
             /\ s.latest <= rows /\ s.latestAt <= version
             /\ s.latestAt = version => s.latest = rows
             /\ s.latestAt = -1 => s.latest = -1
  BY FieldTypes DEF FaithInv, Faithful
<1>3. version \in Nat /\ rows \in Nat
  BY RowFacts DEF ServerOk
<1> SUFFICES ASSUME NEW t \in Shots', NEW u \in Shots', t.latestAt <= u.latestAt
             PROVE  t.latest <= u.latest
  BY DEF OrderInv, Ordered
<1>4. ASSUME NEW s \in Shots, Alike(t, s)  PROVE t.latest <= u.latest
  <2>1. CASE Bare(u) \/ Last(u)
    BY <1>2, <1>3, <1>4, <2>1
  <2>2. ASSUME NEW r \in Shots, Alike(u, r)  PROVE t.latest <= u.latest
    <3>1. Ordered(s, r)
      BY DEF OrderInv
    <3> QED BY <1>4, <2>2, <3>1 DEF Ordered
  <2> QED BY <1>1, <2>1, <2>2
<1>5. CASE Bare(t) \/ Last(t)
  <2>1. CASE Bare(u) \/ Last(u)
    BY <1>3, <1>5, <2>1
  <2>2. ASSUME NEW r \in Shots, Alike(u, r)  PROVE t.latest <= u.latest
    BY <1>2, <1>3, <1>5, <2>2
  <2> QED BY <1>1, <2>1, <2>2
<1> QED
  BY <1>1, <1>4, <1>5

\* The tab's memory, and the toasts that went with it.
ToastInv ==
  /\ prev \in Row \cup {0} /\ toasts \in [Row -> 0 .. 2]
  /\ ~disorder => /\ prev = 0 \/ prev <= cache.latest
                  /\ \A n \in Row : toasts[n] <= 1 /\ (n > prev => toasts[n] = 0)

LEMMA RowsAreNumbers == Row \subseteq Nat \ {0}
  BY NotificationsAssumption, FS_Subset, FS_CardinalityType DEF Row

LEMMA NoticeFacts ==
  ASSUME NEW s \in Snapshot, Whole(s), Notice(s),
         prev \in Row \cup {0}, toasts \in [Row -> 0 .. 2]
  PROVE  /\ prev' \in Row \cup {0} /\ toasts' \in [Row -> 0 .. 2]
         /\ /\ prev = 0 \/ prev <= s.latest
            /\ \A n \in Row : toasts[n] <= 1 /\ (n > prev => toasts[n] = 0)
            => /\ prev' = 0 \/ prev' <= s.latest
               /\ \A n \in Row : toasts'[n] <= 1 /\ (n > prev' => toasts'[n] = 0)
<1>1. s.latest \in Row \cup {0} /\ s.latest \in Nat /\ prev \in Nat /\ Row \subseteq Nat \ {0}
  <2>1. s.latest \in Row \cup {-1, 0} /\ s.latest >= 0
    BY DEF Snapshot, Whole
  <2>2. s.latest \in Row \cup {0}
    BY <2>1
  <2>3. Row \subseteq Nat \ {0}
    BY RowsAreNumbers
  <2>4. \A n \in Row \cup {0} : n \in Nat
    BY <2>3
  <2> QED BY <2>2, <2>3, <2>4
<1>2. prev' = s.latest \/ (prev' = prev /\ primed /\ s.latest = 0)
  BY DEF Notice, Seen
<1>3. CASE toasts' = toasts
  <2>1. prev <= s.latest \/ prev = 0 => (prev' = 0 \/ prev' <= s.latest) /\ prev' >= prev
    BY <1>1, <1>2
  <2>2. ASSUME \A n \in Row : toasts[n] <= 1 /\ (n > prev => toasts[n] = 0), prev' >= prev
        PROVE  \A n \in Row : toasts'[n] <= 1 /\ (n > prev' => toasts'[n] = 0)
    BY <1>1, <1>2, <1>3, <2>2
  <2> QED BY <1>1, <1>2, <1>3, <2>1, <2>2
<1>4. CASE toasts' # toasts
  <2>1. /\ s.latest # 0 /\ s.latest # prev /\ prev' = s.latest
        /\ toasts' = [toasts EXCEPT ![s.latest] = IF @ = 2 THEN 2 ELSE @ + 1]
    BY <1>2, <1>4 DEF Notice, Toast
  <2>2. toasts' \in [Row -> 0 .. 2]
    BY <1>1, <2>1
  <2>3. ASSUME prev = 0 \/ prev <= s.latest,
               \A n \in Row : toasts[n] <= 1 /\ (n > prev => toasts[n] = 0)
        PROVE  \A n \in Row : toasts'[n] <= 1 /\ (n > prev' => toasts'[n] = 0)
    <3>1. s.latest \in Row /\ toasts[s.latest] = 0 /\ toasts'[s.latest] = 1
      BY <1>1, <2>1, <2>3
    <3>2. \A n \in Row : n # s.latest => toasts'[n] = toasts[n]
      BY <2>1
    <3> QED BY <1>1, <2>1, <2>3, <3>1, <3>2
  <2> QED BY <1>1, <2>1, <2>2, <2>3
<1> QED
  BY <1>3, <1>4

LEMMA ToastStep ==
  ASSUME ServerOk, FlowOk, FaithInv, OrderInv, ToastInv, [Next]_vars
  PROVE  ToastInv'
<1>f. /\ cache \in Snapshot /\ wire \in Seq(Snapshot) /\ fetch \in Snapshot \cup {NoFetch}
      /\ cache = Blank \/ Whole(cache)
      /\ stream = "live" => \A i \in 1 .. Len(wire) : Whole(wire[i])
  BY DEF FlowOk
<1>t. prev \in Row \cup {0} /\ toasts \in [Row -> 0 .. 2]
  BY DEF ToastInv
<1>n. prev \in Nat /\ cache.latest \in Int
  BY <1>f, <1>t, RowsAreNumbers, FieldTypes
<1>1. ASSUME NEW s \in Shots, s \in Snapshot, Hear(s), ~disorder'
      PROVE  ~disorder /\ cache' = s /\ (prev = 0 \/ prev <= s.latest)
  <2>1. cache' = s /\ ~disorder /\ ~(s.latestAt < cache.latestAt)
    BY <1>1 DEF Hear, Kept
  <2>2. s.latestAt \in Int /\ cache.latestAt \in Int /\ s.latest \in Int
    <3>1. cache \in Snapshot \cup {NoFetch} /\ s \in Snapshot \cup {NoFetch}
      BY <1>f, <1>1
    <3> QED BY <3>1, FieldTypes
  <2>3. cache.latestAt <= s.latestAt
    BY <2>1, <2>2
  <2>4. Ordered(cache, s)
    BY DEF OrderInv, Shots
  <2>5. cache.latest <= s.latest
    BY <2>3, <2>4 DEF Ordered
  <2> QED BY <2>1, <2>2, <2>5, <1>n DEF ToastInv
<1>2. ASSUME NEW s \in Shots, s \in Snapshot, Whole(s), Hear(s), Notice(s)
      PROVE  ToastInv'
  <2>1. cache' = s
    BY <1>2 DEF Hear, Kept
  <2>2. prev' \in Row \cup {0} /\ toasts' \in [Row -> 0 .. 2]
    BY <1>2, <1>t, NoticeFacts
  <2>3. ASSUME ~disorder'
        PROVE  /\ prev' = 0 \/ prev' <= s.latest
               /\ \A n \in Row : toasts'[n] <= 1 /\ (n > prev' => toasts'[n] = 0)
    <3>1. ~disorder /\ (prev = 0 \/ prev <= s.latest)
      BY <1>1, <1>2, <2>3
    <3>2. \A n \in Row : toasts[n] <= 1 /\ (n > prev => toasts[n] = 0)
      BY <3>1 DEF ToastInv
    <3> QED BY <1>2, <1>t, <3>1, <3>2, NoticeFacts
  <2> QED BY <2>1, <2>2, <2>3 DEF ToastInv
<1>3. CASE Receive
  <2>1. wire # <<>> /\ stream = "live" /\ Hear(wire[1]) /\ Notice(wire[1])
    BY <1>3 DEF Receive
  <2>2. 1 \in 1 .. Len(wire) /\ 1 \in DOMAIN wire /\ wire[1] \in Snapshot
    BY <1>f, <2>1
  <2>3. wire[1] \in Shots /\ Whole(wire[1])
    BY <1>f, <2>1, <2>2 DEF Shots, Coming
  <2> QED BY <1>2, <2>1, <2>2, <2>3
<1>4. CASE FetchAnswer
  <2>1. fetch \in Snapshot /\ fetch \in Shots /\ Whole(fetch) /\ Hear(fetch)
    BY <1>4, <1>f DEF FetchAnswer, Shots
  <2>2. CASE Notice(fetch)
    BY <1>2, <2>1, <2>2
  <2>3. CASE prev' = prev /\ toasts' = toasts
    BY <1>1, <2>1, <2>3 DEF ToastInv
  <2> QED BY <1>4, <2>2, <2>3 DEF FetchAnswer
<1>5. CASE Drop
  <2>1. cache' = cache /\ (disorder' <=> disorder)
    BY <1>5 DEF Drop, heard
  <2>2. CASE cache # Blank /\ Notice(cache)
    <3>1. Whole(cache)
      BY <1>f, <2>2
    <3> QED BY <1>f, <1>t, <2>1, <2>2, <3>1, NoticeFacts DEF ToastInv
  <2>3. CASE prev' = prev /\ toasts' = toasts
    BY <2>1, <2>3 DEF ToastInv
  <2> QED BY <1>5, <2>2, <2>3 DEF Drop
<1>6. CASE cache' = cache /\ prev' = prev /\ toasts' = toasts /\ disorder' = disorder
  BY <1>6 DEF ToastInv
<1> QED
  BY <1>3, <1>4, <1>5, <1>6, TabMoves DEF TabMove, client, heard, Connect, StreamReads,
     Subscribe, FetchStart, FetchReads, MarkAnswer

LEMMA ToastsInit ==
  ASSUME Init
  PROVE  OrderInv /\ ToastInv
<1>1. /\ snap = <<>> /\ wire = <<>> /\ fetch = NoFetch /\ cache = Blank
      /\ prev = 0 /\ toasts = [n \in Row |-> 0]
  BY DEF Init
<1>2. Shots = {NoFetch, Blank}
  BY <1>1 DEF Shots, Coming
<1>3. OrderInv
  BY <1>2, BlankFacts DEF OrderInv, Ordered
<1> QED
  BY <1>1, <1>3 DEF ToastInv

TrayInv == TabInv /\ OrderInv /\ ToastInv

LEMMA TrayInvHolds == Spec => []TrayInv
<1>1. TrayInv /\ [Next]_vars => TrayInv'
  BY ServerStep, FlowStep, FaithStep, FreshStep, OrderStep, ToastStep DEF TrayInv, TabInv
<1> QED
  BY <1>1, InitFacts, ToastsInit, PTL DEF Spec, TabInv, TrayInv

\* ToastTwiceOnlyIfDisorder: as long as the watcher hears of the rows in their
\* order, prevLatestRef keeps every row from a second toast.
THEOREM SecondToastNeedsDisorder == Spec => []ToastTwiceOnlyIfDisorder
<1>1. TrayInv => ToastTwiceOnlyIfDisorder
  <2> SUFFICES ASSUME TrayInv, NEW n \in Row, toasts[n] = 2, ~disorder  PROVE FALSE
    BY DEF ToastTwiceOnlyIfDisorder
  <2> QED BY DEF TrayInv, ToastInv
<1> QED
  BY <1>1, TrayInvHolds, PTL

\* UnreadRowsPassWithAToast: the watcher moves on over unread rows without toasting
\* the newest of them only in a snapshot whose count was read before its latest.
THEOREM SilenceNeedsATornSnapshot == Spec => UnreadRowsPassWithAToast
<1> DEFINE Silent(n) == /\ primed /\ prev < n /\ n <= prev' /\ n \in unread
                        /\ ~(toasts'[prev'] > 0)
<1>1. ASSUME TrayInv, [Next]_vars, NEW n \in Row, Silent(n)
      PROVE  cache'.countAt < cache'.latestAt
  <2>f. /\ cache \in Snapshot /\ wire \in Seq(Snapshot) /\ fetch \in Snapshot \cup {NoFetch}
        /\ cache = Blank \/ Whole(cache)
        /\ stream = "live" => \A i \in 1 .. Len(wire) : Whole(wire[i])
        /\ toasts \in [Row -> 0 .. 2] /\ prev \in Row \cup {0}
    BY <1>1 DEF TrayInv, TabInv, FlowOk, ToastInv
  <2>g. n \in Nat /\ prev \in Nat /\ Row \subseteq Nat \ {0}
    BY <2>f, RowsAreNumbers
  <2>1. ASSUME NEW s \in Shots, s \in Snapshot, Whole(s), Notice(s), cache' = s
        PROVE  cache'.countAt < cache'.latestAt
    <3>1. Faithful(s)
      BY <1>1 DEF TrayInv, TabInv, FaithInv
    <3>2. /\ s.count \in Int /\ s.countAt \in Int /\ s.latestAt \in Int /\ s.count >= 0
      BY <2>1, FieldTypes DEF Whole
    <3>3. prev' = s.latest /\ s.latest \notin {0, prev} /\ s.latest \in Row
      <4>1. prev' = Seen(s.latest) /\ s.latest \in Row \cup {0}
        BY <1>1, <2>1 DEF Notice, Whole, Snapshot
      <4>2. prev' \in {prev, s.latest} /\ (s.latest = 0 => prev' = prev)
        BY <4>1 DEF Seen
      <4>3. prev' # prev
        BY <1>1, <2>g
      <4> QED BY <4>1, <4>2, <4>3
    <3>4. ~Worth(s)
      <4>1. SUFFICES ASSUME Worth(s)  PROVE FALSE
        OBVIOUS
      <4>2. toasts' = [toasts EXCEPT ![s.latest] = IF @ = 2 THEN 2 ELSE @ + 1]
        BY <1>1, <2>1, <3>3, <4>1 DEF Notice, Toast
      <4>3. toasts[s.latest] \in 0 .. 2
        BY <2>f, <3>3
      <4>4. toasts'[s.latest] > 0
        BY <2>f, <3>3, <4>2, <4>3
      <4> QED BY <1>1, <3>3, <4>4
    <3>5. s.count = 0
      BY <3>2, <3>4 DEF Worth
    <3>6. ~(n > s.latest) /\ n \in unread
      <4>1. n <= s.latest /\ n \in unread
        BY <1>1, <3>3
      <4>2. s.latest \in Nat /\ n \in Nat
        BY <2>g, <3>3
      <4> QED BY ONLY <4>1, <4>2
    <3>7. ~(s.latestAt <= s.countAt)
      <4>1. s.latestAt <= s.countAt => \A m \in unread : m > s.latest
        BY <3>1, <3>5 DEF Faithful
      <4> QED BY <3>6, <4>1
    <3> QED BY <2>1, <3>2, <3>7
  <2>5. prev' # prev
    BY <1>1, <2>g
  <2>2. CASE Receive
    <3>1. wire # <<>> /\ stream = "live" /\ cache' = wire[1] /\ Notice(wire[1])
      BY <2>2 DEF Receive, Hear, Kept
    <3>2. 1 \in 1 .. Len(wire) /\ 1 \in DOMAIN wire /\ wire[1] \in Snapshot
      BY <2>f, <3>1
    <3> QED BY <2>1, <2>f, <3>1, <3>2 DEF Shots, Coming
  <2>3. CASE FetchAnswer
    <3>1. fetch \in Shots /\ fetch \in Snapshot /\ Whole(fetch) /\ cache' = fetch
      BY <2>3, <2>f DEF FetchAnswer, Hear, Kept, Shots
    <3>2. Notice(fetch) \/ prev' = prev
      BY <2>3 DEF FetchAnswer
    <3> QED BY <2>1, <2>5, <3>1, <3>2
  <2>4. CASE Drop
    <3>1. cache \in Shots /\ cache' = cache
      BY <2>4 DEF Drop, Shots
    <3>2. (cache # Blank /\ Notice(cache)) \/ prev' = prev
      BY <2>4 DEF Drop
    <3> QED BY <2>1, <2>5, <2>f, <3>1, <3>2
  <2> QED
    BY <1>1, <2>2, <2>3, <2>4, <2>5, TabMoves DEF TabMove, client, Connect, StreamReads,
       Subscribe, FetchStart, FetchReads, MarkAnswer
<1>2. TrayInv /\ [Next]_vars =>
        [\A n \in Row :
           primed /\ prev < n /\ n <= prev' /\ n \in unread =>
             toasts'[prev'] > 0 \/ cache'.countAt < cache'.latestAt]_vars
  BY <1>1
<1> QED
  BY <1>2, TrayInvHolds, PTL DEF Spec, UnreadRowsPassWithAToast

(***************************************************************************)
(* The type invariant.                                                     *)
(***************************************************************************)
RestOk ==
  /\ mark \in {"none", "one", "all", "marked"} /\ marks \in 0 .. MaxMark
  /\ stream # "down" => drops < MaxDrop
  /\ drops \in 0 .. MaxDrop
  /\ primed \in BOOLEAN /\ missed \in BOOLEAN /\ disorder \in BOOLEAN

LEMMA RestStep ==
  ASSUME RestOk, [Next]_vars
  PROVE  RestOk'
<1> USE NotificationsAssumption DEF RestOk, server, client, heard
<1>1. CASE TabMove
  <2>1. CASE Connect
    BY <2>1 DEF Connect
  <2>2. CASE StreamReads
    BY <2>2 DEF StreamReads
  <2>3. CASE Subscribe
    BY <2>3 DEF Subscribe
  <2>4. CASE Receive
    BY <2>4 DEF Receive, Hear, Notice
  <2>5. CASE Drop
    <3>1. primed' \in BOOLEAN
      BY <2>5 DEF Drop, Notice
    <3>2. drops' \in 0 .. MaxDrop
      BY <2>5 DEF Drop
    <3> QED BY <2>5, <3>1, <3>2 DEF Drop
  <2>6. CASE FetchStart \/ FetchReads \/ MarkAnswer
    BY <2>6 DEF FetchStart, FetchReads, MarkAnswer
  <2>7. CASE FetchAnswer
    BY <2>7 DEF FetchAnswer, Hear, Notice
  <2> QED BY <1>1, <2>1, <2>2, <2>3, <2>4, <2>5, <2>6, <2>7 DEF TabMove
<1>2. ASSUME NEW c \in Call, NEW e \in Event, Look(c, e) \/ Insert(c, e)  PROVE RestOk'
  BY <1>2 DEF Look, Insert
<1>3. ASSUME NEW c \in Call, InsertRefused(c) \/ CallEnds(c) \/ CallDies(c)  PROVE RestOk'
  BY <1>3 DEF InsertRefused, CallEnds, CallDies
<1>4. ASSUME NEW i \in DOMAIN snap, SnapReads(i) \/ Publish(i) \/ SnapFails(i)  PROVE RestOk'
  BY <1>4 DEF SnapReads, Publish, SnapFails
<1>5. ASSUME NEW S, Marking(S)  PROVE RestOk'
  BY <1>5 DEF Marking
<1>6. ASSUME NEW what \in {"one", "all"}, MarkSend(what)  PROVE RestOk'
  BY <1>6 DEF MarkSend
<1>7. CASE UNCHANGED vars
  BY <1>7 DEF vars
<1> QED
  BY <1>1, <1>2, <1>3, <1>4, <1>5, <1>6, <1>7 DEF Next, TabMove, MarkRead, MarkAllRead

\* Types: rows are the user's own notifications, and every snapshot under way,
\* cached or on the wire tells of rows there are.
THEOREM TypeCorrect == Spec => []TypeOK
<1>1. Init => RestOk
  <2> SUFFICES ASSUME Init PROVE RestOk
    OBVIOUS
  <2>1. /\ mark = "none" /\ marks = 0 /\ stream = "down" /\ drops = 0
        /\ primed = FALSE /\ missed = FALSE /\ disorder = FALSE
    BY DEF Init
  <2>2. MaxMark \in Nat /\ MaxDrop \in Nat
    BY NotificationsAssumption
  <2>3. marks \in 0 .. MaxMark /\ drops \in 0 .. MaxDrop
    BY <2>1, <2>2
  <2>4. primed \in BOOLEAN /\ missed \in BOOLEAN /\ disorder \in BOOLEAN
    BY <2>1
  <2> QED BY <2>1, <2>3, <2>4 DEF RestOk
<1>2. RestOk /\ [Next]_vars => RestOk'
  BY RestStep
<1>3. Spec => []RestOk
  BY <1>1, <1>2, PTL DEF Spec
<1>4. Spec => []TellInv
  BY TellInit, TellStep, PTL DEF Spec
<1>5. RestOk /\ TellInv /\ TrayInv => TypeOK
  <2> SUFFICES ASSUME RestOk, TellInv, TrayInv  PROVE TypeOK
    OBVIOUS
  <2>1. ServerOk /\ FlowOk /\ ToastInv
    BY DEF TrayInv, TabInv
  <2>2. (\A i \in DOMAIN snap : snap[i] \in Snapshot) /\ (\A i \in DOMAIN wire : wire[i] \in Snapshot)
    BY <2>1 DEF FlowOk
  <2>3. call \in [Call -> Handler]
    BY DEF TellInv
  <2> QED BY <2>1, <2>2, <2>3 DEF RestOk, ServerOk, FlowOk, ToastInv, TypeOK, Handler
<1> QED
  BY <1>3, <1>4, <1>5, TrayInvHolds, PTL

-----------------------------------------------------------------------------
(***************************************************************************)
(* Screens.  Page names and the pairs to follow come first: no page is     *)
(* called "outside", and what a pair mounts and offers are pages.          *)
(***************************************************************************)
LEMMA DistributorPageNames == \A p \in DistributorPages : p.name # "outside"
<1>1. SetupPage.name = "SetupPage"
  BY DEF SetupPage, Holding, Page
<1>2. SubscriptionPage.name = "SubscriptionPage"
  BY DEF SubscriptionPage, Holding, Page
<1>3. /\ DashboardPage.name = "DashboardPage"
      /\ DistributorSettingsPage.name = "DistributorSettingsPage"
      /\ ProductsPage.name = "ProductsPage" /\ DeliverySlotsPage.name = "DeliverySlotsPage"
      /\ CustomersPage.name = "CustomersPage" /\ CustomerPage.name = "CustomerPage"
      /\ NewCustomerPage.name = "NewCustomerPage"
      /\ SubscriptionsPage.name = "SubscriptionsPage"
      /\ NewSubscriptionPage.name = "NewSubscriptionPage"
  BY DEF DashboardPage, DistributorSettingsPage, ProductsPage, DeliverySlotsPage, CustomersPage,
     CustomerPage, NewCustomerPage, SubscriptionsPage, NewSubscriptionPage, Page
<1>4. /\ DeliveriesPage.name = "DeliveriesPage" /\ BillingPage.name = "BillingPage"
      /\ BillingSettingsPage.name = "BillingSettingsPage" /\ DuesPage.name = "DuesPage"
      /\ BillPage.name = "BillPage"
  BY DEF DeliveriesPage, BillingPage, BillingSettingsPage, DuesPage, BillPage, Page
<1> QED
  BY <1>1, <1>2, <1>3, <1>4 DEF DistributorPages

LEMMA CustomerPageNames == \A p \in CustomerPages : p.name # "outside"
<1>1. CustomerSubscriptionPage.name = "CustomerSubscriptionPage"
  BY DEF CustomerSubscriptionPage, Holding, Page
<1>2. DocumentsPage.name = "DocumentsPage"
  BY DEF DocumentsPage, Holding, Page
<1>3. /\ ProfilePage.name = "ProfilePage" /\ FindDistributorPage.name = "FindDistributorPage"
      /\ DistributorPage.name = "DistributorPage" /\ SubscribePage.name = "SubscribePage"
      /\ CustomerSubscriptionsPage.name = "CustomerSubscriptionsPage"
      /\ CustomerDeliveriesPage.name = "CustomerDeliveriesPage"
      /\ CustomerBillsPage.name = "CustomerBillsPage" /\ CustomerBillPage.name = "CustomerBillPage"
  BY DEF ProfilePage, FindDistributorPage, DistributorPage, SubscribePage,
     CustomerSubscriptionsPage, CustomerDeliveriesPage, CustomerBillsPage, CustomerBillPage, Page
<1> QED
  BY <1>1, <1>2, <1>3 DEF CustomerPages

LEMMA AdminPageNames == \A p \in AdminPages : p.name # "outside"
<1>1. /\ AdminDashboardPage.name = "AdminDashboardPage"
      /\ AdminDistributorsPage.name = "AdminDistributorsPage"
      /\ AdminCustomersPage.name = "AdminCustomersPage"
      /\ AdminSubscriptionsPage.name = "AdminSubscriptionsPage"
      /\ AdminProductsPage.name = "AdminProductsPage"
      /\ AdminSettingsPage.name = "AdminSettingsPage"
      /\ OperationsPage.name = "OperationsPage" /\ VerificationPage.name = "VerificationPage"
  BY DEF AdminDashboardPage, AdminDistributorsPage, AdminCustomersPage, AdminSubscriptionsPage,
     AdminProductsPage, AdminSettingsPage, OperationsPage, VerificationPage, Page
<1> QED
  BY <1>1 DEF AdminPages

\* Nobody reads, changes or edits anything on the login page.
LEMMA PairFacts ==
  ASSUME NEW x \in Pair
  PROVE  /\ "outside" \notin x.mounts \cup x.offers \cup x.follow \cup x.fillOnce
         /\ "outside" \notin x.settled \cup x.always
         /\ x.settled \cup x.always \subseteq x.follow /\ x.refill \subseteq x.follow
<1>1. PICK role \in Role : \E q \in QueriesOf(role) : x \in PairsOf(role, q)
  BY DEF Pair
<1>2. PICK q, m :
        /\ x.mounts = Named({p \in Pages[role] : q \in p.mounts})
        /\ x.offers = Named({p \in Pages[role] : m \in p.offers})
        /\ x.fillOnce = WithForm(role, q, m, {"asked"})
        /\ x.follow = WithForm(role, q, m, {"answered", "settled", "always", "user"})
        /\ x.settled = WithForm(role, q, m, {"settled", "user"})
        /\ x.always = WithForm(role, q, m, {"always"})
        /\ x.refill = WithForm(role, q, m, {"user"})
  <2>1. PICK q, m : x = Followed(role, q, m)
    BY <1>1 DEF PairsOf
  <2> QED BY <2>1 DEF Followed
<1>3. \A p \in Pages[role] : p.name # "outside"
  BY DistributorPageNames, CustomerPageNames, AdminPageNames DEF Pages, Role
<1>4. "outside" \notin x.mounts \cup x.offers
  BY <1>2, <1>3 DEF Named
<1>5. \A kinds : "outside" \notin WithForm(role, q, m, kinds)
  BY <1>3 DEF WithForm, Named
<1>6. ASSUME NEW few, NEW kinds, few \subseteq kinds
      PROVE  WithForm(role, q, m, few) \subseteq WithForm(role, q, m, kinds)
  BY <1>6 DEF WithForm, Named
<1>7. "outside" \notin x.follow \cup x.fillOnce \cup x.settled \cup x.always
  BY <1>2, <1>5
<1>8. x.settled \subseteq x.follow /\ x.always \subseteq x.follow /\ x.refill \subseteq x.follow
  BY <1>2, <1>6
<1> QED
  BY <1>4, <1>7, <1>8

(***************************************************************************)
(* Types.                                                                  *)
(***************************************************************************)

\* Who is signed in is on some page inside, and has signed in once.
PlaceOk ==
  /\ pair \in Pair /\ user \in User \cup {NoUser}
  /\ page \in pair.mounts \cup pair.offers \cup {"elsewhere", "outside"}
  /\ user = NoUser <=> page = "outside"
  /\ been \subseteq User /\ (user # NoUser => user \in been)

\* What is cached or under way is of somebody who has been here.
CacheOk ==
  /\ entry \in Cached \cup {Nothing} /\ reading \in Request \cup {Nothing}
  /\ entry # Nothing => entry.of \in been
  /\ reading # Nothing => reading.by = reading.under /\ reading.by \in been

WorkOk ==
  /\ mutation \in Sending \cup {Nothing} /\ form \in Draft \cup {Nothing}
  /\ row \in [User -> Written]
  /\ user = NoUser => form = Nothing

ScreensTyped ==
  PlaceOk /\ CacheOk /\ WorkOk /\ landed \in BOOLEAN /\ excuse \subseteq {"unheard", "failed", "late"}

LEMMA Distinct ==
  /\ NoUser \notin User /\ Nothing \notin Written
  /\ \A x \in Cached \cup Request \cup Sending \cup Draft : x # Nothing
  BY ScreensAssumption

LEMMA AskedFacts ==
  ASSUME NEW u \in User
  PROVE  /\ Asked(u) \in Request /\ Asked(u) # Nothing
         /\ Asked(u).by = u /\ Asked(u).under = u /\ Asked(u).row = Nothing
<1>1. Asked(u) \in Request
  BY DEF Asked, Request
<1> QED
  BY <1>1, Distinct DEF Asked

\* A form is left as it is or holds the answer on the screen.
LEMMA FilledFacts ==
  ASSUME NEW p, NEW cached \in Cached \cup {Nothing}, NEW held \in Draft \cup {Nothing}
  PROVE  /\ Filled(p, cached, held) \in Draft \cup {Nothing}
         /\ \/ Filled(p, cached, held) = held
               /\ (p \in pair.follow /\ cached # Nothing => held # Nothing /\ Of(held) = Of(cached))
            \/ /\ Filled(p, cached, held) \in Draft
               /\ p \in pair.follow /\ cached # Nothing /\ Of(Filled(p, cached, held)) = Of(cached)
               /\ held = Nothing \/ Of(held) # Of(cached)
<1>1. CASE p \in pair.follow /\ cached # Nothing /\ (held = Nothing \/ Of(held) # Of(cached))
  <2>1. cached.of \in User /\ cached.row \in Written
    BY <1>1 DEF Cached
  <2>2. Filled(p, cached, held) = [of |-> cached.of, row |-> cached.row, typed |-> FALSE]
    BY <1>1 DEF Filled
  <2>3. [of |-> cached.of, row |-> cached.row, typed |-> FALSE] \in Draft
    BY <2>1 DEF Draft
  <2> QED BY <1>1, <2>2, <2>3 DEF Of
<1>2. CASE ~(p \in pair.follow /\ cached # Nothing /\ (held = Nothing \/ Of(held) # Of(cached)))
  BY <1>2 DEF Filled
<1> QED
  BY <1>1, <1>2

\* What updateUser makes of the form: itself, or the answer on the screen.
LEMMA RefilledFacts ==
  ASSUME entry \in Cached \cup {Nothing}, form \in Draft \cup {Nothing}
  PROVE  /\ Refilled \in Draft \cup {Nothing}
         /\ page \notin pair.refill => Refilled = form
         /\ \/ Refilled \in {form, Nothing}
            \/ page \in pair.follow /\ entry # Nothing /\ Of(Refilled) = Of(entry)
<1>1. CASE page \in pair.refill
  <2>1. Refilled = Filled(page, entry, Nothing)
    BY <1>1 DEF Refilled
  <2>2. /\ Filled(page, entry, Nothing) \in Draft \cup {Nothing}
        /\ \/ Filled(page, entry, Nothing) = Nothing
           \/ page \in pair.follow /\ entry # Nothing /\ Of(Filled(page, entry, Nothing)) = Of(entry)
    <3> DEFINE filled == Filled(page, entry, Nothing)
    <3>1. Nothing \in Draft \cup {Nothing}
      OBVIOUS
    <3>2. filled \in Draft \cup {Nothing}
      BY <3>1, FilledFacts
    <3>3. filled = Nothing \/ (page \in pair.follow /\ entry # Nothing /\ Of(filled) = Of(entry))
      BY <3>1, FilledFacts
    <3> QED BY <3>2, <3>3
  <2> QED BY ONLY <2>1, <2>2, <1>1
<1>2. CASE page \notin pair.refill
  BY <1>2 DEF Refilled
<1> QED
  BY <1>1, <1>2

LEMMA PlaceStep ==
  ASSUME PlaceOk, [ScreensNext]_screensVars
  PROVE  PlaceOk'
<1>p. "outside" \notin pair.mounts \cup pair.offers /\ NoUser \notin User
  BY PairFacts, Distinct DEF PlaceOk
<1>1. ASSUME NEW u \in User, SignIn(u)  PROVE PlaceOk'
  BY <1>p, <1>1 DEF PlaceOk, SignIn
<1>2. CASE SignOut
  BY <1>p, <1>2 DEF PlaceOk, SignOut
<1>3. ASSUME NEW p \in pair.mounts \cup pair.offers \cup {"elsewhere"}, Visit(p)  PROVE PlaceOk'
  BY <1>p, <1>3 DEF PlaceOk, Visit
<1>4. CASE UNCHANGED <<pair, user, page, been>>
  BY <1>4 DEF PlaceOk
<1> QED
  BY <1>1, <1>2, <1>3, <1>4 DEF ScreensNext, screensVars, OtherWrites, Reload, Focus, StartEdit,
     Type, Send, UserWritten, Accept, Refuse, Succeed, EndUnheard, LoseAnswer, Read, Land, Fail,
     GrowOld

\* The cached answer and the read under way, by what changes them.
LEMMA CacheStep ==
  ASSUME PlaceOk, CacheOk, WorkOk, [ScreensNext]_screensVars
  PROVE  CacheOk'
<1>p. /\ "outside" \notin pair.mounts \cup pair.offers /\ NoUser \notin User
      /\ been \subseteq User /\ user \in User \cup {NoUser} /\ (user # NoUser => user \in been)
      /\ user = NoUser <=> page = "outside"
  BY PairFacts, Distinct DEF PlaceOk
<1>e. entry \in Cached \cup {Nothing} /\ (entry # Nothing => entry.of \in been)
  BY DEF CacheOk
<1>r. reading \in Request \cup {Nothing}
      /\ (reading # Nothing => reading.by = reading.under /\ reading.by \in been)
  BY DEF CacheOk
<1>1. ASSUME NEW u \in User, SignIn(u)  PROVE CacheOk'
  <2>1. entry' = entry /\ been' = been \cup {u} /\ reading' \in {Asked(u), reading}
    BY <1>1 DEF SignIn
  <2> QED BY <1>e, <1>r, <2>1, AskedFacts DEF CacheOk
<1>2. ASSUME been' = been, entry' = entry, user # NoUser, reading' \in {Asked(user), reading, Nothing}
      PROVE  CacheOk'
  BY <1>2, <1>e, <1>r, <1>p, AskedFacts DEF CacheOk
<1>3. ASSUME NEW p \in pair.mounts \cup pair.offers \cup {"elsewhere"}, Visit(p)  PROVE CacheOk'
  BY <1>2, <1>3 DEF Visit, Mounting
<1>4. CASE Reload
  <2>1. been' = been /\ entry' = Nothing /\ user \in been /\ reading' \in {Asked(user), Nothing}
    BY <1>4, <1>p DEF Reload
  <2> QED BY <2>1, <1>p, AskedFacts DEF CacheOk
<1>5. CASE Focus
  BY <1>2, <1>5 DEF Focus
<1>6. ASSUME entry' = (IF entry = Nothing THEN Nothing ELSE [entry EXCEPT !.fresh = FALSE])
      PROVE  entry' \in Cached \cup {Nothing} /\ (entry' # Nothing => entry'.of \in been)
  BY <1>6, <1>e DEF Cached
<1>7. CASE Succeed
  <2>1. CASE Invalidated
    <3>1. entry' \in Cached \cup {Nothing} /\ (entry' # Nothing => entry'.of \in been)
      BY <1>6, <2>1 DEF Invalidated
    <3>2. been' = been
      BY <1>7 DEF Succeed
    <3>3. CASE Mounts(page)
      <4>1. user \in been /\ user \in User
        BY <1>p, <3>3 DEF Mounts
      <4>2. reading' = Asked(user)
        BY <2>1, <3>3 DEF Invalidated
      <4> QED BY <3>1, <3>2, <4>1, <4>2, AskedFacts DEF CacheOk
    <3>4. CASE ~Mounts(page)
      <4>1. reading' \in Request \cup {Nothing}
            /\ (reading' # Nothing => reading'.by = reading'.under /\ reading'.by \in been)
        BY <2>1, <3>4, <1>r DEF Invalidated, Request
      <4> QED BY <3>1, <3>2, <4>1 DEF CacheOk
    <3> QED BY <3>3, <3>4
  <2>2. CASE UNCHANGED <<entry, reading>>
    BY <1>7, <2>2 DEF Succeed, CacheOk
  <2> QED BY <1>7, <2>1, <2>2 DEF Succeed
<1>8. CASE Read
  <2>1. reading # Nothing /\ reading' = [reading EXCEPT !.row = row[reading.by]]
        /\ entry' = entry /\ been' = been
    BY <1>8 DEF Read
  <2>2. row[reading.by] \in Written
    BY <1>r, <1>p, <2>1 DEF WorkOk
  <2>3. /\ reading' \in Request /\ reading'.by = reading.by /\ reading'.under = reading.under
    BY <1>r, <2>1, <2>2 DEF Request
  <2> QED BY <1>e, <1>r, <2>1, <2>3 DEF CacheOk
<1>9. CASE Land
  <2>1. /\ reading # Nothing /\ reading.row # Nothing /\ reading' = Nothing /\ been' = been
        /\ entry' = [of |-> reading.by, row |-> reading.row, fresh |-> TRUE]
    BY <1>9 DEF Land
  <2>2. entry' \in Cached /\ entry'.of = reading.by
    BY <2>1, <1>r DEF Request, Cached
  <2> QED BY <1>r, <2>1, <2>2 DEF CacheOk
<1>10. CASE GrowOld
  <2>1. entry' = [entry EXCEPT !.fresh = FALSE] /\ entry # Nothing /\ reading' = reading /\ been' = been
    BY <1>10 DEF GrowOld
  <2> QED BY <1>6, <1>r, <2>1 DEF CacheOk
<1>11. CASE Fail
  BY <1>11, <1>e DEF Fail, CacheOk
<1>12. CASE UNCHANGED <<been, entry, reading>>
  BY <1>12 DEF CacheOk
<1> QED
  BY <1>1, <1>3, <1>4, <1>5, <1>7, <1>8, <1>9, <1>10, <1>11, <1>12
     DEF ScreensNext, screensVars, SignOut, OtherWrites, StartEdit, Type, Send, UserWritten,
         Accept, Refuse, EndUnheard, LoseAnswer

LEMMA MutationStep ==
  ASSUME PlaceOk, CacheOk, WorkOk, [ScreensNext]_screensVars
  PROVE  mutation' \in Sending \cup {Nothing}
<1>m. mutation \in Sending \cup {Nothing} /\ form \in Draft \cup {Nothing}
      /\ entry \in Cached \cup {Nothing}
  BY DEF WorkOk, CacheOk
<1>1. CASE Reload \/ LoseAnswer
  BY <1>1, <1>m DEF Reload, LoseAnswer, Sending
<1>2. CASE Send
  <2>1. user \in User
    BY <1>2, PairFacts DEF Send, PlaceOk
  <2>2. form \notin {Nothing, Unfilled} => Of(form) \in Shown
    BY <1>m DEF Of, Draft, Shown
  <2>3. entry # Nothing => Of(entry) \in Shown
    BY <1>m DEF Of, Cached, Shown
  <2>4. mutation' = [by     |-> user,
                     base   |-> IF form \in {Nothing, Unfilled} THEN Nothing ELSE Of(form),
                     screen |-> IF entry = Nothing THEN Nothing ELSE Of(entry),
                     at |-> "sent", heard |-> TRUE]
    BY <1>2 DEF Send
  <2>5. (IF form \in {Nothing, Unfilled} THEN Nothing ELSE Of(form)) \in Shown \cup {Nothing}
    BY <2>2
  <2>6. (IF entry = Nothing THEN Nothing ELSE Of(entry)) \in Shown \cup {Nothing}
    BY <2>3
  <2> QED BY ONLY <2>1, <2>4, <2>5, <2>6 DEF Sending
<1>3. CASE Accept \/ Refuse
  BY <1>3, <1>m DEF Accept, Refuse, Sending
<1>4. CASE mutation' = Nothing \/ mutation' = mutation
  BY <1>4, <1>m
<1> QED
  BY <1>1, <1>2, <1>3, <1>4 DEF ScreensNext, screensVars, SignIn, OtherWrites, SignOut, Focus,
     StartEdit, Type, Visit, UserWritten, Succeed, EndUnheard, Read, Land, Fail, GrowOld

LEMMA FormStep ==
  ASSUME PlaceOk, CacheOk, WorkOk, [ScreensNext]_screensVars
  PROVE  form' \in Draft \cup {Nothing} /\ (user' = NoUser => form' = Nothing)
<1>m. form \in Draft \cup {Nothing} /\ entry \in Cached \cup {Nothing}
      /\ reading \in Request \cup {Nothing} /\ (user = NoUser => form = Nothing)
  BY DEF WorkOk, CacheOk
<1>p. /\ "outside" \notin pair.mounts \cup pair.offers \cup pair.follow \cup pair.fillOnce
      /\ "outside" \notin pair.settled \cup pair.always
      /\ NoUser \notin User
      /\ user = NoUser <=> page = "outside"
  BY PairFacts, Distinct DEF PlaceOk
<1>1. ASSUME NEW u \in User, SignIn(u)  PROVE form' = form /\ user' # NoUser
  BY <1>1, <1>p DEF SignIn
<1>2. CASE SignOut \/ Reload
  BY <1>2 DEF SignOut, Reload
<1>3. ASSUME NEW p \in pair.mounts \cup pair.offers \cup {"elsewhere"}, Visit(p)
      PROVE  form' \in Draft \cup {Nothing} /\ user' # NoUser
  BY <1>3, <1>m, FilledFacts DEF Visit
<1>4. CASE StartEdit
  <2>1. entry \in Cached /\ form' = [of |-> entry.of, row |-> entry.row, typed |-> FALSE]
    BY <1>4, <1>m DEF StartEdit
  <2>2. form' \in Draft
    BY <2>1 DEF Cached, Draft
  <2>3. entry # Nothing /\ form = Nothing /\ user' = user /\ page \in pair.fillOnce
    BY <1>4 DEF StartEdit
  <2>4. user # NoUser
    BY <2>3, <1>p
  <2> QED BY <2>2, <2>3, <2>4
<1>5. CASE Type
  <2>1. /\ FormShown /\ user' = user
        /\ form' = IF form \in {Nothing, Unfilled} THEN Unfilled ELSE [form EXCEPT !.typed = TRUE]
    BY <1>5 DEF Type
  <2>2. form' \in Draft
    <3>1. Unfilled \in Draft
      BY DEF Draft
    <3>2. CASE form \in {Nothing, Unfilled}
      BY <2>1, <3>1, <3>2
    <3>3. CASE form \notin {Nothing, Unfilled}
      BY <1>m, <2>1, <3>3 DEF Draft
    <3> QED BY <3>2, <3>3
  <2>3. user # NoUser
    BY <1>m, <1>p, <2>1 DEF FormShown
  <2> QED BY <2>1, <2>2, <2>3
<1>6. CASE Land
  <2>1. user' = user /\ reading \in Request /\ reading.row # Nothing
        /\ form' = Filled(page, [of |-> reading.by, row |-> reading.row, fresh |-> TRUE], form)
    BY <1>6, <1>m DEF Land
  <2>2. [of |-> reading.by, row |-> reading.row, fresh |-> TRUE] \in Cached
    BY <2>1 DEF Request, Cached
  <2>3. form' \in Draft \cup {Nothing}
    BY <2>1, <2>2, <1>m, FilledFacts
  <2>4. user = NoUser => form' = form
    BY <2>1, <1>p DEF Filled
  <2> QED BY <1>m, <2>1, <2>3, <2>4
<1>7. CASE UNCHANGED <<form, user>>
  BY <1>7, <1>m
<1>8. CASE Succeed \/ UserWritten
  <2>1. user' = user /\ form' = Refilled
    BY <1>8 DEF Succeed, UserWritten
  <2>2. user = NoUser => Refilled = form
    BY <1>p, PairFacts, RefilledFacts, <1>m DEF PlaceOk
  <2> QED BY <1>m, <2>1, <2>2, RefilledFacts
<1> QED
  BY <1>m, <1>1, <1>2, <1>3, <1>4, <1>5, <1>6, <1>7, <1>8 DEF ScreensNext, screensVars,
     OtherWrites, Focus, Send, Accept, Refuse, EndUnheard, LoseAnswer, Read, Fail, GrowOld

LEMMA RowsStep ==
  ASSUME WorkOk, [ScreensNext]_screensVars
  PROVE  row' \in [User -> Written]
<1>m. mutation \in Sending \cup {Nothing} /\ row \in [User -> Written]
      /\ MaxOwn \in Nat /\ MaxOther \in Nat
  BY ScreensAssumption DEF WorkOk
<1>1. CASE Accept
  <2>1. mutation.by \in User /\ row[mutation.by].own < MaxOwn
    BY <1>1, <1>m DEF Accept, Sending
  <2>2. row' = [row EXCEPT ![mutation.by].own = @ + 1]
    BY <1>1 DEF Accept
  <2>3. [row[mutation.by] EXCEPT !.own = @ + 1] \in Written
    BY <1>m, <2>1 DEF Written
  <2> QED BY <1>m, <2>1, <2>2, <2>3
<1>2. ASSUME NEW u \in User, OtherWrites(u)  PROVE row' \in [User -> Written]
  <2>1. row[u].other < MaxOther /\ row' = [row EXCEPT ![u].other = @ + 1]
    BY <1>2 DEF OtherWrites
  <2>2. [row[u] EXCEPT !.other = @ + 1] \in Written
    BY <1>m, <2>1 DEF Written
  <2> QED BY <1>m, <2>1, <2>2
<1>3. CASE UNCHANGED row
  BY <1>3, <1>m
<1> QED
  BY <1>1, <1>2, <1>3 DEF ScreensNext, screensVars, SignIn, SignOut, Reload, Focus, StartEdit,
     Type, Send, UserWritten, Visit, Refuse, Succeed, EndUnheard, LoseAnswer, Read, Land, Fail,
     GrowOld

LEMMA ScreensTypedStep ==
  ASSUME ScreensTyped, [ScreensNext]_screensVars
  PROVE  ScreensTyped'
<1>1. PlaceOk' /\ CacheOk' /\ WorkOk'
  BY PlaceStep, CacheStep, MutationStep, FormStep, RowsStep DEF ScreensTyped, WorkOk
<1>2. landed' \in BOOLEAN
  BY DEF ScreensTyped, ScreensNext, screensVars, SignIn, OtherWrites, SignOut, Reload, Focus,
     StartEdit, Type, Send, UserWritten, Visit, Accept, Refuse, Succeed, EndUnheard, LoseAnswer,
     Read, Land, Fail, GrowOld
<1>3. excuse' \in {{}, excuse, excuse \cup {"unheard"}, excuse \cup {"failed"}, excuse \cup {"late"}}
  BY DEF ScreensNext, screensVars, SignIn, OtherWrites, SignOut, Reload, Focus,
     StartEdit, Type, Send, UserWritten, Visit, Accept, Refuse, Succeed, EndUnheard, LoseAnswer,
     Read, Land, Fail, GrowOld
<1> QED
  BY <1>1, <1>2, <1>3 DEF ScreensTyped

LEMMA ScreensTypedInit == ScreensInit => ScreensTyped
<1> SUFFICES ASSUME ScreensInit PROVE ScreensTyped
  OBVIOUS
<1>1. /\ pair \in Pair /\ user = NoUser /\ page = "outside" /\ entry = Nothing /\ reading = Nothing
      /\ mutation = Nothing /\ form = Nothing /\ row = [u \in User |-> [own |-> 0, other |-> 0]]
      /\ landed = FALSE /\ been = {} /\ excuse = {}
  BY DEF ScreensInit
<1>2. [own |-> 0, other |-> 0] \in Written
  BY ScreensAssumption DEF Written
<1>3. row \in [User -> Written]
  BY <1>1, <1>2
<1>4. landed \in BOOLEAN
  BY <1>1
<1> QED
  BY <1>1, <1>3, <1>4 DEF ScreensTyped, PlaceOk, CacheOk, WorkOk

LEMMA ScreensTypedHolds == ScreensSpec => []ScreensTyped
  BY ScreensTypedInit, ScreensTypedStep, PTL DEF ScreensSpec

\* Types: users and pages are those of the followed pair, and what is cached, read,
\* sent or typed is of one of the users of the tab.
THEOREM ScreensTypeCorrect == ScreensSpec => []ScreensTypeOK
<1>1. ScreensTyped => ScreensTypeOK
  BY DEF ScreensTyped, PlaceOk, CacheOk, WorkOk, ScreensTypeOK
<1> QED
  BY <1>1, ScreensTypedHolds, PTL

(***************************************************************************)
(* Whose data is on the screen.                                            *)
(***************************************************************************)

\* Once an answer of the present user has landed, what is cached and what is
\* being read is theirs.
LeftoverInv ==
  landed /\ user # NoUser =>
    (entry # Nothing => entry.of = user) /\ (reading # Nothing => reading.by = user)

LEMMA LeftoverStep ==
  ASSUME ScreensTyped, LeftoverInv, [ScreensNext]_screensVars
  PROVE  LeftoverInv'
<1>t. /\ user # NoUser => user \in User
      /\ entry \in Cached \cup {Nothing} /\ reading \in Request \cup {Nothing}
      /\ reading # Nothing => reading.by = reading.under
      /\ user = NoUser <=> page = "outside"
      /\ "outside" \notin pair.mounts
  BY PairFacts DEF ScreensTyped, PlaceOk, CacheOk
<1>1. ASSUME NEW u \in User, SignIn(u)  PROVE LeftoverInv'
  BY <1>1 DEF SignIn, LeftoverInv
<1>2. CASE SignOut
  BY <1>2 DEF SignOut, LeftoverInv
<1>3. ASSUME user' = user, landed' = landed, entry' = entry, user # NoUser,
             reading' \in {Asked(user), reading, Nothing}
      PROVE  LeftoverInv'
  BY <1>3, <1>t, AskedFacts DEF LeftoverInv
<1>4. ASSUME NEW p, Visit(p)  PROVE LeftoverInv'
  BY <1>3, <1>4 DEF Visit, Mounting
<1>5. CASE Reload
  <2>1. /\ user' = user /\ user # NoUser /\ entry' = Nothing /\ reading' \in {Asked(user), Nothing}
    BY <1>5 DEF Reload
  <2> QED BY <2>1, <1>t, AskedFacts DEF LeftoverInv
<1>6. CASE Focus
  BY <1>3, <1>6 DEF Focus
<1>7. CASE Succeed
  <2>1. user' = user /\ landed' = landed
    BY <1>7 DEF Succeed
  <2>2. CASE Invalidated
    <3>1. entry' # Nothing => entry # Nothing /\ entry'.of = entry.of
      BY <2>2, <1>t DEF Invalidated, Cached
    <3>2. reading' # Nothing => (Mounts(page) /\ reading' = Asked(user))
                                \/ (reading # Nothing /\ reading'.by = reading.by)
      BY <2>2, <1>t DEF Invalidated, Request
    <3>3. Mounts(page) => user \in User
      BY <1>t DEF Mounts
    <3> QED BY <2>1, <3>1, <3>2, <3>3, AskedFacts DEF LeftoverInv
  <2>3. CASE UNCHANGED <<entry, reading>>
    BY <2>1, <2>3 DEF LeftoverInv
  <2> QED BY <1>7, <2>2, <2>3 DEF Succeed
<1>8. CASE Read
  <2>1. /\ user' = user /\ landed' = landed /\ entry' = entry /\ reading # Nothing
        /\ reading' = [reading EXCEPT !.row = row[reading.by]]
    BY <1>8 DEF Read
  <2>2. reading'.by = reading.by
    BY <2>1, <1>t DEF Request
  <2> QED BY <2>1, <2>2 DEF LeftoverInv
<1>9. CASE Land
  <2>1. /\ user' = user /\ reading # Nothing /\ reading' = Nothing
        /\ entry' = [of |-> reading.by, row |-> reading.row, fresh |-> TRUE]
        /\ landed' <=> (landed \/ (user # NoUser /\ reading.under = user))
    BY <1>9 DEF Land
  <2>2. entry'.of = reading.by
    BY <2>1
  <2> QED BY <2>1, <2>2, <1>t DEF LeftoverInv
<1>10. CASE GrowOld
  <2>1. /\ user' = user /\ landed' = landed /\ reading' = reading /\ entry # Nothing
        /\ entry' = [entry EXCEPT !.fresh = FALSE]
    BY <1>10 DEF GrowOld
  <2>2. entry'.of = entry.of
    BY <2>1, <1>t DEF Cached
  <2> QED BY <2>1, <2>2 DEF LeftoverInv
<1>11. CASE Fail
  BY <1>11 DEF Fail, LeftoverInv
<1>12. CASE UNCHANGED <<user, landed, entry, reading>>
  BY <1>12 DEF LeftoverInv
<1> QED
  BY <1>1, <1>2, <1>4, <1>5, <1>6, <1>7, <1>8, <1>9, <1>10, <1>11, <1>12
     DEF ScreensNext, screensVars, OtherWrites, StartEdit, Type, Send, UserWritten, Accept,
         Refuse, EndUnheard, LoseAnswer

\* OthersDataIsLeftover: handleSignOut leaves the cache as it was, but once an
\* answer of whoever is signed in has landed, no other's comes on the screen.
THEOREM OthersDataGoes == ScreensSpec => []OthersDataIsLeftover
<1>1. ScreensInit => LeftoverInv
  BY DEF ScreensInit, LeftoverInv
<1>2. ScreensTyped /\ LeftoverInv /\ [ScreensNext]_screensVars => LeftoverInv'
  BY LeftoverStep
<1>3. LeftoverInv => OthersDataIsLeftover
  BY DEF LeftoverInv, OthersDataIsLeftover
<1> QED
  BY <1>1, <1>2, <1>3, ScreensTypedHolds, PTL DEF ScreensSpec

(***************************************************************************)
(* What a form holds and a save sends.                                     *)
(***************************************************************************)

\* A form that is filled anew holds what is on the screen, and so does what it sent
\* when it was sent; an empty one is there before any answer.
FormInv ==
  pair.fillOnce = {} =>
    /\ form # Nothing =>
         page \in pair.follow
           /\ IF form = Unfilled THEN entry = Nothing ELSE entry # Nothing /\ Of(form) = Of(entry)
    /\ mutation # Nothing /\ mutation.base # Nothing => mutation.base = mutation.screen

LEMMA FormInvStep ==
  ASSUME ScreensTyped, FormInv, [ScreensNext]_screensVars
  PROVE  FormInv'
<1> SUFFICES ASSUME pair.fillOnce = {}, pair' = pair  PROVE FormInv'
  <2>1. pair' = pair
    BY DEF ScreensNext, screensVars, SignIn, OtherWrites, SignOut, Reload, Focus, StartEdit,
       Type, Send, UserWritten, Visit, Accept, Refuse, Succeed, EndUnheard, LoseAnswer, Read,
       Land, Fail, GrowOld
  <2> QED BY <2>1 DEF FormInv
<1>t. /\ entry \in Cached \cup {Nothing} /\ reading \in Request \cup {Nothing}
      /\ mutation \in Sending \cup {Nothing} /\ form \in Draft \cup {Nothing}
      /\ user = NoUser => form = Nothing
      /\ pair.settled \cup pair.always \subseteq pair.follow
  BY PairFacts DEF ScreensTyped, CacheOk, WorkOk, PlaceOk
<1> DEFINE FormOk ==
             form # Nothing =>
               page \in pair.follow
                 /\ IF form = Unfilled THEN entry = Nothing ELSE entry # Nothing /\ Of(form) = Of(entry)
           SentOk == mutation # Nothing /\ mutation.base # Nothing => mutation.base = mutation.screen
<1>f. FormOk /\ SentOk
  BY DEF FormInv
<1>g. FormOk' /\ SentOk' => FormInv'
  BY DEF FormInv
<1>b. ASSUME NEW answer \in Cached  PROVE Of(Unfilled) # Of(answer)
  BY <1>b, Distinct DEF Of, Unfilled, Cached
<1>1. SentOk'
  <2>1. CASE Send
    <3>1. /\ mutation'.base = IF form \in {Nothing, Unfilled} THEN Nothing ELSE Of(form)
          /\ mutation'.screen = IF entry = Nothing THEN Nothing ELSE Of(entry)
      BY <2>1 DEF Send
    <3> QED BY <3>1, <1>f
  <2>2. CASE Reload \/ LoseAnswer \/ Accept \/ Refuse
    <3>1. mutation' # Nothing => mutation # Nothing /\ mutation'.base = mutation.base
                                   /\ mutation'.screen = mutation.screen
      BY <2>2, <1>t DEF Reload, LoseAnswer, Accept, Refuse, Sending
    <3> QED BY <3>1, <1>f
  <2>3. CASE mutation' \in {mutation, Nothing}
    BY <2>3, <1>f
  <2> QED
    BY <2>1, <2>2, <2>3 DEF ScreensNext, screensVars, SignIn, OtherWrites, SignOut, Focus,
       StartEdit, Type, Visit, UserWritten, Succeed, EndUnheard, Read, Land, Fail, GrowOld
<1>2. FormOk'
  <2>1. ASSUME NEW u \in User, SignIn(u)  PROVE FormOk'
    BY <2>1, <1>t DEF SignIn
  <2>2. CASE SignOut \/ Reload
    BY <2>2 DEF SignOut, Reload
  <2>3. ASSUME NEW p, Visit(p)  PROVE FormOk'
    <3>1. page' = p /\ entry' = entry /\ form' = Filled(p, entry, Nothing)
      BY <2>3 DEF Visit
    <3>2. \/ Filled(p, entry, Nothing) = Nothing
          \/ p \in pair.follow /\ entry # Nothing /\ Of(Filled(p, entry, Nothing)) = Of(entry)
      BY <1>t, FilledFacts
    <3>3. form' # Nothing => p \in pair.follow /\ entry # Nothing /\ Of(form') = Of(entry)
      BY <3>1, <3>2
    <3> QED BY <3>1, <3>3, <1>b, <1>t
  <2>4. CASE StartEdit
    BY <2>4 DEF StartEdit
  <2>5. CASE Type
    <3>1. /\ page' = page /\ entry' = entry /\ FormShown
          /\ form' = IF form \in {Nothing, Unfilled} THEN Unfilled ELSE [form EXCEPT !.typed = TRUE]
      BY <2>5 DEF Type
    <3>2. CASE form = Nothing
      BY <3>1, <3>2, <1>t DEF FormShown
    <3>3. CASE form = Unfilled
      <4>1. form' = Unfilled
        BY <3>1, <3>3
      <4> QED BY <3>1, <3>3, <4>1, <1>t, <1>f
    <3>4. CASE form \notin {Nothing, Unfilled}
      <4>1. form' \in Draft /\ Of(form') = Of(form)
        BY <3>1, <3>4, <1>t DEF Of, Draft
      <4> QED BY <3>1, <3>4, <4>1, <1>b, <1>f, <1>t
    <3> QED BY <3>2, <3>3, <3>4
  <2>6. CASE Land
    <3> DEFINE answer == [of |-> reading.by, row |-> reading.row, fresh |-> TRUE]
    <3>1. /\ page' = page /\ reading \in Request /\ reading.row # Nothing
          /\ entry' = answer /\ form' = Filled(page, answer, form)
      BY <2>6, <1>t DEF Land
    <3>2. answer \in Cached /\ answer # Nothing
      BY <3>1, Distinct DEF Request, Cached
    <3> HIDE DEF answer
    <3>3. \/ form' = form /\ (page \in pair.follow => form # Nothing /\ Of(form) = Of(answer))
          \/ form' \in Draft /\ page \in pair.follow /\ Of(form') = Of(answer)
      BY <3>1, <3>2, <1>t, FilledFacts
    <3>4. Of(Unfilled) # Of(answer)
      BY <3>2, <1>b
    <3> QED BY <3>1, <3>2, <3>3, <3>4, <1>f
  <2>7. ASSUME page' = page, form' \in {form, Refilled},
               entry' = (IF entry = Nothing THEN Nothing ELSE [entry EXCEPT !.fresh = FALSE])
        PROVE  FormOk'
    <3>1. entry # Nothing => entry' \in Cached /\ Of(entry') = Of(entry)
      BY <2>7, <1>t DEF Of, Cached
    <3>2. CASE form' = form
      BY <3>1, <3>2, <2>7, <1>f, Distinct
    <3>3. CASE form' = Refilled
      BY <3>1, <3>3, <2>7, <1>f, <1>t, <1>b, Distinct, RefilledFacts
    <3> QED BY <2>7, <3>2, <3>3
  <2>11. ASSUME page' = page, form' = Refilled, entry' = entry  PROVE FormOk'
    BY <2>11, <1>f, <1>t, <1>b, RefilledFacts
  <2>8. CASE Succeed
    <3>1. page' = page /\ form' = Refilled
      BY <2>8 DEF Succeed
    <3>2. CASE Invalidated
      BY <2>7, <3>1, <3>2 DEF Invalidated
    <3>3. CASE UNCHANGED <<entry, reading>>
      BY <2>11, <3>1, <3>3
    <3> QED BY <2>8, <3>2, <3>3 DEF Succeed
  <2>12. CASE UserWritten
    BY <2>11, <2>12 DEF UserWritten
  <2>9. CASE GrowOld
    BY <2>7, <2>9 DEF GrowOld
  <2>10. CASE UNCHANGED <<page, form, entry>>
    BY <1>f, <2>10
  <2> QED
    BY <2>1, <2>2, <2>3, <2>4, <2>5, <2>6, <2>8, <2>9, <2>10, <2>12 DEF ScreensNext, screensVars,
       OtherWrites, Focus, Send, Accept, Refuse, EndUnheard, LoseAnswer, Read, Fail
<1> QED
  BY <1>1, <1>2, <1>g

LEMMA FormInvHolds == ScreensSpec => []FormInv
<1>1. ScreensInit => FormInv
  BY DEF ScreensInit, FormInv
<1>2. ScreensTyped /\ FormInv /\ [ScreensNext]_screensVars => FormInv'
  BY FormInvStep
<1> QED
  BY <1>1, <1>2, ScreensTypedHolds, PTL DEF ScreensSpec

\* SavesWhatIsShown: what a save overwrites unseen was not on the screen yet when
\* it was sent, unless the page fills its form once (admin products).
THEOREM SavesAreOfWhatIsShown == ScreensSpec => SavesWhatIsShown
<1>1. ASSUME ScreensTyped, FormInv, [ScreensNext]_screensVars, NEW u \in User,
             row'[u].own > row[u].own, mutation.base # Nothing
      PROVE  mutation.base = mutation.screen \/ pair.fillOnce # {}
  <2>t. row \in [User -> Written] /\ mutation \in Sending \cup {Nothing} /\ MaxOwn \in Nat
    BY <1>1, ScreensAssumption DEF ScreensTyped, WorkOk
  <2>1. mutation # Nothing
    <3>1. CASE Accept
      BY <3>1 DEF Accept
    <3>2. ASSUME NEW v \in User, OtherWrites(v)  PROVE row'[u].own = row[u].own
      BY <2>t, <3>2 DEF OtherWrites, Written
    <3>3. ASSUME UNCHANGED row  PROVE row'[u].own = row[u].own
      BY <3>3
    <3>4. row[u].own \in Int
      BY <2>t DEF Written
    <3> QED
      BY <1>1, <3>1, <3>2, <3>3, <3>4 DEF ScreensNext, screensVars, SignIn, SignOut, Reload,
         Focus, StartEdit, Type, Send, UserWritten, Visit, Refuse, Succeed, EndUnheard,
         LoseAnswer, Read, Land, Fail, GrowOld
  <2> QED BY <1>1, <2>1 DEF FormInv
<1>2. ScreensTyped /\ FormInv /\ [ScreensNext]_screensVars =>
        [\A u \in User :
           row'[u].own > row[u].own /\ mutation.base # Nothing /\ mutation.base.row # row[u]
             => mutation.base = mutation.screen \/ pair.fillOnce # {}]_screensVars
  BY <1>1
<1> QED
  BY <1>2, ScreensTypedHolds, FormInvHolds, PTL DEF ScreensSpec, SavesWhatIsShown

\* TypedTextLossHasACause: useForm({values}) and the effects like it throw away what
\* was typed only for an answer that differs from what the form was filled with, or,
\* on the customer's profile, when the store's user is written.
THEOREM TypedTextStays == ScreensSpec => TypedTextLossHasACause
<1>1. ASSUME ScreensTyped, [ScreensNext]_screensVars,
             form # Nothing, form.typed, page' = page, ~Reload
      PROVE  \/ form' = form
             \/ form' # Nothing /\ Of(form') # Of(form)
             \/ page \in pair.refill /\ (Succeed \/ UserWritten)
  <2>t. /\ form \in Draft /\ entry \in Cached \cup {Nothing} /\ reading \in Request \cup {Nothing}
        /\ user = NoUser => form = Nothing
        /\ user = NoUser <=> page = "outside"
    BY <1>1 DEF ScreensTyped, CacheOk, WorkOk, PlaceOk
  <2>1. CASE SignOut \/ StartEdit
    BY <1>1, <2>1, <2>t DEF SignOut, StartEdit
  <2>2. ASSUME NEW p, Visit(p)  PROVE FALSE
    BY <1>1, <2>2 DEF Visit
  <2>3. CASE Type
    <3>1. form' = IF form = Unfilled THEN form ELSE [form EXCEPT !.typed = TRUE]
      BY <1>1, <2>3 DEF Type
    <3>2. form' = form
      BY <1>1, <2>t, <3>1 DEF Draft
    <3> QED BY <3>2
  <2>4. CASE Land
    <3> DEFINE answer == [of |-> reading.by, row |-> reading.row, fresh |-> TRUE]
    <3>1. /\ reading \in Request /\ reading.row # Nothing /\ form' = Filled(page, answer, form)
      BY <2>4, <2>t DEF Land
    <3>2. answer \in Cached
      BY <3>1 DEF Request, Cached
    <3> HIDE DEF answer
    <3>3. \/ Filled(page, answer, form) = form
          \/ /\ Filled(page, answer, form) \in Draft
             /\ Of(Filled(page, answer, form)) = Of(answer) /\ Of(form) # Of(answer)
      BY <1>1, <2>t, <3>2, FilledFacts
    <3> QED BY <1>1, <3>1, <3>3, Distinct
  <2>5. CASE form' = form
    BY <1>1, <2>5
  <2>6. CASE Succeed \/ UserWritten
    <3>1. form' = Refilled
      BY <2>6 DEF Succeed, UserWritten
    <3>2. page \notin pair.refill => form' = form
      BY <3>1 DEF Refilled
    <3> QED BY <2>6, <3>2
  <2> QED
    BY <1>1, <2>1, <2>2, <2>3, <2>4, <2>5, <2>6 DEF ScreensNext, screensVars, SignIn,
       OtherWrites, Focus, Send, Accept, Refuse, EndUnheard, LoseAnswer, Read, Fail, GrowOld
<1>2. ScreensTyped /\ [ScreensNext]_screensVars =>
        [form # Nothing /\ form.typed /\ page' = page /\ ~Reload
           => \/ form' = form
              \/ form' # Nothing /\ Of(form') # Of(form)
              \/ page \in pair.refill /\ (Succeed \/ UserWritten)]_screensVars
  BY <1>1
<1> QED
  BY <1>2, ScreensTypedHolds, PTL DEF ScreensSpec, TypedTextLossHasACause

(***************************************************************************)
(* A user's own changes.                                                   *)
(***************************************************************************)

\* The followed change of u has happened and its onSuccess is to come.
Answering(u) == mutation # Nothing /\ mutation.by = u /\ mutation.at = "done"

Older(answer, u) == answer.row.own < row[u].own

\* What has been read and is older than the user's own change will be
\* announced, or it was read too early and known to be.
ReadOk ==
  reading # Nothing /\ reading.row # Nothing /\ Older(reading, reading.by) =>
    reading.passed \/ Answering(reading.by) \/ excuse # {}

\* So is what is cached, or it is stale and, on its pages, being read again.
ShownOk ==
  user # NoUser /\ entry # Nothing /\ entry.of = user /\ Older(entry, user) =>
    \/ excuse # {} \/ Answering(user)
    \/ ~entry.fresh /\ (Mounts(page) => reading # Nothing)

OwnInv == pair.stales => ReadOk /\ ShownOk

LEMMA OwnStep ==
  ASSUME ScreensTyped, OwnInv, [ScreensNext]_screensVars
  PROVE  OwnInv'
<1>c. pair' = pair
  BY DEF ScreensNext, screensVars, SignIn, OtherWrites, SignOut, Reload, Focus, StartEdit,
     Type, Send, UserWritten, Visit, Accept, Refuse, Succeed, EndUnheard, LoseAnswer, Read,
     Land, Fail, GrowOld
<1> SUFFICES ASSUME pair.stales  PROVE ReadOk' /\ ShownOk'
  BY <1>c DEF OwnInv
<1>i. ReadOk /\ ShownOk
  BY DEF OwnInv
<1>t. /\ entry \in Cached \cup {Nothing} /\ reading \in Request \cup {Nothing}
      /\ mutation \in Sending \cup {Nothing} /\ row \in [User -> Written]
      /\ entry # Nothing => entry.of \in been
      /\ reading # Nothing => reading.by \in been
      /\ been \subseteq User /\ (user # NoUser => user \in User)
      /\ user = NoUser <=> page = "outside"
      /\ "outside" \notin pair.mounts
  BY PairFacts DEF ScreensTyped, CacheOk, WorkOk, PlaceOk
<1>1. ASSUME NEW u \in User, SignIn(u)  PROVE ReadOk' /\ ShownOk'
  <2>1. /\ u \notin been /\ user' = u /\ reading' \in {Asked(u), reading}
        /\ UNCHANGED <<pair, entry, mutation, row, excuse>>
    BY <1>1 DEF SignIn
  <2>2. ReadOk'
    BY <2>1, <1>i, AskedFacts DEF ReadOk, Answering, Older
  <2> QED BY <2>1, <2>2, <1>t DEF ShownOk
<1>2. CASE SignOut
  BY <1>2, <1>i DEF SignOut, ReadOk, ShownOk, Answering, Older
<1>3. ASSUME NEW p, Visit(p)  PROVE ReadOk' /\ ShownOk'
  <2>1. /\ user # NoUser /\ user' = user /\ page' = p /\ reading' = Mounting(p, user, entry)
        /\ UNCHANGED <<pair, entry, mutation, row, excuse>>
    BY <1>3 DEF Visit
  <2>2. reading' \in {Asked(user), reading}
    BY <2>1 DEF Mounting
  <2>3. ReadOk'
    BY <2>1, <2>2, <1>i, <1>t, AskedFacts DEF ReadOk, Answering, Older
  <2>4. ASSUME entry # Nothing, ~entry.fresh, Mounts(page) => reading # Nothing, Mounts(p)
        PROVE  reading' # Nothing
    <3>1. CASE p \in pair.mounts
      BY <2>1, <2>4, <3>1, <1>t, AskedFacts DEF Mounting, Old
    <3>2. CASE pair.layout
      BY <2>1, <2>2, <2>4, <3>2, <1>t, AskedFacts DEF Mounts
    <3> QED BY <2>4, <3>1, <3>2 DEF Mounts
  <2>5. Mounts(page)' <=> Mounts(p)
    BY <2>1 DEF Mounts
  <2>6. ShownOk'
    BY <2>1, <2>4, <2>5, <1>i DEF ShownOk, Answering, Older
  <2> QED BY <2>3, <2>6
<1>4. CASE Reload
  <2>1. /\ user # NoUser /\ entry' = Nothing /\ reading' \in {Asked(user), Nothing}
    BY <1>4 DEF Reload
  <2> QED BY <2>1, <1>t, AskedFacts DEF ReadOk, ShownOk
<1>5. CASE Focus
  <2>1. /\ user # NoUser /\ reading' = Asked(user)
        /\ UNCHANGED <<pair, user, page, entry, mutation, row, excuse>>
    BY <1>5 DEF Focus
  <2>2. Mounts(page)' <=> Mounts(page)
    BY <2>1 DEF Mounts
  <2> QED BY <2>1, <2>2, <1>i, <1>t, AskedFacts DEF ReadOk, ShownOk, Answering, Older
<1>6. CASE Send
  <2>1. /\ mutation = Nothing
        /\ UNCHANGED <<pair, user, page, entry, reading, row, excuse>>
    BY <1>6 DEF Send
  <2>2. ~Answering(user) /\ (reading # Nothing => ~Answering(reading.by))
    BY <2>1 DEF Answering
  <2>3. Mounts(page)' <=> Mounts(page)
    BY <2>1 DEF Mounts
  <2> QED BY <2>1, <2>2, <2>3, <1>i DEF ReadOk, ShownOk, Older
<1>7. CASE Accept
  <2>1. /\ mutation # Nothing /\ mutation' = [mutation EXCEPT !.at = "done"]
        /\ row' = [row EXCEPT ![mutation.by].own = @ + 1]
        /\ UNCHANGED <<pair, user, page, entry, reading, excuse>>
    BY <1>7 DEF Accept
  <2>2. /\ mutation' # Nothing /\ mutation'.by = mutation.by /\ mutation'.at = "done"
        /\ mutation.by \in User
    <3>1. mutation' \in Sending
      BY <2>1, <1>t DEF Sending
    <3> QED BY <2>1, <3>1, <1>t, Distinct DEF Sending
  <2>3. \A u \in User : u # mutation.by => row'[u] = row[u]
    BY <2>1, <1>t
  <2>4. \A u \in User : Answering(u) => Answering(u)'
    BY <2>2 DEF Answering
  <2>5. Answering(mutation.by)'
    BY <2>2 DEF Answering
  <2> HIDE DEF Answering
  <2>6. Mounts(page)' <=> Mounts(page)
    BY <2>1 DEF Mounts
  <2>7. ReadOk'
    <3>1. CASE reading # Nothing /\ reading.by # mutation.by
      BY <2>1, <2>3, <3>1, <1>i, <1>t, <2>2 DEF ReadOk, Older, Answering
    <3>2. CASE reading # Nothing /\ reading.by = mutation.by
      BY <2>1, <2>2, <3>2 DEF ReadOk, Answering
    <3>3. CASE reading = Nothing
      BY <2>1, <3>3 DEF ReadOk
    <3> QED BY <3>1, <3>2, <3>3
  <2>8. ShownOk'
    <3>1. CASE user # mutation.by /\ user # NoUser
      BY <2>1, <2>2, <2>3, <2>6, <3>1, <1>i, <1>t DEF ShownOk, Older, Answering
    <3>2. CASE user = mutation.by
      BY <2>1, <2>2, <3>2 DEF ShownOk, Answering
    <3>3. CASE user = NoUser
      BY <2>1, <3>3 DEF ShownOk
    <3> QED BY <3>1, <3>2, <3>3
  <2> QED BY <2>7, <2>8
<1>8. CASE Refuse \/ LoseAnswer
  <2>1. /\ UNCHANGED <<pair, user, page, entry, reading, row, excuse>>
        /\ mutation # Nothing
        /\ mutation' \in {[mutation EXCEPT !.at = "refused"], [mutation EXCEPT !.heard = FALSE]}
        /\ mutation.at = "done" => mutation' = [mutation EXCEPT !.heard = FALSE]
    BY <1>8 DEF Refuse, LoseAnswer
  <2>2. mutation' # Nothing /\ mutation'.by = mutation.by
        /\ (mutation.at = "done" => mutation'.at = "done")
    <3>1. mutation' \in Sending
      BY <2>1, <1>t DEF Sending
    <3> QED BY <2>1, <3>1, <1>t, Distinct DEF Sending
  <2>3. Mounts(page)' <=> Mounts(page)
    BY <2>1 DEF Mounts
  <2> QED BY <2>1, <2>2, <2>3, <1>i DEF ReadOk, ShownOk, Answering, Older
<1>9. CASE Succeed
  <2>1. /\ Invalidated /\ UNCHANGED <<pair, user, page, row, excuse>>
    BY <1>9 DEF Succeed
  <2>2. entry' # Nothing => entry # Nothing /\ entry'.of = entry.of /\ entry'.row = entry.row
                              /\ ~entry'.fresh
    BY <2>1, <1>t DEF Invalidated, Cached
  <2>3. Mounts(page)' <=> Mounts(page)
    BY <2>1 DEF Mounts
  <2>4. CASE Mounts(page)
    <3>1. user \in User /\ reading' = Asked(user)
      BY <2>1, <2>4, <1>t DEF Mounts, Invalidated
    <3> QED BY <2>2, <3>1, AskedFacts DEF ReadOk, ShownOk
  <2>5. CASE ~Mounts(page)
    <3>1. reading' # Nothing => reading'.passed
      BY <2>1, <2>5, <1>t DEF Invalidated, Request
    <3> QED BY <2>2, <2>3, <2>5, <3>1 DEF ReadOk, ShownOk
  <2> QED BY <2>4, <2>5
<1>10. CASE EndUnheard
  <2>1. /\ mutation # Nothing /\ mutation' = Nothing
        /\ UNCHANGED <<pair, user, page, entry, reading, row>>
        /\ mutation.at = "done" => excuse' # {}
        /\ mutation.at # "done" => excuse' = excuse
    BY <1>10 DEF EndUnheard
  <2>2. Mounts(page)' <=> Mounts(page)
    BY <2>1 DEF Mounts
  <2> QED BY <2>1, <2>2, <1>i DEF ReadOk, ShownOk, Answering, Older
<1>11. CASE Read
  <2>1. /\ reading # Nothing /\ reading.row = Nothing
        /\ reading' = [reading EXCEPT !.row = row[reading.by]]
        /\ UNCHANGED <<pair, user, page, entry, mutation, row, excuse>>
    BY <1>11 DEF Read
  <2>2. reading.by \in User /\ row[reading.by] \in Written
    BY <2>1, <1>t
  <2>3. reading' \in Request /\ reading'.by = reading.by /\ reading'.row = row[reading.by]
    BY <2>1, <2>2, <1>t DEF Request
  <2>4. ~(reading'.row.own < row[reading'.by].own)
    BY <2>2, <2>3 DEF Written
  <2>5. Mounts(page)' <=> Mounts(page)
    BY <2>1 DEF Mounts
  <2> QED BY <2>1, <2>3, <2>4, <2>5, <1>i, Distinct DEF ReadOk, ShownOk, Answering, Older
<1>12. CASE Land
  <2>1. /\ reading # Nothing /\ reading.row # Nothing /\ reading' = Nothing
        /\ entry' = [of |-> reading.by, row |-> reading.row, fresh |-> TRUE]
        /\ excuse' = IF reading.row.own = row[reading.by].own THEN {}
                     ELSE IF reading.passed THEN excuse \cup {"late"} ELSE excuse
        /\ UNCHANGED <<pair, user, page, mutation, row>>
    BY <1>12 DEF Land
  <2>2. reading.row \in Written /\ row[reading.by] \in Written /\ reading.by \in User
    BY <2>1, <1>t DEF Request
  <2>3. entry'.of = reading.by /\ entry'.row = reading.row
    BY <2>1
  <2>4. PICK u \in User : u = reading.by
    BY <2>2
  <2>5. Answering(u)' <=> Answering(u)
    BY <2>1 DEF Answering
  <2>6. ASSUME reading.row.own < row[u].own  PROVE excuse' # {} \/ Answering(u)'
    <3>1. reading.row.own # row[reading.by].own
      BY <2>2, <2>4, <2>6 DEF Written
    <3>2. reading.passed \/ Answering(u) \/ excuse # {}
      BY <2>1, <2>4, <2>6, <1>i DEF ReadOk, Older
    <3> QED BY <2>1, <2>5, <3>1, <3>2
  <2>7. ShownOk'
    <3>1. entry'.of = u /\ entry'.row = reading.row /\ row' = row
      BY <2>1, <2>3, <2>4
    <3> QED BY <2>6, <3>1 DEF ShownOk, Answering, Older
  <2> QED BY <2>1, <2>7 DEF ReadOk
<1>13. CASE Fail
  <2>1. reading' = Nothing /\ excuse' # {}
    BY <1>13 DEF Fail
  <2> QED BY <2>1 DEF ReadOk, ShownOk
<1>14. CASE GrowOld
  <2>1. /\ entry # Nothing /\ entry' = [entry EXCEPT !.fresh = FALSE]
        /\ UNCHANGED <<pair, user, page, reading, mutation, row, excuse>>
    BY <1>14 DEF GrowOld
  <2>2. entry'.of = entry.of /\ entry'.row = entry.row /\ ~entry'.fresh
    BY <2>1, <1>t DEF Cached
  <2>3. Mounts(page)' <=> Mounts(page)
    BY <2>1 DEF Mounts
  <2> QED BY <2>1, <2>2, <2>3, <1>i DEF ReadOk, ShownOk, Answering, Older
<1>15. ASSUME NEW u \in User, OtherWrites(u)  PROVE ReadOk' /\ ShownOk'
  <2>1. /\ row' = [row EXCEPT ![u].other = @ + 1]
        /\ UNCHANGED <<pair, user, page, entry, reading, mutation, excuse>>
    BY <1>15 DEF OtherWrites
  <2>2. \A v \in User : row'[v].own = row[v].own
    BY <2>1, <1>t DEF Written
  <2>3. Mounts(page)' <=> Mounts(page)
    BY <2>1 DEF Mounts
  <2>4. ReadOk'
    BY <2>1, <2>2, <1>i, <1>t DEF ReadOk, Answering, Older
  <2>5. ShownOk'
    BY <2>1, <2>2, <2>3, <1>i, <1>t DEF ShownOk, Answering, Older
  <2> QED BY <2>4, <2>5
<1>16. CASE UNCHANGED <<user, page, entry, reading, mutation, row, excuse>>
  <2>1. Mounts(page)' <=> Mounts(page)
    BY <1>c, <1>16 DEF Mounts
  <2> QED BY <2>1, <1>16, <1>i DEF ReadOk, ShownOk, Answering, Older
<1> QED
  BY <1>1, <1>2, <1>3, <1>4, <1>5, <1>6, <1>7, <1>8, <1>9, <1>10, <1>11, <1>12, <1>13, <1>14,
     <1>15, <1>16 DEF ScreensNext, screensVars, StartEdit, Type, UserWritten

\* OwnChangesShow: a page at rest shows each of its user's own changes, but for the
\* pairs whose invalidateQueries is missing, a lost answer, a failed read or a
\* read that crossed the change; with both features of the frontend switched on.
THEOREM OwnChangesAreShown ==
  ASSUME SubscriptionFlow, Billing
  PROVE  ScreensSpec => []OwnChangesShow
<1>1. ScreensInit => OwnInv
  BY DEF ScreensInit, OwnInv, ReadOk, ShownOk
<1>2. ScreensTyped /\ OwnInv /\ [ScreensNext]_screensVars => OwnInv'
  BY OwnStep
<1>3. ScreensTyped /\ OwnInv => OwnChangesShow
  <2> SUFFICES ASSUME ScreensTyped, OwnInv, Lacks, Mounts(page), reading = Nothing,
                      mutation = Nothing, excuse = {}
               PROVE  <<pair.change, pair.query>> \in Forgotten
    BY DEF OwnChangesShow
  <2>1. ~pair.stales
    BY DEF OwnInv, ShownOk, Lacks, Answering, Older
  <2>2. pair \in Pair
    BY DEF ScreensTyped, PlaceOk
  <2> QED
    BY <2>1, <2>2, ForgottenIsExact
<1> QED
  BY <1>1, <1>2, <1>3, ScreensTypedHolds, PTL DEF ScreensSpec

=============================================================================
