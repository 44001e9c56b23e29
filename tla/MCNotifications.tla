-------------------------- MODULE MCNotifications --------------------------
(* An instance of Notifications for TLC.                                    *)
EXTENDS Notifications, TLC

CONSTANTS e1, e2, a, b

\* The instance is the union of two: two handlers that report the occasion
\* while no tab is open, and a tab with one handler that does not die, through two
\* changes, with two counts under way at a time.
NoTab == /\ stream = "down" /\ fetch = NoFetch /\ cache = Blank /\ mark = "none"
         /\ \A i \in DOMAIN snap : snap[i] = Blank
Reading == Len(snap) + (IF fetch = NoFetch THEN 0 ELSE 1) + (IF stream = "asking" THEN 1 ELSE 0)
OneCall == /\ version <= 2 /\ Reading <= 2
           /\ call[b].pc = "new" /\ call[a].pc # "died"
           /\ e2 \in told \cup call[a].event => e1 \in told
Bounds == NoTab \/ OneCall
============================================================================
