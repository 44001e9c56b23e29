----------------------------- MODULE MCSession -----------------------------
(* Instances of Session for TLC: tab t1 makes calls and has a stream; t2    *)
(* only signs in and out and reloads, over the same localStorage.           *)
EXTENDS Session, TLC

CONSTANTS t1, t2, x, y, s

MCTabOf == [a \in Agent |-> t1]

\* After one answer lost or one row outlived, and after two kinds of presentation,
\* the run looks no further than the next of them (which is still checked).
Bounds ==
  /\ Cardinality(lost) + Cardinality(overdue) <= 1
  /\ Cardinality(presented) <= 2
============================================================================
