----------------------------- MODULE MCSchedule -----------------------------
(* Instances of Schedule for TLC: December 2027 to April 2028, a leap year, *)
(* and two months more that only bound the loops.                           *)
EXTENDS Schedule

MCFirstOf == <<1, 32, 63, 92, 123, 153, 184>>

MCMonths == 6

MCMonthOf == [d \in 1 .. 152 |-> CHOOSE m \in 1 .. 5 : MCFirstOf[m] <= d /\ d < MCFirstOf[m + 1]]
============================================================================
