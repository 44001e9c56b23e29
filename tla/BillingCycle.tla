---------------------------- MODULE BillingCycle ---------------------------
(***************************************************************************)
(* Which day's deliveries the billing cycles reach.  jobs.service runs     *)
(* closeBillingCycles every day at 1 AM; it calls runCycle for one live    *)
(* distributor after the other, and runCycle bills what was delivered in   *)
(* the window getCycleWindow returns for that day.  Billing leaves the     *)
(* window open and has one distributor; here the window is computed, the   *)
(* distributors share the loop, and days go by.  Followed is one item per  *)
(* distributor, all of one date: delivered at once or marked days later.   *)
(***************************************************************************)
EXTENDS Calendar, FiniteSets, FiniteSetsExt

CONSTANTS
  Distributor,
  Setting,     \* bound: the billing settings each distributor may choose
  Late,        \* bound: days after its date an item of a distributor is marked
  Date,        \* bound: the dates of the items followed, as day numbers
  Horizon,     \* bound: days followed after the date
  FirstDay     \* the day numbers that are the first of a month

Anchor  == 0 .. 6
Cycle   == {"WEEKLY", "BI_WEEKLY", "MONTHLY"}
Setup   == [cycle : Cycle, anchor : Anchor]

ASSUME CycleAssumption ==
  /\ Setting \in [Distributor -> SUBSET Setup]
  /\ Late \in [Distributor -> SUBSET Nat]
  \* The first of July is in the window up to the end of August.
  /\ Date \subseteq Nat /\ Horizon \in Nat /\ Horizon >= 61
  /\ FirstDay \subseteq Int /\ Sunday \in Int
  \* The months are known from the one before a date to the horizon.
  /\ \A t \in Date : \A u \in t - 31 .. t + Horizon :
       \E f, g \in FirstDay :
         /\ f <= u /\ u < g /\ g - f \in 28 .. 31
         /\ \A h \in FirstDay : h <= f \/ g <= h

VARIABLES
  date,     \* the date of the items
  day,      \* today
  cron,     \* today's 1 AM run: "due", "running" or "done"
  todo,     \* the distributors still to come in the loop of the run
  setting,  \* billingCycle and biWeeklyAnchorDay of a distributor
  listed,   \* distributors that are GO_LIVE and identityVerified
  priced,   \* distributors with an active price for their item
  item,     \* the item of each distributor
  slack,    \* history: days it was marked late, plus runs that missed it
  changed   \* history: distributors whose setting changed since the date

cycleVars == <<date, day, cron, todo, setting, listed, priced, item, slack, changed>>

CycleTypeOK ==
  /\ date \in Date /\ day \in date .. date + Horizon
  /\ cron \in {"due", "running", "done"} /\ todo \subseteq Distributor
  /\ cron # "running" => todo = {}
  /\ \A d \in Distributor : setting[d] \in Setting[d]
  /\ listed \subseteq Distributor /\ priced \subseteq Distributor
  /\ item \in [Distributor -> {"PENDING", "DELIVERED", "BILLED"}]
  /\ slack \in [Distributor -> Nat] /\ changed \subseteq Distributor

\* The items are on today's list; the run of this morning is over.
CycleInit ==
  /\ date \in Date /\ day = date
  /\ cron = "done" /\ todo = {}
  /\ setting \in {f \in [Distributor -> UNION {Setting[d] : d \in Distributor}] :
                    \A d \in Distributor : f[d] \in Setting[d]}
  /\ listed = Distributor /\ priced \in SUBSET Distributor
  /\ item = [d \in Distributor |-> "PENDING"]
  /\ slack = [d \in Distributor |-> 0] /\ changed = {}

----------------------------------------------------------------------------
(* getCycleWindow.                                                         *)

MonthStart(t) == Max({f \in FirstDay : f <= t})

\* The calendar month before the reference.
PreviousMonth(ref) == LET end == MonthStart(ref) - 1 IN MonthStart(end) .. end

\* Slip: the day itself is taken for a week ago.
SinceAWeekAgo(anchor, ref) == LET n == (Weekday(ref) - anchor) % 7 IN IF n = 0 THEN 7 ELSE n

\* Days since the weekday anchor, none on the day itself.
Since(anchor, ref) == (Weekday(ref) - anchor) % 7

\* Slip: the first day of the window is a day late.
DaysAfter(end, n) == end - n + 2 .. end

\* The n days that end with day end, that one included.
DaysUpTo(end, n) == end - n + 1 .. end

Window(s, ref) ==
  CASE s.cycle = "MONTHLY"   -> PreviousMonth(ref)
    [] s.cycle = "BI_WEEKLY" -> DaysUpTo(ref - Since(s.anchor, ref), 14)
    [] s.cycle = "WEEKLY"    -> DaysUpTo(ref - Since(0, ref), 7)

\* What the query of runCycle finds: delivered, in the window, on no bill.
Found(d, ref) == item[d] = "DELIVERED" /\ date \in Window(setting[d], ref)

----------------------------------------------------------------------------
(* closeBillingCycles: the loop of runCycleForAllDistributors.             *)

\* History: the run of today misses the items of S it should have found.
Miss(S) ==
  slack' = [d \in Distributor |-> IF d \in S /\ Found(d, day) THEN slack[d] + 1 ELSE slack[d]]

\* A process that is down at 1 AM runs nothing later.
Midnight ==
  /\ cron # "running" /\ day < date + Horizon
  /\ day' = day + 1 /\ cron' = "due"
  /\ Miss(IF cron = "due" THEN Distributor ELSE {})
  /\ UNCHANGED <<date, todo, setting, listed, priced, item, changed>>

CronStart ==
  /\ cron = "due" /\ cron' = "running" /\ todo' = listed
  /\ Miss(Distributor \ listed)
  /\ UNCHANGED <<date, day, setting, listed, priced, item, changed>>

\* One runCycle: the findMany names no order of the distributors.
CronRun(d) ==
  /\ cron = "running" /\ d \in todo
  /\ Found(d, day) => d \in priced
  /\ item' = IF Found(d, day) THEN [item EXCEPT ![d] = "BILLED"] ELSE item
  /\ todo' = todo \ {d}
  /\ UNCHANGED <<date, day, cron, setting, listed, priced, slack, changed>>

\* resolveUnitPrice finds no price: the exception leaves the loop.
CronThrows(d) ==
  /\ cron = "running" /\ d \in todo
  /\ Found(d, day) /\ d \notin priced
  /\ todo' = {} /\ Miss(todo)
  /\ UNCHANGED <<date, day, cron, setting, listed, priced, item, changed>>

\* The process dies, or another query of the loop throws.
CronDies ==
  /\ cron = "running" /\ cron' = "done"
  /\ todo' = {} /\ Miss(todo)
  /\ UNCHANGED <<date, day, setting, listed, priced, item, changed>>

CronEnd ==
  /\ cron = "running" /\ todo = {} /\ cron' = "done"
  /\ UNCHANGED <<date, day, todo, setting, listed, priced, item, slack, changed>>

----------------------------------------------------------------------------
(* What the distributors do during the day, or while the loop goes on.     *)

\* delivery.service updateItem.
MarkDelivered(d) ==
  /\ item[d] = "PENDING" /\ day - date \in Late[d]
  /\ item' = [item EXCEPT ![d] = "DELIVERED"]
  /\ slack' = [slack EXCEPT ![d] = day - date]
  /\ UNCHANGED <<date, day, cron, todo, setting, listed, priced, changed>>

UpdateSettings(d, s) ==
  /\ s # setting[d]
  /\ setting' = [setting EXCEPT ![d] = s]
  /\ changed' = changed \cup {d}
  /\ UNCHANGED <<date, day, cron, todo, listed, priced, item, slack>>

\* POST run-cycle, for any reference date; without a price it fails.
RunByHand(d) ==
  /\ \E ref \in date .. date + Horizon : Found(d, ref)
  /\ d \in priced
  /\ item' = [item EXCEPT ![d] = "BILLED"]
  /\ UNCHANGED <<date, day, cron, todo, setting, listed, priced, slack, changed>>

\* A price is created, or switched off and on.
SwitchPrice(d) ==
  /\ priced' = IF d \in priced THEN priced \ {d} ELSE priced \cup {d}
  /\ UNCHANGED <<date, day, cron, todo, setting, listed, item, slack, changed>>

\* identityVerified comes and goes with the documents (module Onboarding).
SwitchListed(d) ==
  /\ listed' = IF d \in listed THEN listed \ {d} ELSE listed \cup {d}
  /\ UNCHANGED <<date, day, cron, todo, setting, priced, item, slack, changed>>

CycleNext ==
  \/ Midnight \/ CronStart \/ CronDies \/ CronEnd
  \/ \E d \in Distributor :
       \/ CronRun(d) \/ CronThrows(d)
       \/ MarkDelivered(d)
       \/ \E s \in Setting[d] : UpdateSettings(d, s)
       \/ RunByHand(d)
       \/ SwitchPrice(d) \/ SwitchListed(d)

CycleSpec == CycleInit /\ [][CycleNext]_cycleVars

----------------------------------------------------------------------------
(* Properties.                                                             *)

\* The runs that reach an item after its date, at least.
Grace(s) == CASE s.cycle = "WEEKLY" -> 6 [] s.cycle = "BI_WEEKLY" -> 13 [] s.cycle = "MONTHLY" -> 28

\* The days until a run finds an item that was delivered on its date, at most.
Closing(s) == IF s.cycle = "MONTHLY" THEN 31 ELSE 6

\* A run to come, perhaps today's, will find the item under the present cycle.
InReach(d) ==
  \E ref \in day .. date + Horizon :
    date \in Window(setting[d], ref) /\ (ref = day => cron # "done")

\* No delivered item falls between the windows: one that no later run will find
\* had its cycle changed, or the days it was marked late and the runs that did
\* not get to it (the process down or dying, the distributor not listed, no price
\* of his or of one before him in the loop) used up the cycle's grace.
LossIsExplained ==
  \A d \in Distributor :
    item[d] = "DELIVERED" /\ d \notin changed /\ slack[d] < Grace(setting[d]) => InReach(d)

\* An item delivered on its date is billed by the run that closes its cycle,
\* six days later or with the month, unless a run missed it or the cycle changed.
BilledByClosing ==
  \A d \in Distributor :
    item[d] = "DELIVERED" /\ slack[d] = 0 /\ d \notin changed /\ cron = "done" =>
      day < date + Closing(setting[d])
============================================================================
