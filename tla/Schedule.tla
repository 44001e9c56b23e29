------------------------------ MODULE Schedule ------------------------------
(***************************************************************************)
(* subscription-schedule.service: the dates on which a subscription is due *)
(* between two days, loop by loop.  Generation asks for a single day, the  *)
(* previews for a range of weeks; both answers come from these loops.      *)
(* A day is its number in the calendar.  The calendar itself (JavaScript's *)
(* Date) is a constant: the first day of each month, the month of each     *)
(* day.  Hours, time zones and the formatting of dates are left out.       *)
(***************************************************************************)
EXTENDS Calendar

CONSTANTS
  Months,      \* bound: how many months the calendar has
  FirstOf,     \* the first day of each month, and of two more
  MonthOf,     \* the month of each day
  Start,       \* bound: the start dates,
  From,        \*        and the ends of the ranges asked for
  To

Day == 1 .. FirstOf[Months] - 1

Length(m) == FirstOf[m + 1] - FirstOf[m]

ASSUME CalendarConstants ==
  /\ Months \in Nat \ {0}
  /\ FirstOf \in [1 .. Months + 1 -> Nat \ {0}]
  /\ \A m \in 1 .. Months : Length(m) \in 28 .. 31
  /\ \A m, n \in 1 .. Months + 1 : m < n => FirstOf[m] < FirstOf[n]
  /\ MonthOf \in [Day -> 1 .. Months - 1]
  /\ \A d \in Day : FirstOf[MonthOf[d]] <= d /\ d < FirstOf[MonthOf[d] + 1]
  /\ Sunday \in Int
  /\ Start \subseteq Day /\ From \subseteq Day /\ To \subseteq Day

Frequency == {"DAILY", "ALTERNATE_DAY", "WEEKDAYS", "WEEKLY", "MONTHLY"}

VARIABLES
  ask,     \* the question: frequency, start date, range
  pc,      \* where the loop is
  cursor,  \* its cursor: a day, of collectMonthly the month it has come to
  dates    \* the days collected

vars == <<ask, pc, cursor, dates>>

TypeOK ==
  /\ ask \in [freq : Frequency, start : Day, from : Day, to : Day]
  /\ pc \in {"ask", "skip", "collect", "done"}
  /\ cursor \in Nat
  /\ ask.freq = "MONTHLY" /\ pc = "collect" => cursor \in 1 .. Months
  /\ dates \subseteq Day

Init ==
  /\ ask \in [freq : Frequency, start : Start, from : From, to : To]
  /\ pc = "ask"
  /\ cursor = 0
  /\ dates = {}

Later(d, e) == IF d < e THEN e ELSE d

DayOfMonth(d) == d - FirstOf[MonthOf[d]] + 1

\* Slip: the month overflows into the next, as Date does by itself.
Overflowing(m, day) == FirstOf[m] + day - 1

\* clampMonthDay.
Clamped(m, day) == FirstOf[m] + (IF day < Length(m) THEN day ELSE Length(m)) - 1

\* The first day from d on whose weekday is wd.
NextWeekday(d, wd) == d + ((wd - Weekday(d) + 7) % 7)

\* collectMonthly begins with the month of the range, or that of a later start.
FirstMonth(q) == MonthOf[IF q.from < q.start THEN q.start ELSE q.from]

FirstCursor(q) ==
  CASE q.freq \in {"DAILY", "WEEKDAYS"} -> Later(q.start, q.from)
    [] q.freq = "ALTERNATE_DAY" -> q.start
    [] q.freq = "WEEKLY" -> NextWeekday(Later(q.start, q.from), Weekday(q.start))
    [] q.freq = "MONTHLY" -> FirstMonth(q)

\* getDeliveryDates: an inverted range has no dates.
Begin ==
  /\ pc = "ask"
  /\ IF ask.to < ask.from
     THEN pc' = "done" /\ UNCHANGED cursor
     ELSE /\ pc' = IF ask.freq = "ALTERNATE_DAY" THEN "skip" ELSE "collect"
          /\ cursor' = FirstCursor(ask)
  /\ UNCHANGED <<ask, dates>>

\* collectAlternateDay's first loop, up to the range.
Skip ==
  /\ pc = "skip"
  /\ IF cursor < ask.from
     THEN cursor' = cursor + 2 /\ UNCHANGED pc
     ELSE pc' = "collect" /\ UNCHANGED cursor
  /\ UNCHANGED <<ask, dates>>

Stride(freq) ==
  CASE freq \in {"DAILY", "WEEKDAYS"} -> 1
    [] freq = "ALTERNATE_DAY" -> 2
    [] freq = "WEEKLY" -> 7

Wanted(freq, d) == freq = "WEEKDAYS" => Weekday(d) \in 1 .. 5

\* The loops of collectDaily, -AlternateDay, -Weekdays and -Weekly.
CollectDay ==
  /\ pc = "collect" /\ ask.freq # "MONTHLY"
  /\ IF cursor <= ask.to
     THEN /\ dates' = IF cursor >= ask.start /\ Wanted(ask.freq, cursor)
                      THEN dates \cup {cursor} ELSE dates
          /\ cursor' = cursor + Stride(ask.freq)
          /\ UNCHANGED pc
     ELSE pc' = "done" /\ UNCHANGED <<cursor, dates>>
  /\ UNCHANGED ask

\* The loop of collectMonthly.
CollectMonth ==
  LET candidate == Clamped(cursor, DayOfMonth(ask.start)) IN
  /\ pc = "collect" /\ ask.freq = "MONTHLY"
  /\ IF candidate <= ask.to
     THEN /\ dates' = IF candidate >= ask.start /\ candidate >= ask.from
                      THEN dates \cup {candidate} ELSE dates
          /\ cursor' = cursor + 1
          /\ UNCHANGED pc
     ELSE pc' = "done" /\ UNCHANGED <<cursor, dates>>
  /\ UNCHANGED ask

Next == Begin \/ Skip \/ CollectDay \/ CollectMonth

Spec == Init /\ [][Next]_vars

----------------------------------------------------------------------------
(* Properties.                                                             *)

\* What the frequencies mean: every day; every other day from the start; Monday
\* to Friday; the start's weekday; the start's day of the month, or the last of
\* a shorter month.
Due(freq, start, d) ==
  CASE freq = "DAILY" -> TRUE
    [] freq = "ALTERNATE_DAY" -> (d - start) % 2 = 0
    [] freq = "WEEKDAYS" -> Weekday(d) \in 1 .. 5
    [] freq = "WEEKLY" -> Weekday(d) = Weekday(start)
    [] freq = "MONTHLY" ->
         \/ DayOfMonth(d) = DayOfMonth(start)
         \/ DayOfMonth(d) < DayOfMonth(start) /\ DayOfMonth(d) = Length(MonthOf[d])

Between(d, q) == q.start <= d /\ q.from <= d /\ d <= q.to

\* A range is answered with exactly the days in it, not before the start, on which
\* the subscription is due: whether a day is delivered does not depend on the
\* range it is asked in, so the day's generation and the preview of weeks agree.
AnswersExactly ==
  pc = "done" => dates = {d \in Day : Between(d, ask) /\ Due(ask.freq, ask.start, d)}
============================================================================
