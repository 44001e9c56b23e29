------------------------------ MODULE Calendar ------------------------------
(* Days of the week, which the schedules (Schedule) and the billing windows  *)
(* (BillingCycle) both reckon with.  A day is its number.                    *)
EXTENDS Integers

CONSTANT Sunday  \* a day that is a Sunday

\* JavaScript's getDay: 0 on Sundays, 6 on Saturdays.
Weekday(t) == (t - Sunday) % 7
=============================================================================
