--------------------------- MODULE Calendar_proofs --------------------------
(***************************************************************************)
(* Proofs about Schedule and BillingCycle, for every calendar.             *)
(*                                                                         *)
(* Schedule: what has been collected is what is due before the cursor      *)
(* (Collected), and the cursor of the loops that stride over days is in    *)
(* phase with the start date (InPhase), so that no due day lies within a   *)
(* stride.                                                                 *)
(*                                                                         *)
(* BillingCycle: the runs that find a date are those of one stretch of     *)
(* days (Reaches), and the slack of an item counts those of them that are  *)
(* over (SlackOk).                                                         *)
(***************************************************************************)
EXTENDS Schedule, BillingCycle, TLAPS

Question == [freq : Frequency, start : Day, from : Day, to : Day]

Asked(d, q) == Between(d, q) /\ Due(q.freq, q.start, d)

DueBefore(q, d, c) == Asked(d, q) /\ IF q.freq = "MONTHLY" THEN MonthOf[d] < c ELSE d < c

Collected(q, c, D) == D \subseteq Day /\ \A d \in Day : d \in D <=> DueBefore(q, d, c)

InPhase(q, c) ==
  /\ c \in Nat
  /\ IF q.freq = "MONTHLY" THEN c \in 1 .. Months ELSE q.start <= c
  /\ q.freq = "ALTERNATE_DAY" => (c - q.start) % 2 = 0
  /\ q.freq = "WEEKLY" => Weekday(c) = Weekday(q.start)

InRange(q, c) == q.freq # "MONTHLY" => q.from <= c

LoopInv ==
  /\ TypeOK
  /\ pc = "ask" => dates = {}
  /\ pc \in {"skip", "collect"} =>
       ask.from <= ask.to /\ InPhase(ask, cursor) /\ Collected(ask, cursor, dates)
  /\ pc = "skip" => ask.freq = "ALTERNATE_DAY"
  /\ pc = "collect" => InRange(ask, cursor)
  /\ AnswersExactly

(***************************************************************************)
(* Weekdays and months.                                                    *)
(***************************************************************************)
LEMMA ModSeven ==
  /\ \A x \in Int : x % 7 \in 0 .. 6 /\ (x + 7) % 7 = x % 7
  /\ \A x \in Int, j \in 0 .. 6 :
       (x + j) % 7 = IF (x % 7) + j < 7 THEN (x % 7) + j ELSE (x % 7) + j - 7
<1>1. ASSUME NEW x \in Int PROVE x % 7 \in 0 .. 6 /\ (x + 7) % 7 = x % 7
  OBVIOUS
<1>2. ASSUME NEW x \in Int, NEW j \in 0 .. 6
      PROVE  (x + j) % 7 = IF (x % 7) + j < 7 THEN (x % 7) + j ELSE (x % 7) + j - 7
  <2>1. CASE (x % 7) + j < 7
    BY <2>1
  <2>2. CASE ~((x % 7) + j < 7)
    <3>1. x % 7 \in 0 .. 6
      BY <1>1
    <3>2. (x % 7) + j >= 7
      BY <2>2, <3>1
    <3>3. (x + j) % 7 = (x % 7) + j - 7
      BY <3>2
    <3> QED
      BY <2>2, <3>3
  <2> QED
    BY <2>1, <2>2
<1> QED
  BY <1>1, <1>2

LEMMA ModTwo ==
  \A x \in Int : x % 2 = 0 => (x + 1) % 2 # 0 /\ (x + 2) % 2 = 0 /\ (x - 1) % 2 # 0
OBVIOUS

LEMMA DayFacts ==
  ASSUME CalendarConstants
  PROVE  /\ FirstOf[Months] \in Nat /\ Sunday \in Int
         /\ \A d \in Day : d \in Nat /\ 1 <= d /\ d < FirstOf[Months]
         /\ \A d \in Nat : 1 <= d /\ d < FirstOf[Months] => d \in Day
         /\ \A d \in Day : MonthOf[d] \in 1 .. Months - 1
BY SMTT(30) DEF CalendarConstants, Day

LEMMA MonthFacts ==
  ASSUME CalendarConstants, NEW d \in Day
  PROVE  /\ FirstOf[MonthOf[d]] \in Nat /\ FirstOf[MonthOf[d] + 1] \in Nat
         /\ FirstOf[MonthOf[d]] <= d /\ d < FirstOf[MonthOf[d] + 1]
         /\ DayOfMonth(d) \in Nat /\ 1 <= DayOfMonth(d)
         /\ DayOfMonth(d) <= Length(MonthOf[d]) /\ Length(MonthOf[d]) \in Nat
<1>1. MonthOf[d] \in 1 .. Months /\ MonthOf[d] + 1 \in 1 .. Months + 1
  BY DEF CalendarConstants
<1>2. /\ FirstOf[MonthOf[d]] \in Nat /\ FirstOf[MonthOf[d] + 1] \in Nat
      /\ FirstOf[MonthOf[d]] <= d /\ d < FirstOf[MonthOf[d] + 1]
  BY <1>1 DEF CalendarConstants
<1>3. d \in Nat
  BY DayFacts
<1> QED
  BY SMTT(30), <1>2, <1>3 DEF DayOfMonth, Length

\* A day of month m is one from its first day on and before the next month's.
LEMMA MonthIs ==
  ASSUME CalendarConstants, NEW d \in Day, NEW m \in 1 .. Months
  PROVE  /\ MonthOf[d] = m <=> FirstOf[m] <= d /\ d < FirstOf[m + 1]
         /\ MonthOf[d] < m <=> d < FirstOf[m]
<1> DEFINE n == MonthOf[d]
<1>1. n \in 1 .. Months /\ FirstOf[n] <= d /\ d < FirstOf[n + 1]
  BY DEF CalendarConstants
<1>2. \A i, j \in 1 .. Months + 1 : i < j => FirstOf[i] < FirstOf[j]
  BY DEF CalendarConstants
<1>3. \A i \in 1 .. Months + 1 : FirstOf[i] \in Nat
  BY DEF CalendarConstants
<1>4. d \in Nat /\ Months \in Nat
  BY DEF CalendarConstants, Day
<1> HIDE DEF n
<1>5. n < m => d < FirstOf[m]
  <2> SUFFICES ASSUME n < m PROVE d < FirstOf[m]
    OBVIOUS
  <2>1. n + 1 = m \/ FirstOf[n + 1] < FirstOf[m]
    BY <1>1, <1>2, <1>4
  <2> QED
    BY <1>1, <1>3, <1>4, <2>1
<1>6. m < n => FirstOf[m + 1] <= d
  <2> SUFFICES ASSUME m < n PROVE FirstOf[m + 1] <= d
    OBVIOUS
  <2>1. m + 1 = n \/ FirstOf[m + 1] < FirstOf[n]
    BY <1>1, <1>2, <1>4
  <2> QED
    BY <1>1, <1>3, <1>4, <2>1
<1>7. FirstOf[m] < FirstOf[m + 1]
  BY <1>2, <1>4
<1>8. n = m \/ n < m \/ m < n
  BY <1>1, <1>4
<1>9. FirstOf[m] \in Nat /\ FirstOf[m + 1] \in Nat
  BY <1>3, <1>4
<1> QED
  BY SMTT(30), <1>1, <1>4, <1>5, <1>6, <1>7, <1>8, <1>9 DEF n

\* The day collectMonthly tries is the one of its month that is due.
LEMMA ClampedIs ==
  ASSUME NEW f \in Nat, NEW l \in Nat, f >= 1, l >= 28, NEW k \in Nat, k >= 1,
         NEW c \in Int, c = f + (IF k < l THEN k ELSE l) - 1
  PROVE  /\ c \in Nat /\ f <= c /\ c < f + l
         /\ \A e \in Nat : e - f + 1 <= l =>
              ((e - f + 1 = k \/ (e - f + 1 < k /\ e - f + 1 = l)) <=> e = c)
<1>1. CASE k < l
  <2>1. c = f + k - 1
    BY <1>1
  <2> QED
    BY <1>1, <2>1
<1>2. CASE ~(k < l)
  <2>1. c = f + l - 1
    BY <1>2
  <2> QED
    BY <1>2, <2>1
<1> QED
  BY <1>1, <1>2

\* What is due, frequency by frequency.
LEMMA DueIs ==
  ASSUME NEW s, NEW d
  PROVE  /\ Due("DAILY", s, d)
         /\ Due("ALTERNATE_DAY", s, d) <=> (d - s) % 2 = 0
         /\ Due("WEEKDAYS", s, d) <=> Weekday(d) \in 1 .. 5
         /\ Due("WEEKLY", s, d) <=> Weekday(d) = Weekday(s)
         /\ Due("MONTHLY", s, d) <=>
              \/ DayOfMonth(d) = DayOfMonth(s)
              \/ DayOfMonth(d) < DayOfMonth(s) /\ DayOfMonth(d) = Length(MonthOf[d])
BY DEF Due

LEMMA CandidateIsDue ==
  ASSUME CalendarConstants, NEW s \in Day, NEW m \in 1 .. Months
  PROVE  LET c == Clamped(m, DayOfMonth(s)) IN
         /\ c \in Nat /\ FirstOf[m] <= c /\ c < FirstOf[m + 1]
         /\ \A d \in Day : MonthOf[d] = m => (Due("MONTHLY", s, d) <=> d = c)
<1> DEFINE k == DayOfMonth(s)
           c == Clamped(m, k)
<1>1. k \in Nat /\ 1 <= k
  BY MonthFacts
<1>2. /\ FirstOf[m] \in Nat /\ FirstOf[m] >= 1 /\ FirstOf[m + 1] \in Nat
      /\ Length(m) \in Nat /\ Length(m) >= 28 /\ FirstOf[m + 1] = FirstOf[m] + Length(m)
  <2>1. m \in 1 .. Months + 1 /\ m + 1 \in 1 .. Months + 1
    BY DEF CalendarConstants
  <2>2. FirstOf[m] \in Nat \ {0} /\ FirstOf[m + 1] \in Nat \ {0}
    BY <2>1 DEF CalendarConstants
  <2>3. FirstOf[m + 1] - FirstOf[m] \in 28 .. 31
    BY DEF CalendarConstants, Length
  <2> DEFINE a == FirstOf[m]
             b == FirstOf[m + 1]
  <2>4. a \in Nat /\ b \in Nat /\ a >= 1 /\ b - a \in 28 .. 31
    BY <2>2, <2>3
  <2>5. Length(m) = b - a
    BY DEF Length
  <2> HIDE DEF a, b
  <2>6. b - a \in Nat /\ b - a >= 28 /\ b = a + (b - a)
    BY <2>4
  <2> QED
    BY <2>4, <2>5, <2>6 DEF a, b
<1>3. c = FirstOf[m] + (IF k < Length(m) THEN k ELSE Length(m)) - 1
  BY DEF Clamped
<1> HIDE DEF k, c
<1>4. c \in Int
  BY <1>1, <1>2, <1>3
<1>5. /\ c \in Nat /\ FirstOf[m] <= c /\ c < FirstOf[m] + Length(m)
      /\ \A e \in Nat : e - FirstOf[m] + 1 <= Length(m) =>
           ((e - FirstOf[m] + 1 = k \/ (e - FirstOf[m] + 1 < k /\ e - FirstOf[m] + 1 = Length(m))) <=> e = c)
  <2> DEFINE f == FirstOf[m]
             l == Length(m)
  <2>1. f \in Nat /\ l \in Nat /\ f >= 1 /\ l >= 28 /\ c = f + (IF k < l THEN k ELSE l) - 1
    BY <1>2, <1>3
  <2> HIDE DEF f, l
  <2>2. /\ c \in Nat /\ f <= c /\ c < f + l
        /\ \A e \in Nat : e - f + 1 <= l =>
             ((e - f + 1 = k \/ (e - f + 1 < k /\ e - f + 1 = l)) <=> e = c)
    BY <1>1, <1>4, <2>1, ClampedIs
  <2> QED
    BY <2>2 DEF f, l
<1>6. ASSUME NEW d \in Day, MonthOf[d] = m PROVE Due("MONTHLY", s, d) <=> d = c
  <2>1. DayOfMonth(d) = d - FirstOf[m] + 1 /\ DayOfMonth(d) <= Length(m)
    BY <1>6, MonthFacts DEF DayOfMonth
  <2>2. Due("MONTHLY", s, d) <=>
          DayOfMonth(d) = k \/ (DayOfMonth(d) < k /\ DayOfMonth(d) = Length(m))
    BY <1>6, DueIs DEF k
  <2>3. d \in Nat
    BY DayFacts
  <2> QED
    BY <1>5, <2>1, <2>2, <2>3
<1>7. c = Clamped(m, DayOfMonth(s))
  BY DEF k, c
<1> QED
  BY <1>2, <1>5, <1>6, <1>7

LEMMA Weekdays ==
  ASSUME CalendarConstants, NEW d \in Int
  PROVE  /\ Weekday(d) \in 0 .. 6
         /\ \A j \in 0 .. 6 :
              Weekday(d + j) = IF Weekday(d) + j < 7 THEN Weekday(d) + j ELSE Weekday(d) + j - 7
         /\ Weekday(d + 7) = Weekday(d)
<1>1. Sunday \in Int
  BY DayFacts
<1> DEFINE x == d - Sunday
<1>2. x \in Int /\ \A j \in Int : d + j - Sunday = x + j
  BY <1>1
<1>3. Weekday(d) = x % 7 /\ \A j \in Int : Weekday(d + j) = (d + j - Sunday) % 7
  BY DEF Weekday
<1> HIDE DEF x
<1>4. \A j \in Int : Weekday(d + j) = (x + j) % 7
  BY <1>2, <1>3
<1>5. x % 7 \in 0 .. 6 /\ (x + 7) % 7 = x % 7
  BY <1>2, ModSeven
<1>6. \A j \in 0 .. 6 : (x + j) % 7 = IF (x % 7) + j < 7 THEN (x % 7) + j ELSE (x % 7) + j - 7
  BY <1>2, ModSeven
<1>7. ASSUME NEW j \in 0 .. 6
      PROVE  Weekday(d + j) = IF Weekday(d) + j < 7 THEN Weekday(d) + j ELSE Weekday(d) + j - 7
  <2>1. Weekday(d + j) = (x + j) % 7
    BY <1>4, <1>2
  <2>2. (x + j) % 7 = IF (x % 7) + j < 7 THEN (x % 7) + j ELSE (x % 7) + j - 7
    BY <1>6
  <2> QED
    BY <1>3, <2>1, <2>2
<1>8. Weekday(d + 7) = Weekday(d)
  BY <1>3, <1>4, <1>5
<1> QED
  BY <1>3, <1>5, <1>7, <1>8

\* The first day from d on that falls on weekday wd.
LEMMA NextIsFirst ==
  ASSUME CalendarConstants, NEW d \in Nat, NEW wd \in 0 .. 6
  PROVE  LET n == NextWeekday(d, wd) IN
         /\ n \in Nat /\ d <= n /\ Weekday(n) = wd
         /\ \A e \in Nat : d <= e /\ e < n => Weekday(e) # wd
<1> DEFINE w == Weekday(d)
           k == (wd - w + 7) % 7
<1>0. d \in Int
  OBVIOUS
<1>1. w \in 0 .. 6
  BY <1>0, Weekdays
<1>2. NextWeekday(d, wd) = d + k
  BY DEF NextWeekday
<1>3. \A j \in 0 .. 6 : Weekday(d + j) = IF w + j < 7 THEN w + j ELSE w + j - 7
  BY <1>0, Weekdays
<1> HIDE DEF w
<1>4. k \in 0 .. 6 /\ k = IF wd < w THEN wd - w + 7 ELSE wd - w
  <2> DEFINE y == wd - w
  <2>1. y \in Int /\ y >= -6 /\ y <= 6
    BY <1>1
  <2> HIDE DEF y
  <2>2. (y + 7) % 7 = IF y < 0 THEN y + 7 ELSE y
    BY <2>1
  <2> QED
    BY <1>1, <2>1, <2>2 DEF y
<1> HIDE DEF k
<1>5. w + k < 7 => w + k = wd
  BY <1>1, <1>4
<1>6. ~(w + k < 7) => w + k - 7 = wd
  BY <1>1, <1>4
<1>7. Weekday(d + k) = wd
  BY <1>3, <1>4, <1>5, <1>6
<1>8. ASSUME NEW e \in Nat, d <= e, e < d + k PROVE Weekday(e) # wd
  <2> DEFINE j == e - d
  <2>1. j \in 0 .. 6 /\ j < k /\ e = d + j
    BY SMTT(30), <1>4, <1>8
  <2> HIDE DEF j
  <2>2. (IF w + j < 7 THEN w + j ELSE w + j - 7) # wd
    BY <1>1, <1>4, <2>1
  <2>3. Weekday(d + j) = IF w + j < 7 THEN w + j ELSE w + j - 7
    BY <1>3, <2>1
  <2> QED
    BY <2>1, <2>2, <2>3
<1>9. d + k \in Nat /\ d <= d + k
  <2>1. k \in Nat
    BY <1>4
  <2> QED
    BY <2>1
<1> QED
  BY <1>2, <1>7, <1>8, <1>9

(***************************************************************************)
(* The loops.                                                              *)
(***************************************************************************)
LEMMA QuestionFacts ==
  ASSUME CalendarConstants, NEW q \in Question
  PROVE  /\ q.freq \in Frequency
         /\ q.start \in Day /\ q.from \in Day /\ q.to \in Day
         /\ q.start \in Nat /\ q.from \in Nat /\ q.to \in Nat
BY DayFacts DEF Question

\* A loop begins in phase and with nothing due before its cursor.
LEMMA LoopBegins ==
  ASSUME CalendarConstants, NEW q \in Question
  PROVE  /\ InPhase(q, FirstCursor(q))
         /\ q.freq # "ALTERNATE_DAY" => InRange(q, FirstCursor(q))
         /\ \A d \in Day : ~DueBefore(q, d, FirstCursor(q))
<1> DEFINE c == FirstCursor(q)
           l == Later(q.start, q.from)
<1>1. /\ q.start \in Nat /\ q.from \in Nat /\ q.to \in Nat
      /\ q.start \in Day /\ q.from \in Day
  BY QuestionFacts
<1>2. l \in Day /\ l \in Nat /\ q.start <= l /\ q.from <= l /\ l = IF q.from < q.start THEN q.start ELSE q.from
  BY SMTT(30), <1>1 DEF Later
<1>3. \A d \in Day : d \in Nat /\ (Between(d, q) => l <= d /\ q.start <= d)
  <2>1. \A d \in Day : d \in Nat
    BY DayFacts
  <2> QED
    BY <1>1, <2>1 DEF Between, Later
<1> HIDE DEF l
<1>4. CASE q.freq \in {"DAILY", "WEEKDAYS"}
  <2>1. c = l
    BY <1>4 DEF FirstCursor, l
  <2>2. \A d \in Day : ~DueBefore(q, d, c)
    BY <1>2, <1>3, <1>4, <2>1 DEF DueBefore, Asked
  <2> HIDE DEF c
  <2>3. InPhase(q, c) /\ InRange(q, c)
    BY <1>2, <1>4, <2>1 DEF InPhase, InRange
  <2> QED
    BY <2>2, <2>3 DEF c
<1>5. CASE q.freq = "ALTERNATE_DAY"
  <2>1. c = q.start
    BY <1>5 DEF FirstCursor
  <2>2. \A d \in Day : ~DueBefore(q, d, c)
    BY <1>1, <1>3, <1>5, <2>1 DEF DueBefore, Asked
  <2>3. (q.start - q.start) % 2 = 0
    BY <1>1
  <2>4. InPhase(q, q.start)
    BY <1>1, <1>5, <2>3 DEF InPhase
  <2> QED
    BY <1>5, <2>1, <2>2, <2>4
<1>6. CASE q.freq = "WEEKLY"
  <2>1. c = NextWeekday(l, Weekday(q.start))
    BY <1>6 DEF FirstCursor, l
  <2> DEFINE wd == Weekday(q.start)
  <2> HIDE DEF c
  <2>2. q.start \in Int
    BY <1>1
  <2>3. wd \in 0 .. 6 /\ c = NextWeekday(l, wd)
    BY <2>1, <2>2, Weekdays
  <2>4. \A d \in Day : Due(q.freq, q.start, d) <=> Weekday(d) = wd
    BY <1>6, DueIs
  <2> HIDE DEF wd
  <2>5. /\ c \in Nat /\ l <= c /\ Weekday(c) = wd
        /\ \A e \in Nat : l <= e /\ e < c => Weekday(e) # wd
    BY <1>2, <2>3, NextIsFirst
  <2>6. \A d \in Day : ~DueBefore(q, d, c)
    BY <1>3, <1>6, <2>4, <2>5 DEF DueBefore, Asked
  <2>7. q.start <= c /\ q.from <= c
    BY SMTT(30), <1>1, <1>2, <2>5
  <2>8. InPhase(q, c) /\ InRange(q, c)
    BY <1>6, <2>5, <2>7 DEF InPhase, InRange, wd
  <2> QED
    BY <2>6, <2>8 DEF c
<1>7. CASE q.freq = "MONTHLY"
  <2>1. c = MonthOf[l]
    BY <1>2, <1>7 DEF FirstCursor, FirstMonth
  <2>2. c \in 1 .. Months /\ c \in Nat
    BY <1>2, <2>1 DEF CalendarConstants
  <2> HIDE DEF c
  <2>3. InPhase(q, c) /\ InRange(q, c)
    BY <1>7, <2>2 DEF InPhase, InRange
  <2>4. ASSUME NEW d \in Day, MonthOf[d] < c PROVE ~Between(d, q)
    <3>1. d < FirstOf[c] /\ FirstOf[c] <= l /\ FirstOf[c] \in Nat
      BY <1>2, <2>1, <2>2, <2>4, MonthIs, MonthFacts
    <3> QED
      BY <1>2, <1>3, <3>1
  <2>5. \A d \in Day : ~DueBefore(q, d, c)
    BY <1>7, <2>4 DEF DueBefore, Asked
  <2> QED
    BY <2>3, <2>5 DEF c
<1> QED
  BY <1>4, <1>5, <1>6, <1>7, QuestionFacts DEF Frequency

LEMMA SkipStep ==
  ASSUME CalendarConstants, NEW q \in Question, q.freq = "ALTERNATE_DAY",
         NEW c \in Nat, InPhase(q, c), c < q.from
  PROVE  /\ InPhase(q, c + 2)
         /\ \A d \in Day : ~DueBefore(q, d, c) /\ ~DueBefore(q, d, c + 2)
<1>1. q.start \in Nat /\ q.from \in Nat /\ q.start <= c /\ (c - q.start) % 2 = 0
  BY QuestionFacts DEF InPhase
<1> DEFINE x == c - q.start
<1>2. x \in Int /\ x + 2 = (c + 2) - q.start /\ x + 1 = (c + 1) - q.start
  BY <1>1
<1>3. x % 2 = 0
  BY <1>1
<1> HIDE DEF x
<1>4. (x + 1) % 2 # 0 /\ (x + 2) % 2 = 0
  BY <1>2, <1>3, ModTwo
<1>5. InPhase(q, c + 2)
  <2>1. ((c + 2) - q.start) % 2 = 0
    BY <1>2, <1>4
  <2>2. c + 2 \in Nat /\ q.start <= c + 2
    BY <1>1
  <2> QED
    BY <2>1, <2>2 DEF InPhase
<1>6. ASSUME NEW d \in Day, q.from <= d, d < c + 2 PROVE ~Due(q.freq, q.start, d)
  <2>1. d \in Nat
    BY DayFacts
  <2>2. d = c + 1
    BY <1>1, <1>6, <2>1
  <2>3. (d - q.start) % 2 # 0
    BY <1>2, <1>4, <2>2
  <2> QED
    BY <2>3, DueIs
<1>7. ASSUME NEW d \in Day PROVE ~DueBefore(q, d, c) /\ ~DueBefore(q, d, c + 2)
  <2>1. d \in Nat
    BY DayFacts
  <2>2. DueBefore(q, d, c) \/ DueBefore(q, d, c + 2) =>
          q.from <= d /\ d < c + 2 /\ Due(q.freq, q.start, d)
    BY <1>1, <2>1 DEF DueBefore, Asked, Between
  <2> QED
    BY <1>6, <2>2
<1> QED
  BY <1>5, <1>7

\* One round of the loops over days collects what is due up to the next round.
LEMMA DayStep ==
  ASSUME CalendarConstants, NEW q \in Question, q.freq # "MONTHLY",
         NEW c \in Nat, InPhase(q, c), InRange(q, c), c <= q.to
  PROVE  /\ c \in Day
         /\ InPhase(q, c + Stride(q.freq)) /\ InRange(q, c + Stride(q.freq))
         /\ \A d \in Day : DueBefore(q, d, c + Stride(q.freq)) <=>
              DueBefore(q, d, c) \/ (d = c /\ c >= q.start /\ Wanted(q.freq, c))
<1>1. /\ q.start \in Nat /\ q.from \in Nat /\ q.to \in Nat /\ q.to \in Day /\ q.start \in Day
      /\ q.start <= c /\ q.from <= c
  BY QuestionFacts DEF InPhase, InRange
<1>2. c \in Day
  <2>1. 1 <= q.start /\ q.to < FirstOf[Months]
    BY <1>1, DayFacts
  <2>2. 1 <= c /\ c < FirstOf[Months]
    BY SMTT(30), <1>1, <2>1, DayFacts
  <2> QED
    BY <2>2, DayFacts
<1>3. \A d \in Day : d \in Nat
  BY DayFacts
<1>0. c \in Int
  OBVIOUS
<1> DEFINE k == Stride(q.freq)
<1>4. k \in Nat /\ k >= 1 /\ InPhase(q, c + k)
  <2>1. CASE q.freq \in {"DAILY", "WEEKDAYS"}
    <3>1. k = 1 /\ q.freq # "WEEKLY" /\ q.freq # "ALTERNATE_DAY"
      BY <2>1 DEF Stride
    <3>2. c + 1 \in Nat /\ q.start <= c + 1
      BY <1>1
    <3> QED
      BY <3>1, <3>2 DEF InPhase
  <2>2. CASE q.freq = "ALTERNATE_DAY"
    <3>1. (c - q.start) % 2 = 0
      BY <2>2 DEF InPhase
    <3> DEFINE x == c - q.start
    <3>2. x \in Int /\ x % 2 = 0 /\ x + 2 = (c + 2) - q.start
      BY SMTT(30), <1>1, <3>1
    <3> HIDE DEF x
    <3>3. ((c + 2) - q.start) % 2 = 0
      BY <3>2, ModTwo
    <3>4. k = 2
      BY <2>2 DEF Stride
    <3>5. c + 2 \in Nat /\ q.start <= c + 2
      BY <1>1
    <3> QED
      BY <2>2, <3>3, <3>4, <3>5 DEF InPhase
  <2>3. CASE q.freq = "WEEKLY"
    <3>1. Weekday(c) = Weekday(q.start)
      BY <2>3 DEF InPhase
    <3>2. Weekday(c + 7) = Weekday(c)
      BY <1>0, Weekdays
    <3>3. k = 7
      BY <2>3 DEF Stride
    <3>4. c + 7 \in Nat /\ q.start <= c + 7
      BY <1>1
    <3> QED
      BY <2>3, <3>1, <3>2, <3>3, <3>4 DEF InPhase
  <2> QED
    BY <2>1, <2>2, <2>3, QuestionFacts DEF Frequency
<1>5. ASSUME NEW d \in Day, c < d, d < c + k PROVE ~Due(q.freq, q.start, d)
  <2>1. CASE q.freq \in {"DAILY", "WEEKDAYS"}
    BY <1>3, <1>5, <2>1 DEF Stride
  <2>2. CASE q.freq = "ALTERNATE_DAY"
    <3> DEFINE x == c - q.start
    <3>1. x \in Int /\ x % 2 = 0
      BY <1>1, <2>2 DEF InPhase
    <3>2. d = c + 1
      BY <1>3, <1>5, <2>2 DEF Stride
    <3>3. d - q.start = x + 1
      BY <1>1, <3>2
    <3> HIDE DEF x
    <3>4. (d - q.start) % 2 # 0
      BY <3>1, <3>3, ModTwo
    <3> QED
      BY <2>2, <3>4, DueIs
  <2>3. CASE q.freq = "WEEKLY"
    <3>1. Weekday(c) = Weekday(q.start) /\ Weekday(c) \in 0 .. 6
      BY <1>0, <2>3, Weekdays DEF InPhase
    <3> DEFINE j == d - c
    <3>2. j \in 0 .. 6 /\ j >= 1 /\ d = c + j
      <4>1. d < c + 7
        BY <1>5, <2>3 DEF Stride
      <4>2. d \in Int /\ c \in Int /\ c < d
        BY <1>0, <1>5, DayFacts
      <4> QED
        BY <4>1, <4>2
    <3> HIDE DEF j
    <3>3. Weekday(c + j) = IF Weekday(c) + j < 7 THEN Weekday(c) + j ELSE Weekday(c) + j - 7
      BY <1>0, <3>2, Weekdays
    <3> DEFINE w == Weekday(c)
    <3>4. w \in 0 .. 6
      BY <3>1
    <3> HIDE DEF w
    <3>5. (IF w + j < 7 THEN w + j ELSE w + j - 7) # w
      BY <3>2, <3>4
    <3>6. Weekday(d) # Weekday(q.start)
      BY <3>1, <3>2, <3>3, <3>5 DEF w
    <3> QED
      BY <2>3, <3>6, DueIs
  <2> QED
    BY <2>1, <2>2, <2>3, QuestionFacts DEF Frequency
<1>6. Due(q.freq, q.start, c) <=> Wanted(q.freq, c)
  <2>1. CASE q.freq \in {"DAILY", "WEEKDAYS"}
    BY <2>1, DueIs DEF Wanted
  <2>2. CASE q.freq = "ALTERNATE_DAY"
    BY <2>2, DueIs DEF Wanted, InPhase
  <2>3. CASE q.freq = "WEEKLY"
    BY <2>3, DueIs DEF Wanted, InPhase
  <2> QED
    BY <2>1, <2>2, <2>3, QuestionFacts DEF Frequency
<1>7. InRange(q, c + k)
  BY SMTT(30), <1>1, <1>4 DEF InRange
<1> HIDE DEF k
<1>8. ASSUME NEW d \in Day
      PROVE  DueBefore(q, d, c + k) <=> DueBefore(q, d, c) \/ (d = c /\ c >= q.start /\ Wanted(q.freq, c))
  <2>1. d \in Nat /\ (d < c + k <=> d < c \/ d = c \/ (c < d /\ d < c + k))
    BY <1>3, <1>4
  <2>2. CASE d = c
    BY <1>1, <1>4, <1>6, <2>1, <2>2 DEF DueBefore, Asked, Between
  <2>3. CASE d # c
    BY <1>5, <2>1, <2>3 DEF DueBefore, Asked
  <2> QED
    BY <2>2, <2>3
<1> QED
  BY <1>2, <1>4, <1>7, <1>8 DEF k

\* One round of the loop over months collects what is due in its month.
LEMMA MonthStep ==
  ASSUME CalendarConstants, NEW q \in Question, q.freq = "MONTHLY",
         NEW m \in 1 .. Months, NEW c, c = Clamped(m, DayOfMonth(q.start)), c <= q.to
  PROVE  /\ c \in Day /\ m + 1 \in 1 .. Months
         /\ \A d \in Day : DueBefore(q, d, m + 1) <=>
              DueBefore(q, d, m) \/ (d = c /\ c >= q.start /\ c >= q.from)
<1>1. q.start \in Day /\ q.start \in Nat /\ q.from \in Nat /\ q.to \in Nat /\ q.to \in Day
  BY QuestionFacts
<1>2. /\ c \in Nat /\ FirstOf[m] <= c /\ c < FirstOf[m + 1]
      /\ \A d \in Day : MonthOf[d] = m => (Due("MONTHLY", q.start, d) <=> d = c)
  BY <1>1, CandidateIsDue
<1>3. m \in Nat /\ Months \in Nat
  BY DEF CalendarConstants
<1>4. FirstOf[m] \in Nat \ {0} /\ FirstOf[Months] \in Nat
  <2>1. m \in 1 .. Months + 1
    BY <1>3
  <2> QED
    BY <2>1, DayFacts DEF CalendarConstants
<1>5. c < FirstOf[Months] /\ 1 <= c
  <2>1. q.to < FirstOf[Months]
    BY <1>1, DayFacts
  <2>2. c < FirstOf[Months]
    BY SMTT(30), <1>1, <1>2, <1>4, <2>1
  <2>3. FirstOf[m] \in Nat /\ FirstOf[m] >= 1
    BY <1>4
  <2> QED
    BY <1>2, <2>2, <2>3
<1>6. c \in Day
  BY <1>2, <1>5, DayFacts
<1>7. m # Months
  BY <1>2, <1>4, <1>5
<1>8. m + 1 \in 1 .. Months
  BY <1>3, <1>7
<1>9. MonthOf[c] = m
  <2>1. FirstOf[m] <= c /\ c < FirstOf[m + 1]
    BY <1>2
  <2>2. MonthOf[c] = m <=> FirstOf[m] <= c /\ c < FirstOf[m + 1]
    BY SMTT(30), <1>6, MonthIs
  <2> QED
    BY <2>1, <2>2
<1>10. ASSUME NEW d \in Day
       PROVE  DueBefore(q, d, m + 1) <=> DueBefore(q, d, m) \/ (d = c /\ c >= q.start /\ c >= q.from)
  <2>1. MonthOf[d] \in Nat
    BY DayFacts
  <2>2. MonthOf[d] < m + 1 <=> MonthOf[d] < m \/ MonthOf[d] = m
    BY <1>3, <2>1
  <2>3. MonthOf[d] = m => (Asked(d, q) <=> d = c /\ c >= q.start /\ c >= q.from)
    BY <1>1, <1>2 DEF Asked, Between
  <2>4. d = c => ~(MonthOf[d] < m)
    BY <1>3, <1>9
  <2> QED
    BY <1>9, <2>2, <2>3, <2>4 DEF DueBefore
<1> QED
  BY <1>6, <1>8, <1>10

\* When a loop ends, nothing due after its cursor is in the range.
LEMMA LoopEnds ==
  ASSUME CalendarConstants, NEW q \in Question, NEW c, InPhase(q, c),
         IF q.freq = "MONTHLY" THEN ~(Clamped(c, DayOfMonth(q.start)) <= q.to) ELSE ~(c <= q.to)
  PROVE  \A d \in Day : Asked(d, q) <=> DueBefore(q, d, c)
<1>1. q.start \in Day /\ q.start \in Nat /\ q.to \in Nat /\ c \in Nat
  BY QuestionFacts DEF InPhase
<1>2. \A d \in Day : d \in Nat
  BY DayFacts
<1>3. CASE q.freq # "MONTHLY"
  <2>1. q.to < c
    BY <1>1, <1>3
  <2>2. \A d \in Day : Asked(d, q) => d < c
    BY <1>1, <1>2, <2>1 DEF Asked, Between
  <2> QED
    BY <1>3, <2>2 DEF DueBefore
<1>4. CASE q.freq = "MONTHLY"
  <2> DEFINE k == Clamped(c, DayOfMonth(q.start))
  <2>1. c \in 1 .. Months
    BY <1>4 DEF InPhase
  <2>2. /\ k \in Nat /\ FirstOf[c] <= k /\ k < FirstOf[c + 1]
        /\ \A d \in Day : MonthOf[d] = c => (Due("MONTHLY", q.start, d) <=> d = k)
    BY <1>1, <2>1, CandidateIsDue
  <2>3. ~(k <= q.to)
    BY <1>4
  <2> HIDE DEF k
  <2>4. ASSUME NEW d \in Day, Asked(d, q) PROVE MonthOf[d] < c
    <3>1. d \in Nat /\ d <= q.to /\ d < k /\ Due("MONTHLY", q.start, d)
      BY <1>1, <1>2, <1>4, <2>2, <2>3, <2>4 DEF Asked, Between
    <3>2. MonthOf[d] # c
      BY <2>2, <3>1
    <3>3. ~(FirstOf[c] <= d /\ d < FirstOf[c + 1])
      BY <2>1, <3>2, MonthIs
    <3>4. FirstOf[c] \in Nat /\ FirstOf[c + 1] \in Nat
      <4>1. c \in 1 .. Months + 1 /\ c + 1 \in 1 .. Months + 1
        BY <2>1 DEF CalendarConstants
      <4> QED
        BY <4>1 DEF CalendarConstants
    <3>5. d < FirstOf[c]
      BY SMTT(30), <2>2, <3>1, <3>3, <3>4
    <3> QED
      BY <2>1, <3>5, MonthIs
  <2> QED
    BY <1>4, <2>4 DEF DueBefore
<1> QED
  BY <1>3, <1>4

(***************************************************************************)
(* The invariant.                                                          *)
(***************************************************************************)
\* What the loops have collected when they end is the whole answer.
LEMMA ExactAtEnd ==
  ASSUME CalendarConstants, NEW q \in Question, NEW c, NEW D,
         Collected(q, c, D), \A d \in Day : Asked(d, q) <=> DueBefore(q, d, c)
  PROVE  D = {d \in Day : Between(d, q) /\ Due(q.freq, q.start, d)}
BY DEF Collected, Asked

LEMMA InitLoop ==
  ASSUME CalendarConstants, Init
  PROVE  LoopInv
<1>1. ask \in [freq : Frequency, start : Day, from : Day, to : Day]
  BY DEF Init, CalendarConstants
<1> QED
  BY <1>1 DEF Init, LoopInv, TypeOK, AnswersExactly

LEMMA BeginKeeps ==
  ASSUME CalendarConstants, LoopInv, Begin
  PROVE  LoopInv'
<1>1. /\ pc = "ask" /\ dates = {} /\ ask' = ask /\ dates' = dates
      /\ ask \in Question /\ cursor \in Nat
  BY DEF LoopInv, TypeOK, Begin, Question
<1>2. ask.to \in Nat /\ ask.from \in Nat
  BY <1>1, QuestionFacts
<1>3. CASE ask.to < ask.from
  <2>1. pc' = "done" /\ cursor' = cursor
    BY <1>3 DEF Begin
  <2>2. \A d \in Day : ~Between(d, ask)
    BY SMTT(30), <1>2, <1>3, DayFacts DEF Between
  <2>3. dates = {d \in Day : Between(d, ask) /\ Due(ask.freq, ask.start, d)}
    BY <1>1, <2>2
  <2>4. AnswersExactly'
    BY <1>1, <2>3 DEF AnswersExactly
  <2> QED
    BY <1>1, <2>1, <2>4 DEF LoopInv, TypeOK, Question
<1>4. CASE ~(ask.to < ask.from)
  <2>1. /\ pc' = IF ask.freq = "ALTERNATE_DAY" THEN "skip" ELSE "collect"
        /\ cursor' = FirstCursor(ask)
    BY <1>4 DEF Begin
  <2>2. /\ InPhase(ask, cursor')
        /\ ask.freq # "ALTERNATE_DAY" => InRange(ask, cursor')
        /\ \A d \in Day : ~DueBefore(ask, d, cursor')
    BY <1>1, <2>1, LoopBegins
  <2>3. Collected(ask, cursor', dates)
    BY <1>1, <2>2 DEF Collected
  <2>4. ask.from <= ask.to
    BY <1>2, <1>4
  <2>5. TypeOK'
    BY <1>1, <2>1, <2>2 DEF TypeOK, Question, InPhase
  <2> QED
    BY <1>1, <2>1, <2>2, <2>3, <2>4, <2>5 DEF LoopInv, AnswersExactly
<1> QED
  BY <1>3, <1>4

LEMMA SkipKeeps ==
  ASSUME CalendarConstants, LoopInv, Skip
  PROVE  LoopInv'
<1>1. /\ pc = "skip" /\ ask' = ask /\ dates' = dates
      /\ ask \in Question /\ ask.freq = "ALTERNATE_DAY" /\ cursor \in Nat
      /\ ask.from <= ask.to /\ InPhase(ask, cursor) /\ Collected(ask, cursor, dates)
      /\ dates \subseteq Day
  BY DEF LoopInv, TypeOK, Skip, Question
<1>2. CASE cursor < ask.from
  <2>1. cursor' = cursor + 2 /\ pc' = pc
    BY <1>2 DEF Skip
  <2>2. /\ InPhase(ask, cursor + 2)
        /\ \A d \in Day : ~DueBefore(ask, d, cursor) /\ ~DueBefore(ask, d, cursor + 2)
    BY <1>1, <1>2, SkipStep
  <2>3. Collected(ask, cursor + 2, dates)
    BY <1>1, <2>2 DEF Collected
  <2>4. TypeOK'
    BY <1>1, <2>1, <2>2 DEF TypeOK, Question, InPhase
  <2> QED
    BY <1>1, <2>1, <2>2, <2>3, <2>4 DEF LoopInv, AnswersExactly
<1>3. CASE ~(cursor < ask.from)
  <2>1. cursor' = cursor /\ pc' = "collect"
    BY <1>3 DEF Skip
  <2>2. ask.from <= cursor
    BY <1>1, <1>3, QuestionFacts
  <2>3. TypeOK'
    BY <1>1, <2>1 DEF TypeOK, Question
  <2> QED
    BY <1>1, <2>1, <2>2, <2>3 DEF LoopInv, AnswersExactly, InRange
<1> QED
  BY <1>2, <1>3

LEMMA CollectDayKeeps ==
  ASSUME CalendarConstants, LoopInv, CollectDay
  PROVE  LoopInv'
<1>1. /\ pc = "collect" /\ ask' = ask
      /\ ask \in Question /\ ask.freq # "MONTHLY" /\ cursor \in Nat
      /\ ask.from <= ask.to /\ InPhase(ask, cursor) /\ InRange(ask, cursor)
      /\ Collected(ask, cursor, dates) /\ dates \subseteq Day
  BY DEF LoopInv, TypeOK, CollectDay, Question
<1>2. CASE cursor <= ask.to
  <2> DEFINE k == cursor + Stride(ask.freq)
  <2>1. /\ dates' = IF cursor >= ask.start /\ Wanted(ask.freq, cursor)
                    THEN dates \cup {cursor} ELSE dates
        /\ cursor' = k /\ pc' = pc
    BY <1>2 DEF CollectDay
  <2>2. /\ cursor \in Day /\ InPhase(ask, k) /\ InRange(ask, k)
        /\ \A d \in Day : DueBefore(ask, d, k) <=>
             DueBefore(ask, d, cursor) \/ (d = cursor /\ cursor >= ask.start /\ Wanted(ask.freq, cursor))
    BY <1>1, <1>2, DayStep
  <2> HIDE DEF k
  <2>3. Collected(ask, k, dates')
    BY <1>1, <2>1, <2>2 DEF Collected
  <2>4. TypeOK'
    BY <1>1, <2>1, <2>2, <2>3 DEF TypeOK, Question, InPhase, Collected
  <2> QED
    BY <1>1, <2>1, <2>2, <2>3, <2>4 DEF LoopInv, AnswersExactly
<1>3. CASE ~(cursor <= ask.to)
  <2>1. pc' = "done" /\ cursor' = cursor /\ dates' = dates
    BY <1>3 DEF CollectDay
  <2>2. \A d \in Day : Asked(d, ask) <=> DueBefore(ask, d, cursor)
    BY <1>1, <1>3, LoopEnds
  <2>3. dates = {d \in Day : Between(d, ask) /\ Due(ask.freq, ask.start, d)}
    BY <1>1, <2>2, ExactAtEnd
  <2>4. AnswersExactly'
    BY <1>1, <2>1, <2>3 DEF AnswersExactly
  <2> QED
    BY <1>1, <2>1, <2>4 DEF LoopInv, TypeOK, Question
<1> QED
  BY <1>2, <1>3

LEMMA CollectMonthKeeps ==
  ASSUME CalendarConstants, LoopInv, CollectMonth
  PROVE  LoopInv'
<1> DEFINE c == Clamped(cursor, DayOfMonth(ask.start))
<1>1. /\ pc = "collect" /\ ask' = ask
      /\ ask \in Question /\ ask.freq = "MONTHLY" /\ cursor \in 1 .. Months /\ cursor \in Nat
      /\ ask.from <= ask.to /\ InPhase(ask, cursor)
      /\ Collected(ask, cursor, dates) /\ dates \subseteq Day
  BY DEF LoopInv, TypeOK, CollectMonth, Question
<1>2. CASE c <= ask.to
  <2>1. /\ dates' = IF c >= ask.start /\ c >= ask.from THEN dates \cup {c} ELSE dates
        /\ cursor' = cursor + 1 /\ pc' = pc
    BY <1>2 DEF CollectMonth
  <2>2. /\ c \in Day /\ cursor + 1 \in 1 .. Months
        /\ \A d \in Day : DueBefore(ask, d, cursor + 1) <=>
             DueBefore(ask, d, cursor) \/ (d = c /\ c >= ask.start /\ c >= ask.from)
    BY <1>1, <1>2, MonthStep
  <2> HIDE DEF c
  <2>3. Collected(ask, cursor + 1, dates')
    BY <1>1, <2>1, <2>2 DEF Collected
  <2>4. InPhase(ask, cursor + 1) /\ InRange(ask, cursor + 1)
    BY <1>1, <2>2 DEF InPhase, InRange
  <2>5. TypeOK'
    BY <1>1, <2>1, <2>2, <2>3 DEF TypeOK, Question, Collected
  <2> QED
    BY <1>1, <2>1, <2>3, <2>4, <2>5 DEF LoopInv, AnswersExactly
<1>3. CASE ~(c <= ask.to)
  <2>1. pc' = "done" /\ cursor' = cursor /\ dates' = dates
    BY <1>3 DEF CollectMonth
  <2>2. \A d \in Day : Asked(d, ask) <=> DueBefore(ask, d, cursor)
    BY <1>1, <1>3, LoopEnds
  <2>3. dates = {d \in Day : Between(d, ask) /\ Due(ask.freq, ask.start, d)}
    BY <1>1, <2>2, ExactAtEnd
  <2>4. AnswersExactly'
    BY <1>1, <2>1, <2>3 DEF AnswersExactly
  <2> QED
    BY <1>1, <2>1, <2>4 DEF LoopInv, TypeOK, Question
<1> QED
  BY <1>2, <1>3

LEMMA StepKeeps ==
  ASSUME CalendarConstants, LoopInv, [Next]_vars
  PROVE  LoopInv'
<1>1. CASE Begin
  BY <1>1, BeginKeeps
<1>2. CASE Skip
  BY <1>2, SkipKeeps
<1>3. CASE CollectDay
  BY <1>3, CollectDayKeeps
<1>4. CASE CollectMonth
  BY <1>4, CollectMonthKeeps
<1>5. CASE UNCHANGED vars
  BY <1>5 DEF vars, LoopInv, TypeOK, AnswersExactly
<1> QED
  BY <1>1, <1>2, <1>3, <1>4, <1>5 DEF Next

\* The loop invariant holds in every state of the loops.
THEOREM LoopInvHolds == Spec => []LoopInv
<1>1. Init => LoopInv
  BY CalendarConstants, InitLoop
<1>2. LoopInv /\ [Next]_vars => LoopInv'
  BY CalendarConstants, StepKeeps
<1> QED
  BY <1>1, <1>2, PTL DEF Spec

\* The cursor stays in the calendar and only its days are collected.
THEOREM TypeCorrect == Spec => []TypeOK
<1>1. LoopInv => TypeOK
  BY DEF LoopInv
<1> QED
  BY <1>1, LoopInvHolds, PTL

\* Whatever the calendar, the frequency, the start and the range, getDeliveryDates
\* answers exactly the days of the range on which the subscription is due.
THEOREM ScheduleIsExact == Spec => []AnswersExactly
<1>1. LoopInv => AnswersExactly
  BY DEF LoopInv
<1> QED
  BY <1>1, LoopInvHolds, PTL

----------------------------------------------------------------------------
(* BillingCycle.                                                           *)

First(a, t) == IF a = t THEN t + 1 ELSE a
Lesser(x, y) == IF x < y THEN x ELSE y

\* The runs that find an item of date t under the setting s are those of a .. b.
Reaches(s, t, a, b) ==
  /\ a \in t .. t + Closing(s)
  /\ b <= t + 61
  /\ First(a, t) + Grace(s) <= b + 1
  /\ \A ref \in t .. t + Horizon : t \in Window(s, ref) <=> a <= ref /\ ref <= b

\* The last day whose run, as far as d goes, is over.
Over(d) == IF cron = "done" \/ (cron = "running" /\ d \notin todo) THEN day ELSE day - 1

SlackOk(d) ==
  item[d] = "DELIVERED" /\ d \notin changed =>
    \A a, b \in Int :
      Reaches(setting[d], date, a, b) => slack[d] + First(a, date) >= Lesser(b, Over(d)) + 1

CycleTyped == CycleTypeOK /\ setting \in [Distributor -> Setup]

CycleInv == CycleTyped /\ \A d \in Distributor : SlackOk(d)

(***************************************************************************)
(* The window of a run, turned round: which runs have a date in theirs.    *)
(***************************************************************************)
LEMMA CycleFacts ==
  /\ Date \subseteq Nat /\ Horizon \in Nat /\ Horizon >= 61 /\ Sunday \in Int
  /\ FirstDay \subseteq Int
  /\ \A d \in Distributor : Setting[d] \subseteq Setup /\ Late[d] \subseteq Nat
BY CycleAssumption

LEMMA SetupFacts ==
  ASSUME NEW s \in Setup
  PROVE  /\ s.anchor \in 0 .. 6 /\ s.cycle \in Cycle
         /\ s.cycle = "WEEKLY" => Closing(s) = 6 /\ Grace(s) = 6
         /\ s.cycle = "BI_WEEKLY" => Closing(s) = 6 /\ Grace(s) = 13
         /\ s.cycle = "MONTHLY" => Closing(s) = 31 /\ Grace(s) = 28
BY DEF Setup, Anchor, Cycle, Closing, Grace

LEMMA WindowIs ==
  ASSUME NEW s \in Setup, NEW ref
  PROVE  /\ s.cycle = "WEEKLY" => Window(s, ref) = DaysUpTo(ref - Since(0, ref), 7)
         /\ s.cycle = "BI_WEEKLY" => Window(s, ref) = DaysUpTo(ref - Since(s.anchor, ref), 14)
         /\ s.cycle = "MONTHLY" => Window(s, ref) = PreviousMonth(ref)
BY DEF Window, Setup, Cycle

LEMMA Sevens == \A x \in Int : \E n \in Int : x - (x % 7) = 7 * n
BY Z3

LEMMA ModIs ==
  ASSUME NEW x \in Int
  PROVE  \E n \in Int : \E r \in 0 .. 6 : x % 7 = r /\ x = 7 * n + r
<1>1. x % 7 \in 0 .. 6
  OBVIOUS
<1>2. PICK n \in Int : x - (x % 7) = 7 * n
  BY Sevens
<1>3. PICK r \in 0 .. 6 : x % 7 = r
  BY <1>1
<1>4. x = 7 * n + r
  BY <1>2, <1>3
<1> QED
  BY <1>3, <1>4

\* A day goes back to the last that falls on the anchor.
LEMMA SinceIs ==
  ASSUME NEW t \in Int, NEW k \in 0 .. 6
  PROVE  Since(k, t) \in 0 .. 6 /\ \E n \in Int : t - Since(k, t) = Sunday + k + 7 * n
<1>1. Sunday \in Int
  BY CycleFacts
<1>2. PICK m \in Int : \E w \in 0 .. 6 : (t - Sunday) % 7 = w /\ t - Sunday = 7 * m + w
  BY <1>1, ModIs
<1>3. PICK w \in 0 .. 6 : (t - Sunday) % 7 = w /\ t - Sunday = 7 * m + w
  BY <1>2
<1>4. PICK n \in Int : \E r \in 0 .. 6 : (w - k) % 7 = r /\ w - k = 7 * n + r
  BY ModIs
<1>5. PICK r \in 0 .. 6 : (w - k) % 7 = r /\ w - k = 7 * n + r
  BY <1>4
<1>6. Since(k, t) = r
  BY <1>3, <1>5 DEF Since, Weekday
<1>7. t - r = Sunday + k + 7 * (m + n) /\ m + n \in Int
  BY <1>1, <1>3, <1>5
<1> QED
  BY <1>6, <1>7

\* The windows of one or two weeks, up to a weekday k.
LEMMA WeeksReach ==
  ASSUME NEW t \in Int, NEW k \in 0 .. 6
  PROVE  \E a \in t .. t + 6 : \A ref \in Int :
           /\ ref >= t => (t \in DaysUpTo(ref - Since(k, ref), 7) <=> a <= ref /\ ref <= a + 6)
           /\ ref >= t => (t \in DaysUpTo(ref - Since(k, ref), 14) <=> a <= ref /\ ref <= a + 13)
<1>1. Sunday \in Int
  BY CycleFacts
<1>2. PICK n \in Int : Since(k, t) \in 0 .. 6 /\ t - Since(k, t) = Sunday + k + 7 * n
  BY SinceIs
<1> DEFINE a == IF Since(k, t) = 0 THEN t ELSE t - Since(k, t) + 7
           m == IF Since(k, t) = 0 THEN n ELSE n + 1
<1>3. a \in t .. t + 6 /\ m \in Int /\ a = Sunday + k + 7 * m
  BY <1>1, <1>2
<1> HIDE DEF a, m
<1>4. ASSUME NEW ref \in Int, ref >= t
      PROVE  /\ t \in DaysUpTo(ref - Since(k, ref), 7) <=> a <= ref /\ ref <= a + 6
             /\ t \in DaysUpTo(ref - Since(k, ref), 14) <=> a <= ref /\ ref <= a + 13
  <2>1. PICK j \in Int : Since(k, ref) \in 0 .. 6 /\ ref - Since(k, ref) = Sunday + k + 7 * j
    BY SinceIs
  <2>2. PICK e \in Int : e = ref - Since(k, ref)
    BY <2>1
  <2>3. e <= ref /\ ref <= e + 6 /\ e = a + 7 * (j - m) /\ j - m \in Int
    BY <1>1, <1>3, <2>1, <2>2
  <2>4. PICK i \in Int : i = j - m
    BY <2>3
  <2>5. /\ t \in DaysUpTo(ref - Since(k, ref), 7) <=> e - 6 <= t /\ t <= e
        /\ t \in DaysUpTo(ref - Since(k, ref), 14) <=> e - 13 <= t /\ t <= e
    BY <2>2 DEF DaysUpTo
  <2>6. e = a + 7 * i /\ t <= a /\ a <= t + 6 /\ a \in Int
    BY <1>3, <2>3, <2>4
  <2>7. (e - 6 <= t /\ t <= e) <=> (a <= ref /\ ref <= a + 6)
    BY <2>3, <2>6, <1>4
  <2>8. (e - 13 <= t /\ t <= e) <=> (a <= ref /\ ref <= a + 13)
    BY <2>3, <2>6, <1>4
  <2> QED
    BY <2>5, <2>7, <2>8
<1> QED
  BY <1>3, <1>4

LEMMA MonthStartIs ==
  ASSUME NEW f \in FirstDay, NEW g \in FirstDay, NEW u \in Int, f <= u, u < g,
         \A h \in FirstDay : h <= f \/ g <= h
  PROVE  MonthStart(u) = f
<1> DEFINE S == {h \in FirstDay : h <= u}
<1>1. f \in Int /\ g \in Int /\ FirstDay \subseteq Int
  BY CycleFacts
<1>2. f \in S /\ \A h \in S : f >= h
  BY <1>1
<1>3. \A x \in S : (\A y \in S : x >= y) => x = f
  BY <1>1, <1>2
<1>4. MonthStart(u) = CHOOSE x \in S : \A y \in S : x >= y
  BY DEF MonthStart, Max
<1> HIDE DEF S
<1> QED
  BY <1>2, <1>3, <1>4

IsMonth(f, g) == g - f \in 28 .. 31 /\ \A h \in FirstDay : h <= f \/ g <= h

LEMMA MonthOfDay ==
  ASSUME NEW t \in Date, NEW u \in t - 31 .. t + Horizon
  PROVE  \E f, g \in FirstDay : f <= u /\ u < g /\ IsMonth(f, g) /\ MonthStart(u) = f
<1>1. t \in Int /\ u \in Int
  BY CycleFacts
<1>2. PICK f \in FirstDay, g \in FirstDay : f <= u /\ u < g /\ IsMonth(f, g)
  BY CycleAssumption DEF IsMonth
<1> QED
  BY <1>1, <1>2, MonthStartIs DEF IsMonth

LEMMA MonthReaches ==
  ASSUME NEW t \in Date
  PROVE  \E a, b \in Int :
           /\ a \in t + 1 .. t + 31 /\ b <= t + 61 /\ a + 28 <= b + 1
           /\ \A ref \in t .. t + Horizon : t \in PreviousMonth(ref) <=> a <= ref /\ ref <= b
<1>1. t \in Nat /\ Horizon \in Nat /\ Horizon >= 61 /\ FirstDay \subseteq Int
  BY CycleFacts
<1>2. PICK f \in FirstDay, a \in FirstDay : f <= t /\ t < a /\ IsMonth(f, a)
  <2>1. t \in t - 31 .. t + Horizon
    BY <1>1
  <2> QED
    BY <2>1, MonthOfDay
<1>3. f \in Int /\ a \in Int /\ a \in t + 1 .. t + 31
  BY <1>1, <1>2 DEF IsMonth
<1>4. PICK g \in FirstDay : a < g /\ IsMonth(a, g)
  <2>1. a \in t - 31 .. t + Horizon
    BY <1>1, <1>3
  <2>2. PICK e \in FirstDay, g \in FirstDay : e <= a /\ a < g /\ IsMonth(e, g)
    BY <2>1, MonthOfDay
  <2>3. e \in Int /\ g \in Int
    BY <1>1
  <2>4. e = a
    BY <1>3, <2>2, <2>3 DEF IsMonth
  <2> QED
    BY <2>2, <2>4
<1>5. g \in Int /\ g - a \in 28 .. 31
  BY <1>1, <1>4 DEF IsMonth
<1>6. ASSUME NEW ref \in t .. t + Horizon
      PROVE  t \in PreviousMonth(ref) <=> a <= ref /\ ref < g
  <2>1. ref \in Int /\ ref \in t - 31 .. t + Horizon
    BY <1>1
  <2>2. PICK p \in FirstDay, q \in FirstDay :
          p <= ref /\ ref < q /\ IsMonth(p, q) /\ MonthStart(ref) = p
    BY <2>1, MonthOfDay
  <2>3. p \in Int /\ q \in Int /\ p - 1 \in Int
    BY <1>1
  <2>4. t \in PreviousMonth(ref) <=> t \in MonthStart(p - 1) .. p - 1
    BY <2>2 DEF PreviousMonth
  <2>5. CASE ref < a
    <3>1. p <= f
      BY <1>2, <1>3, <2>1, <2>2, <2>3, <2>5 DEF IsMonth
    <3>2. ~(t <= p - 1)
      BY <1>1, <1>2, <1>3, <2>3, <3>1
    <3>3. t \notin MonthStart(p - 1) .. p - 1
      BY <3>2
    <3> QED
      BY <1>3, <2>1, <2>4, <2>5, <3>3
  <2>6. CASE a <= ref /\ ref < g
    <3>1. p = a
      BY <1>3, <1>4, <1>5, <2>1, <2>2, <2>3, <2>6 DEF IsMonth
    <3>2. MonthStart(a - 1) = f
      <4>1. a - 1 \in Int /\ f <= a - 1 /\ a - 1 < a
        BY <1>1, <1>2, <1>3
      <4> QED
        BY <1>2, <4>1, MonthStartIs DEF IsMonth
    <3>3. t \in f .. a - 1
      BY <1>1, <1>2, <1>3
    <3> QED
      BY <2>4, <2>6, <3>1, <3>2, <3>3
  <2>7. CASE g <= ref
    <3>1. g <= p
      BY <1>5, <2>1, <2>2, <2>3, <2>7 DEF IsMonth
    <3>2. p - 1 \in t - 31 .. t + Horizon /\ a <= p - 1
      BY <1>1, <1>3, <1>5, <2>1, <2>2, <2>3, <3>1
    <3>3. PICK v \in FirstDay, w \in FirstDay :
            v <= p - 1 /\ p - 1 < w /\ IsMonth(v, w) /\ MonthStart(p - 1) = v
      BY <3>2, MonthOfDay
    <3>4. v \in Int /\ w \in Int
      BY <1>1
    <3>5. a <= v
      BY <1>3, <2>3, <3>2, <3>3, <3>4 DEF IsMonth
    <3>6. t \notin v .. p - 1
      BY <1>1, <1>3, <3>4, <3>5
    <3> QED
      BY <1>5, <2>1, <2>4, <2>7, <3>3, <3>6
  <2> QED
    BY <1>3, <1>5, <2>1, <2>5, <2>6, <2>7
<1>7. g - 1 \in Int /\ g - 1 <= t + 61 /\ a + 28 <= (g - 1) + 1
  BY <1>1, <1>3, <1>5
<1>8. \A ref \in t .. t + Horizon : ref < g <=> ref <= g - 1
  BY <1>1, <1>5
<1> QED
  BY <1>3, <1>6, <1>7, <1>8

\* Every date is in reach of some run, whatever the setting.
LEMMA SomeReach ==
  ASSUME NEW s \in Setup, NEW t \in Date
  PROVE  \E a, b \in Int : Reaches(s, t, a, b)
<1>1. t \in Nat /\ t \in Int /\ Horizon \in Nat
  BY CycleFacts
<1>2. \A ref \in t .. t + Horizon : ref \in Int /\ ref >= t
  BY <1>1
<1>3. CASE s.cycle = "WEEKLY"
  <2>1. PICK a \in t .. t + 6 : \A ref \in Int : ref >= t =>
          (t \in DaysUpTo(ref - Since(0, ref), 7) <=> a <= ref /\ ref <= a + 6)
    <3>1. 0 \in 0 .. 6
      OBVIOUS
    <3> QED
      BY <1>1, <3>1, WeeksReach
  <2>2. \A ref \in t .. t + Horizon : t \in Window(s, ref) <=> a <= ref /\ ref <= a + 6
    BY <1>2, <1>3, <2>1, WindowIs
  <2>3. a \in Int /\ a + 6 \in Int /\ a + 6 <= t + 61 /\ First(a, t) + 6 <= a + 6 + 1
    BY <1>1 DEF First
  <2> QED
    BY <1>3, <2>2, <2>3, SetupFacts DEF Reaches
<1>4. CASE s.cycle = "BI_WEEKLY"
  <2>1. PICK a \in t .. t + 6 : \A ref \in Int : ref >= t =>
          (t \in DaysUpTo(ref - Since(s.anchor, ref), 14) <=> a <= ref /\ ref <= a + 13)
    BY <1>1, WeeksReach, SetupFacts
  <2>2. \A ref \in t .. t + Horizon : t \in Window(s, ref) <=> a <= ref /\ ref <= a + 13
    BY <1>2, <1>4, <2>1, WindowIs
  <2>3. a \in Int /\ a + 13 \in Int /\ a + 13 <= t + 61 /\ First(a, t) + 13 <= a + 13 + 1
    BY <1>1 DEF First
  <2> QED
    BY <1>4, <2>2, <2>3, SetupFacts DEF Reaches
<1>5. CASE s.cycle = "MONTHLY"
  <2>1. PICK a \in Int, b \in Int :
          /\ a \in t + 1 .. t + 31 /\ b <= t + 61 /\ a + 28 <= b + 1
          /\ \A ref \in t .. t + Horizon : t \in PreviousMonth(ref) <=> a <= ref /\ ref <= b
    BY MonthReaches
  <2>2. First(a, t) = a /\ a \in t .. t + 31
    BY <1>1, <2>1 DEF First
  <2> QED
    BY <1>5, <2>1, <2>2, SetupFacts, WindowIs DEF Reaches
<1> QED
  BY <1>3, <1>4, <1>5, SetupFacts DEF Cycle
(***************************************************************************)
(* The steps.                                                              *)
(***************************************************************************)
LEMMA CycleTypedStep ==
  ASSUME CycleTyped, [CycleNext]_cycleVars
  PROVE  CycleTyped' /\ date' = date
<1>1. CASE Midnight
  BY <1>1, CycleFacts DEF Midnight, Miss, CycleTyped, CycleTypeOK
<1>2. CASE CronStart
  BY <1>2 DEF CronStart, Miss, CycleTyped, CycleTypeOK
<1>3. CASE CronDies
  BY <1>3 DEF CronDies, Miss, CycleTyped, CycleTypeOK
<1>4. CASE CronEnd
  BY <1>4 DEF CronEnd, CycleTyped, CycleTypeOK
<1>5. ASSUME NEW d \in Distributor, CronRun(d) PROVE CycleTyped' /\ date' = date
  BY <1>5 DEF CronRun, CycleTyped, CycleTypeOK
<1>6. ASSUME NEW d \in Distributor, CronThrows(d) PROVE CycleTyped' /\ date' = date
  BY <1>6 DEF CronThrows, Miss, CycleTyped, CycleTypeOK
<1>7. ASSUME NEW d \in Distributor, MarkDelivered(d) PROVE CycleTyped' /\ date' = date
  <2>1. day - date \in Nat
    BY <1>7, CycleFacts DEF MarkDelivered
  <2> QED
    BY <1>7, <2>1 DEF MarkDelivered, CycleTyped, CycleTypeOK
<1>8. ASSUME NEW d \in Distributor, NEW s \in Setting[d], UpdateSettings(d, s)
      PROVE  CycleTyped' /\ date' = date
  <2>1. s \in Setup
    BY CycleFacts
  <2>2. setting' \in [Distributor -> Setup] /\ \A e \in Distributor : setting'[e] \in Setting[e]
    BY <1>8, <2>1 DEF UpdateSettings, CycleTyped, CycleTypeOK
  <2> QED
    BY <1>8, <2>2 DEF UpdateSettings, CycleTyped, CycleTypeOK
<1>9. ASSUME NEW d \in Distributor, RunByHand(d) PROVE CycleTyped' /\ date' = date
  BY <1>9 DEF RunByHand, CycleTyped, CycleTypeOK
<1>10. ASSUME NEW d \in Distributor, SwitchPrice(d) PROVE CycleTyped' /\ date' = date
  BY <1>10 DEF SwitchPrice, CycleTyped, CycleTypeOK
<1>11. ASSUME NEW d \in Distributor, SwitchListed(d) PROVE CycleTyped' /\ date' = date
  BY <1>11 DEF SwitchListed, CycleTyped, CycleTypeOK
<1>12. CASE UNCHANGED cycleVars
  BY <1>12 DEF cycleVars, CycleTyped, CycleTypeOK
<1> QED
  BY <1>1, <1>2, <1>3, <1>4, <1>5, <1>6, <1>7, <1>8, <1>9, <1>10, <1>11, <1>12 DEF CycleNext

DayNumbers == date \in Int /\ day \in Int /\ date <= day /\ day <= date + Horizon

LEMMA DaysAreNumbers ==
  ASSUME CycleTyped
  PROVE  /\ DayNumbers /\ date \in Date /\ slack \in [Distributor -> Nat]
         /\ \A d \in Distributor : Over(d) \in Int
BY CycleFacts DEF CycleTyped, CycleTypeOK, DayNumbers, Over

\* The run of the day is over for d, and has missed its item where it should not have.
RunOver(d) ==
  /\ Over(d) = day - 1 /\ Over(d)' = day
  /\ slack'[d] = IF Found(d, day) THEN slack[d] + 1 ELSE slack[d]

LEMMA SlackStep ==
  ASSUME CycleTyped, NEW d \in Distributor, SlackOk(d), date' = date,
         setting'[d] = setting[d], changed \subseteq changed',
         item'[d] = "DELIVERED" => item[d] = "DELIVERED",
         RunOver(d) \/ (Over(d)' = Over(d) /\ slack'[d] = slack[d])
  PROVE  SlackOk(d)'
<1> SUFFICES ASSUME item'[d] = "DELIVERED", d \notin changed', NEW a \in Int, NEW b \in Int,
                    Reaches(setting[d], date, a, b)
             PROVE  slack'[d] + First(a, date) >= Lesser(b, Over(d)') + 1
  BY DEF SlackOk
<1>1. item[d] = "DELIVERED" /\ slack[d] + First(a, date) >= Lesser(b, Over(d)) + 1
  BY DEF SlackOk
<1>2. CASE Over(d)' = Over(d) /\ slack'[d] = slack[d]
  BY <1>1, <1>2
<1>3. CASE RunOver(d)
  <2>1. DayNumbers /\ slack[d] \in Nat /\ Horizon \in Nat
    BY DaysAreNumbers, CycleFacts
  <2>2. Found(d, day) <=> a <= day /\ day <= b
    <3>1. day \in date .. date + Horizon
      BY <2>1 DEF DayNumbers
    <3> QED
      BY <1>1, <3>1 DEF Found, Reaches
  <2>3. First(a, date) \in Int /\ First(a, date) >= a
    BY <2>1 DEF First, DayNumbers
  <2>4. slack[d] + First(a, date) >= Lesser(b, day - 1) + 1
    BY <1>1, <1>3 DEF RunOver
  <2>5. slack'[d] = IF a <= day /\ day <= b THEN slack[d] + 1 ELSE slack[d]
    BY <1>3, <2>2 DEF RunOver
  <2>6. slack'[d] + First(a, date) >= Lesser(b, day) + 1
    BY <2>1, <2>3, <2>4, <2>5 DEF Lesser, DayNumbers
  <2> QED
    BY <1>3, <2>6 DEF RunOver
<1> QED
  BY <1>2, <1>3

\* What a step does not touch of a distributor's item stays as it was.
SameOver(d) == Over(d)' = Over(d) /\ slack'[d] = slack[d]

LEMMA CycleSlackStep ==
  ASSUME CycleTyped, [CycleNext]_cycleVars, NEW d \in Distributor, SlackOk(d)
  PROVE  SlackOk(d)'
<1>1. date' = date /\ CycleTyped'
  BY CycleTypedStep
<1>2. CASE Midnight
  <2>1. cron = "due" \/ cron = "done"
    BY <1>2 DEF Midnight, CycleTyped, CycleTypeOK
  <2>2. DayNumbers
    BY DaysAreNumbers
  <2>3. CASE cron = "done"
    <3>1. Over(d)' = Over(d)
      BY <1>2, <2>2, <2>3 DEF Midnight, Over, DayNumbers
    <3>2. slack'[d] = slack[d]
      BY <1>2, <2>3 DEF Midnight, Miss
    <3> QED
      BY <1>1, <1>2, <3>1, <3>2, SlackStep DEF Midnight
  <2>4. CASE cron = "due"
    <3>1. RunOver(d)
      BY <1>2, <2>2, <2>4 DEF Midnight, Miss, RunOver, Over, DayNumbers
    <3> QED
      BY <1>1, <1>2, <3>1, SlackStep DEF Midnight
  <2> QED
    BY <2>1, <2>3, <2>4
<1>3. CASE CronStart
  <2>1. IF d \in listed THEN Over(d)' = Over(d) /\ slack'[d] = slack[d] ELSE RunOver(d)
    BY <1>3 DEF CronStart, Miss, RunOver, Over
  <2> QED
    BY <1>1, <1>3, <2>1, SlackStep DEF CronStart
<1>4. CASE CronDies
  <2>1. IF d \in todo THEN RunOver(d) ELSE Over(d)' = Over(d) /\ slack'[d] = slack[d]
    BY <1>4 DEF CronDies, Miss, RunOver, Over
  <2> QED
    BY <1>1, <1>4, <2>1, SlackStep DEF CronDies
<1>5. CASE CronEnd
  <2>1. Over(d)' = Over(d) /\ slack'[d] = slack[d]
    BY <1>5 DEF CronEnd, Over
  <2> QED
    BY <1>1, <1>5, <2>1, SlackStep DEF CronEnd
<1>6. ASSUME NEW e \in Distributor, CronThrows(e) PROVE SlackOk(d)'
  <2>1. IF d \in todo THEN RunOver(d) ELSE Over(d)' = Over(d) /\ slack'[d] = slack[d]
    BY <1>6 DEF CronThrows, Miss, RunOver, Over
  <2> QED
    BY <1>1, <1>6, <2>1, SlackStep DEF CronThrows
<1>7. ASSUME NEW e \in Distributor, CronRun(e) PROVE SlackOk(d)'
  <2>1. CASE d # e
    <3>1. Over(d)' = Over(d) /\ slack'[d] = slack[d] /\ item'[d] = item[d]
      BY <1>7, <2>1 DEF CronRun, Over, CycleTyped, CycleTypeOK
    <3> QED
      BY <1>1, <1>7, <3>1, SlackStep DEF CronRun
  <2>2. CASE d = e /\ Found(d, day)
    <3>1. item'[d] = "BILLED"
      BY <1>7, <2>2 DEF CronRun, CycleTyped, CycleTypeOK
    <3> QED
      BY <3>1 DEF SlackOk
  <2>3. CASE d = e /\ ~Found(d, day)
    <3>1. RunOver(d) /\ item' = item
      BY <1>7, <2>3 DEF CronRun, RunOver, Over
    <3> QED
      BY <1>1, <1>7, <3>1, SlackStep DEF CronRun
  <2> QED
    BY <2>1, <2>2, <2>3
<1>8. ASSUME NEW e \in Distributor, MarkDelivered(e) PROVE SlackOk(d)'
  <2>1. CASE d # e
    <3>1. Over(d)' = Over(d) /\ slack'[d] = slack[d] /\ item'[d] = item[d]
      BY <1>8, <2>1 DEF MarkDelivered, Over, CycleTyped, CycleTypeOK
    <3> QED
      BY <1>1, <1>8, <3>1, SlackStep DEF MarkDelivered
  <2>2. CASE d = e
    <3>1. slack'[d] = day - date /\ Over(d)' = Over(d)
      BY <1>8, <2>2 DEF MarkDelivered, Over, CycleTyped, CycleTypeOK
    <3>2. DayNumbers /\ Over(d) \in Int /\ Over(d) <= day
      BY DaysAreNumbers DEF Over, DayNumbers
    <3>3. ASSUME NEW a \in Int, NEW b \in Int, Reaches(setting'[d], date, a, b)
          PROVE  slack'[d] + First(a, date) >= Lesser(b, Over(d)') + 1
      <4>1. First(a, date) \in Int /\ First(a, date) >= date + 1
        BY <3>2, <3>3 DEF First, Reaches, DayNumbers
      <4>2. Lesser(b, Over(d)) <= day /\ Lesser(b, Over(d)) \in Int
        BY <3>2 DEF Lesser, DayNumbers
      <4> QED
        BY <3>1, <3>2, <4>1, <4>2 DEF DayNumbers
    <3> QED
      BY <1>1, <3>3 DEF SlackOk
  <2> QED
    BY <2>1, <2>2
<1>9. ASSUME NEW e \in Distributor, NEW s \in Setting[e], UpdateSettings(e, s) PROVE SlackOk(d)'
  <2>1. CASE d # e
    <3>1. setting'[d] = setting[d] /\ Over(d)' = Over(d)
      BY <1>9, <2>1 DEF UpdateSettings, Over, CycleTyped
    <3> QED
      BY <1>1, <1>9, <3>1, SlackStep DEF UpdateSettings
  <2>2. CASE d = e
    BY <1>9, <2>2 DEF UpdateSettings, SlackOk
  <2> QED
    BY <2>1, <2>2
<1>10. ASSUME NEW e \in Distributor, RunByHand(e) PROVE SlackOk(d)'
  <2>1. item'[d] = "DELIVERED" => item[d] = "DELIVERED"
    BY <1>10 DEF RunByHand, CycleTyped, CycleTypeOK
  <2>2. Over(d)' = Over(d)
    BY <1>10 DEF RunByHand, Over
  <2> QED
    BY <1>1, <1>10, <2>1, <2>2, SlackStep DEF RunByHand
<1>11. ASSUME NEW e \in Distributor, SwitchPrice(e) \/ SwitchListed(e) PROVE SlackOk(d)'
  <2>1. Over(d)' = Over(d)
    BY <1>11 DEF SwitchPrice, SwitchListed, Over
  <2> QED
    BY <1>1, <1>11, <2>1, SlackStep DEF SwitchPrice, SwitchListed
<1>12. CASE UNCHANGED cycleVars
  <2>1. Over(d)' = Over(d)
    BY <1>12 DEF cycleVars, Over
  <2> QED
    BY <1>1, <1>12, <2>1, SlackStep DEF cycleVars
<1> QED
  BY <1>2, <1>3, <1>4, <1>5, <1>6, <1>7, <1>8, <1>9, <1>10, <1>11, <1>12 DEF CycleNext

LEMMA CycleInitOk == CycleInit => CycleInv
<1> SUFFICES ASSUME CycleInit PROVE CycleInv
  OBVIOUS
<1>1. setting \in [Distributor -> Setup]
  BY CycleFacts DEF CycleInit
<1>2. CycleTypeOK
  BY <1>1, CycleFacts DEF CycleInit, CycleTypeOK
<1>3. \A d \in Distributor : item[d] # "DELIVERED"
  BY DEF CycleInit
<1> QED
  BY <1>1, <1>2, <1>3 DEF CycleInv, CycleTyped, SlackOk

LEMMA CycleInvHolds == CycleSpec => []CycleInv
<1>1. CycleInv /\ [CycleNext]_cycleVars => CycleInv'
  BY CycleTypedStep, CycleSlackStep DEF CycleInv
<1> QED
  BY <1>1, CycleInitOk, PTL DEF CycleSpec

LEMMA LossExplained ==
  ASSUME CycleInv
  PROVE  LossIsExplained
<1> SUFFICES ASSUME NEW d \in Distributor, item[d] = "DELIVERED", d \notin changed,
                    slack[d] < Grace(setting[d])
             PROVE  InReach(d)
  BY DEF LossIsExplained
<1>1. DayNumbers /\ date \in Date /\ slack[d] \in Nat /\ Over(d) \in Int /\ setting[d] \in Setup
      /\ Horizon \in Nat /\ Horizon >= 61
  BY DaysAreNumbers, CycleFacts DEF CycleInv, CycleTyped
<1>2. PICK a \in Int, b \in Int : Reaches(setting[d], date, a, b)
  BY <1>1, SomeReach
<1>3. slack[d] + First(a, date) >= Lesser(b, Over(d)) + 1
  BY <1>2 DEF CycleInv, SlackOk
<1>4. /\ First(a, date) \in Int /\ Grace(setting[d]) \in Int /\ b <= date + 61
      /\ First(a, date) + Grace(setting[d]) <= b + 1 /\ a <= First(a, date)
  BY <1>1, <1>2, SetupFacts DEF First, Reaches, DayNumbers, Cycle
<1>5. Grace(setting[d]) > 0
  BY <1>1, SetupFacts DEF Cycle
<1>6. Over(d) < b
  BY <1>1, <1>3, <1>4 DEF Lesser
<1> DEFINE ref == IF Over(d) < a THEN a ELSE Over(d) + 1
<1>7. a <= ref /\ ref <= b /\ Over(d) < ref
  BY <1>1, <1>4, <1>5, <1>6
<1>8. ref \in day .. date + Horizon /\ (ref = day => cron # "done")
  BY <1>1, <1>4, <1>7 DEF Over, DayNumbers
<1>9. date \in Window(setting[d], ref)
  <2>1. ref \in date .. date + Horizon
    BY <1>1, <1>8 DEF DayNumbers
  <2> QED
    BY <1>2, <1>7, <2>1 DEF Reaches
<1> QED
  BY <1>8, <1>9 DEF InReach

LEMMA BilledInTime ==
  ASSUME CycleInv
  PROVE  BilledByClosing
<1> SUFFICES ASSUME NEW d \in Distributor, item[d] = "DELIVERED", slack[d] = 0, d \notin changed,
                    cron = "done"
             PROVE  day < date + Closing(setting[d])
  BY DEF BilledByClosing
<1>1. DayNumbers /\ date \in Date /\ setting[d] \in Setup
  BY DaysAreNumbers DEF CycleInv, CycleTyped
<1>2. PICK a \in Int, b \in Int : Reaches(setting[d], date, a, b)
  BY <1>1, SomeReach
<1>3. First(a, date) >= Lesser(b, day) + 1
  BY <1>1, <1>2 DEF CycleInv, SlackOk, Over, First, DayNumbers
<1>4. /\ a \in date .. date + Closing(setting[d]) /\ First(a, date) + Grace(setting[d]) <= b + 1
      /\ Grace(setting[d]) \in 6 .. 28 /\ Closing(setting[d]) \in 6 .. 31
  BY <1>1, <1>2, SetupFacts DEF Reaches, Cycle
<1> QED
  BY <1>1, <1>3, <1>4 DEF First, Lesser, DayNumbers

\* Types of the billing nights.
THEOREM CycleTypeCorrect == CycleSpec => []CycleTypeOK
<1>1. CycleInv => CycleTypeOK
  BY DEF CycleInv, CycleTyped
<1> QED
  BY <1>1, CycleInvHolds, PTL

\* No delivered item falls between the windows of successive nights: one that no later
\* run will find had its cycle changed, or its late mark and the runs that missed it
\* used up the grace of its cycle.
THEOREM LossNeedsSlack == CycleSpec => []LossIsExplained
  BY CycleInvHolds, LossExplained, PTL

\* What is delivered on its date is billed by the run that closes its cycle, unless a
\* run missed it or the cycle changed.
THEOREM BilledWhenCycleCloses == CycleSpec => []BilledByClosing
  BY CycleInvHolds, BilledInTime, PTL
=============================================================================
