CONSTANTS
  r1 = r1
  r2 = r2
  r3 = r3
  r4 = r4
  p = p
  temp = temp
  l1 = l1
  l2 = l2
  s1 = s1
  s2 = s2
  s3 = s3
  none = none
  Request = {r1, r2, r3, r4}
  Password = {p}
  Temp = temp
  Link = {l1, l2}
  Session = {s1, s2, s3}
  None = none
  MaxTimes = 2
SYMMETRY Interchangeable
SPECIFICATION AccountsSpec
INVARIANT SuspendedSessionsAreOld
INVARIANT UnreachableIsExplained
INVARIANT PendingSignsInByReset
INVARIANT LinkTwiceNeedsOverlap
CHECK_DEADLOCK FALSE
