CONSTANTS
  i2 = i2
  i3 = i3
  s1 = s1
  s2 = s2
  c1 = c1
  c2 = c2
  p1 = p1
  p2 = p2
  r1 = r1
  r2 = r2
  r3 = r3
  Item = {i2, i3}
  Sub = {s1, s2}
  Customer = {c1, c2}
  SubOf <- MCSubOf
  CustomerOf <- MCCustomerOf
  Day <- MCDay
  StartDay <- MCStartDay
  Window <- MCWindow
  Charge <- MCCharge
  Pass = {p1, p2}
  Request = {r1, r2, r3}
  Amount = {1}
  ComesDue = {1}
SPECIFICATION FairSpec
CONSTRAINT Bounds
INVARIANT PaidWithinReceived
INVARIANT ColumnsAddUp
INVARIANT RebillNeedsOverlap
INVARIANT MissedDuesAreExplained
PROPERTY VoidUndoneOnlyByStalePayment
PROPERTY LateBillsLeaveOpen
