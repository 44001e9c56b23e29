CONSTANTS
  e1 = e1
  e2 = e2
  a = a
  b = b
  Event = {e1, e2}
  Mine = {e1, e2}
  Call = {a, b}
  MaxMark = 1
  MaxDrop = 1
SPECIFICATION FairSpec
CONSTRAINT Bounds
INVARIANT EveryoneIsTold
INVARIANT StaleBadgeIsExplained
INVARIANT ToastTwiceOnlyIfDisorder
PROPERTY UnreadRowsPassWithAToast
PROPERTY PollsCatchUp
