CONSTANTS
  u1 = u1
  u2 = u2
  User = {u1, u2}
  NoUser = NoUser
  Nothing = Nothing
  MaxOwn = 1
  MaxOther = 1
  SubscriptionFlow = TRUE
  Billing = TRUE
SPECIFICATION ScreensSpec
SYMMETRY Users
INVARIANT OwnChangesShow
INVARIANT OthersDataIsLeftover
PROPERTY SavesWhatIsShown
PROPERTY TypedTextLossHasACause
CHECK_DEADLOCK FALSE
