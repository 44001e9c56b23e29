CONSTANTS
  Call = {a, b}
  ApprovalEnabled = TRUE
  MaxSubs = 2
  MaxEnds = 3
  MaxBills = 1
SPECIFICATION Spec
SYMMETRY Calls
CONSTRAINT Bounds
INVARIANT CancelledIsAgreed
INVARIANT DuplicateNeedsRaceOrRevival
INVARIANT RequestsMatchStatus
PROPERTY EndsByAgreement
