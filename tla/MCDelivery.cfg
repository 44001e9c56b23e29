CONSTANTS
  m1 = m1
  am = am
  pm = pm
  milk = milk
  Sub = {m1}
  Slot = {am, pm}
  Product = {milk}
  Qty = {1, 2}
  Plan <- PlanOfSlots
  Call = {a, b}
  Handler = {"generate", "journey", "update", "bulk", "away"}
SPECIFICATION Spec
SYMMETRY Calls
CONSTRAINT Bounds
INVARIANT ListIsComplete
INVARIANT QtyLostOnlyByOverlap
INVARIANT AwayDayIsClear
PROPERTY RevertsAreStaleOrAdmin
PROPERTY ReopenedByRelistingOrStaleStart
