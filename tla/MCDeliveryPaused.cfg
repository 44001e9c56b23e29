CONSTANTS
  m1 = m1
  am = am
  pm = pm
  milk = milk
  Sub = {m1}
  Slot = {am}
  Product = {milk}
  Qty = {1, 2}
  Plan <- PlanOfQty
  Call = {a}
  Handler = {"generate"}
SPECIFICATION Spec
INVARIANT ListMatches
