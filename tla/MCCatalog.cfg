CONSTANTS
  milk = milk
  ghee = ghee
  Product = {milk, ghee}
  Distributor = {d1, d2}
  Call = {a, b}
  MaxPrices = 2
  MaxSubs = 1
SPECIFICATION Spec
CONSTRAINT Bounds
SYMMETRY DistributorsAndCalls
INVARIANT GoneProductIsExplained
INVARIANT DuplicatePriceIsExplained
