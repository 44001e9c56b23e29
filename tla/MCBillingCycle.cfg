CONSTANTS
  d1 = d1
  d2 = d2
  Distributor = {d1, d2}
  Setting <- MCSetting
  Late <- MCLate
  Date = {31, 33}
  Horizon = 61
  FirstDay <- MCFirstDay
  Sunday = 4
SPECIFICATION CycleSpec
CONSTRAINT Bounds
INVARIANT LossIsExplained
INVARIANT BilledByClosing
