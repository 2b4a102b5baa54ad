\* A budget of two pages in three seconds, with a clock corrected backwards twice.
SPECIFICATION Spec
CONSTANTS
  MaxPagesPerWindow = 2
  PageBudgetWindow = 3
  MaxUp = 8
  MaxStepBacks = 2
INVARIANTS
  TypeOK
  FloodIsBounded
