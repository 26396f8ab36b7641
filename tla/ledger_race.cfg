SPECIFICATION Spec
CONSTANTS
  a1 = a1
  a2 = a2
  a3 = a3
  a4 = a4
  Appends = {a1, a2, a3, a4}
  CategoryOf <- MCCategoryOf
  CentsOf <- MCCentsOf
  MaxClock = 2
INVARIANTS UntamperedPasses
CHECK_DEADLOCK FALSE
