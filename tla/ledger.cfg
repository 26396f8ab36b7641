SPECIFICATION MCSpec
CONSTANTS
  a1 = a1
  a2 = a2
  a3 = a3
  a4 = a4
  Appends = {a1, a2, a3, a4}
  CategoryOf <- MCCategoryOf
  CentsOf <- MCCentsOf
  MaxClock = 2
  r1 = r1
  r2 = r2
  r3 = r3
  Records = {r1, r2, r3}
  Critical = {r1, r2}
  MaxAuditClock = 2
INVARIANTS TypeOK Untampered TamperLocated Linear TrailSound
PROPERTY ChainGrows
SYMMETRY Alike
CHECK_DEADLOCK FALSE
