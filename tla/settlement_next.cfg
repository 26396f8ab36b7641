SPECIFICATION Spec
CONSTANTS
  p1 = p1
  p2 = p2
  Calls = {p1, p2}
  OrgOf <- MCOrgOf
  PeriodOf <- MCPeriodOf
  Bank = FALSE
  MaxCents = 1
  MaxFaults = 0
INVARIANT PreparePersists
CHECK_DEADLOCK FALSE
