SPECIFICATION MCSpec
CONSTANTS
  n1 = n1
  n2 = n2
  n3 = n3
  t1 = t1
  t2 = t2
  t3 = t3
  Lines = {n1, n2, n3}
  Sends = {t1, t2, t3}
  KeyOf <- MCKeyOf
  BodyOf <- MCBodyOf
  WrongCode = {t3}
  MaxClock = 1
  f1 = f1
  f2 = f2
  f3 = f3
  f4 = f4
  Finalisations = {f1, f2, f3, f4}
  FinaliseKeyOf <- MCFinaliseKeyOf
  FinaliseBodyOf <- MCFinaliseBodyOf
  TTL = 1
  FinaliseMaxClock = 2
  MaxLives = 1
  p1 = p1
  p2 = p2
  Preparations = {p1, p2}
  OrgOf <- MCOrgOf
  PeriodOf <- MCPeriodOf
  Bank = TRUE
  MaxCents = 1
  MaxFaults = 1
  Brackets <- MCBrackets
  Pays <- MCPays
  Sales <- MCSales
  RateMilli = 100
  PeriodEnds <- MCPeriodEnds
  Rules <- MCRules
  Holidays = {19810, 19811, 19814}
INVARIANTS RequestsSound SentAccounted FinaliseSound  RulesMatchReference
PROPERTIES ImplementsOncePerKey FinaliseOncePerKey
SYMMETRY Alike
CHECK_DEADLOCK FALSE
