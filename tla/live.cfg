SPECIFICATION MCSpec
CONSTANTS
  e1 = e1
  Events = {e1}
  Lodgments = {l1, l2}
  TaxOf <- MCTaxOf
  AmountOf <- MCAmountOf
  ExpectedOf <- MCExpectedOf
  MaxAmount = 2
  s1 = s1
  s2 = s2
  w1 = w1
  c1 = c1
  c2 = c2
  d1 = d1
  d2 = d2
INVARIANTS LodgmentComplete OwedVerified
PROPERTIES ObligationsVerified ShortfallAlerted RetryReturnsExisting
