SPECIFICATION Spec
CONSTANTS
  e1 = e1
  e2 = e2
  l1 = l1
  l2 = l2
  Events = {e1}
  Lodgments = {l1}
  TaxOf <- MCOneTaxOf
  AmountOf <- MCOneAmountOf
  ExpectedOf <- MCOneExpectedOf
  MaxAmount = 2
INVARIANTS LodgmentRemits
