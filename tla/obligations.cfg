SPECIFICATION Spec
CONSTANTS
  e1 = e1
  e2 = e2
  l1 = l1
  l2 = l2
  Events = {e1, e2}
  Lodgments = {l1, l2}
  TaxOf <- MCTaxOf
  AmountOf <- MCAmountOf
  ExpectedOf <- MCExpectedOf
  MaxAmount = 2
INVARIANTS TypeOK Secured NoShortfall ProcessedIsVerified NotOverRemitted
SYMMETRY Alike
CONSTRAINT AtOnce
