SPECIFICATION MCSpec
SYMMETRY Symmetry
CONSTANTS
  s1 = s1
  s2 = s2
  s3 = s3
  c1 = c1
  d1 = d1
  w1 = w1
  w2 = w2
  Submissions = {s1, s2, s3}
  Captures = {c1, d1}
  Debits = {d1}
  Workers = {w1, w2}
  KeyOf <- MCKeyOf
  AccountOf <- MCAccountOf
  AmountOf <- MCAmountOf
  MaxWrite = 2
  Required <- MCRequired
  Deployments <- MCDeployments
  MaxRepeats = 3
  MaxCrashes = 1
INVARIANTS TypeOK OneRowPerKey TransferredOnce BalanceIsTransfers CertifiedCovered
