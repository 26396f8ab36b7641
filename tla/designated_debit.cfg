SPECIFICATION Spec
CONSTANTS
  s1 = s1
  s2 = s2
  s3 = s3
  c1 = c1
  d1 = d1
  w1 = w1
  w2 = w2
  Submissions = {}
  Captures = {d1}
  Debits = {d1}
  Workers = {}
  KeyOf <- MCNoKeys
  AccountOf <- MCAccountOf
  AmountOf <- MCAmountOf
  MaxWrite = 2
  Required <- MCNothingRequired
  Deployments <- AsWritten
  MaxRepeats = 0
  MaxCrashes = 0
PROPERTY DepositOnly
CHECK_DEADLOCK FALSE
