SPECIFICATION FairSpec
CONSTANTS
  s1 = s1
  s2 = s2
  s3 = s3
  c1 = c1
  d1 = d1
  w1 = w1
  w2 = w2
  Submissions = {s1, s2, s3}
  Captures = {}
  Debits = {}
  Workers = {w1}
  KeyOf <- MCKeyOf
  AccountOf <- MCAccountOf
  AmountOf <- MCAmountOf
  MaxWrite = 2
  Required <- MCRequired
  Deployments <- AsWritten
  MaxRepeats = 1
  MaxCrashes = 0
PROPERTY AppliedEventually
