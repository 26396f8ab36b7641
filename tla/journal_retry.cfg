SPECIFICATION FairSpec
CONSTANTS
  Calls = {c1, c2}
  DedupeIds = {d1, d2}
  PostingLists <- MCPostingLists
  ErrorAborts = TRUE
PROPERTY RetryReturnsExisting
