SPECIFICATION MCSpec
CONSTANTS
  Calls = {c1, c2, c3}
  DedupeIds = {d1, d2}
  PostingLists <- MCPostingLists
  ErrorAborts = TRUE
  j1 = j1
  j2 = j2
  j3 = j3
  m1 = m1
  m2 = m2
  m3 = m3
  p1 = p1
  p2 = p2
  Jobs = {j1, j2, j3}
  Limits = {1, 2}
  Stuck = {j1}
  MaxCrashes = 1
  Msgs = {m1, m2, m3}
  Poison = {m1}
  Members = {p1, p2}
  MaxBusFaults = 2
  Targets <- MCTargets
  Versions = {"a", "b"}
  Dead = {"dead"}
  Attempts = 2
  MaxEdits = 2
  MaxTroubles = 2
INVARIANTS TypeOK ChainIntact OncePerDedupe AnswersTruthful SlotsSound DeliverySound LogSound
PROPERTIES ImplementsLog JournalAnswers JobsEnd HandledEventually CatchesUp
CHECK_DEADLOCK FALSE
