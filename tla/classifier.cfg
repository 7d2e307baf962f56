SPECIFICATION FairSpec
CONSTANTS
  Items = {i1, i2}
  Threads = {t1, t2}
  Classifiers = {c1, c2}
  EmbeddingConcurrency = 1
  LlmConcurrency = 1
  MaxAttempts = 2
  MaxWithdrawals = 1
  NoItem = NoItem
  NoSlot = NoSlot
INVARIANTS GatesAccounted ClassifierExclusive CostBounded VerdictJustified RejectionRemembered
PROPERTIES ImplementsFutures ClassificationEnds
CHECK_DEADLOCK FALSE
