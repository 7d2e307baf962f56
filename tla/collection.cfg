SPECIFICATION Spec
CONSTANTS
  t1 = t1
  t2 = t2
  t3 = t3
  r1 = r1
  r2 = r2
  r3 = r3
  None = None
  Tops = {t1, t2, t3}
  Replies = {r1, r2, r3}
  Of <- MCOf
  Early = {t1, t2, r1, r2}
  MaxShown = 1
  MaxChanges = 2
  MaxAttempts = 2
  Item <- MCItem
  MaxItems = 3
  MaxChars = 5
  MaxSeconds = 4
INVARIANTS
  SucceededIsComplete
  RepliesLinked
  EachCaptionOnce
  CutForAReason
PROPERTY RowsStay
CHECK_DEADLOCK FALSE
