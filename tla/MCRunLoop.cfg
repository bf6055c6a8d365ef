CONSTANTS
  MaxTurns = 4
  StuckNudgeAt = 2
  StuckFailAt = 3
  b1 = b1
  b2 = b2
  Batches = {b1, b2}
  NoBatch = NoBatch
SPECIFICATION FairSpec
INVARIANTS
  NothingUnanswered
  RowsSettled
  StuckIsCaught
PROPERTY
  RunEnds
