CONSTANTS
  Producers = {p1, p2}
  Run = run
  Free = free
  MaxMessages = 2
  MaxTurns = 2
SPECIFICATION FairSpec
INVARIANTS
  NothingStranded
  ArrivalOrderKept
PROPERTIES
  EveryMessageSettles
  ImplementsMailbox
