CONSTANTS
  a1 = a1
  a2 = a2
  Agents = {a1, a2}
  CallIDs = {a1, a2}
  CallID <- OwnID
  NoAgent = none
  Slots = 1
  MaxTurns = 3
  MaxSends = 2
SPECIFICATION FairSpec
INVARIANTS
  EachLaunchReportsOnce
PROPERTIES
  EveryLaunchEnds
  WaitIsKept
