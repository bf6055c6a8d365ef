CONSTANTS
  MaxSends = 2
  MaxMessages = 2
  MaxTurns = 2
  MaxCalls = 2
SPECIFICATION FairSpec
INVARIANTS
  QueuedIsKept
  TurnStaysOnItsBranch
  DoneMeansSettled
  CloseWaits
PROPERTY
  SendSettles
