CONSTANTS
  MaxSends = 2
  MaxMessages = 2
  MaxTurns = 2
  MaxCalls = 2
SPECIFICATION FairSpec
INVARIANT
  AcceptedIsNeverLost
