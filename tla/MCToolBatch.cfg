CONSTANTS
  N = 3
  Byte <- HookBytes
  Decodes <- JsonDecodes
  Decoded <- JsonDecoded
  TurnCalls = {"first", "second"}
  Turns <- HookTurns
  MaxRetries = 1
SPECIFICATION TurnSpec
INVARIANTS
  MutatingIsBarrier
  NoneOutlivesBatch
  RefusalIsTheAnswer
PROPERTY
  BatchEnds
