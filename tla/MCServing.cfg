\* Each end may come to rest.
CONSTANTS
  Clients = {p, q}
  NoClient = none
  MaxIds = 2
  MaxRequests = 3
  MaxRestarts = 1
  Callers = {p, q}
  Keys = {"reasoningEffort", "reasoning_effort"}
  Spelling <- KeySpelling
  Sigs = {"s1"}
  Attempts = 2
  Interval = 2
  MaxTime = 2
  MaxCalls = 2
SPECIFICATION EndsSpec
CHECK_DEADLOCK FALSE
SYMMETRY Symmetry
INVARIANTS
  StoredTurnSurvives
  AnswerFollowsItsTurn
  OutputIsNeverResent
  RefusedStaysOut
  StartsAreApart
