CONSTANTS
  KnownDialects = {"anthropic", "openai"}
  Params = {"seed", "thinking"}
  Known = {"seed"}
  Value = "v"
SPECIFICATION DocSpec
INVARIANTS
  WrittenReadsBack
