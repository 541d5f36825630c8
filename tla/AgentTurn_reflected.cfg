\* A refused turn is reflected on.
SPECIFICATION Spec
CONSTANTS
  a1 = a1  a2 = a2  p1 = p1  p2 = p2
  Uploads = {}
  Prompts = {p1}
  InitialChains <- NewAndReflected
  Fronts = {"repl"}
  Scored <- MCCommitted
  EnforceVerdict = FALSE
  SemanticK = 0  RecentN = 0  ContextBudget = 2
  MaxRounds = 1  MaxReflect = 3  MinSubstantive = 1
  MaxRecords = 5  MaxFaults = 0  MaxOther = 0  MaxNamed = 0  MaxPulls = 0
INVARIANTS HostileOffEveryPrompt
CHECK_DEADLOCK FALSE
