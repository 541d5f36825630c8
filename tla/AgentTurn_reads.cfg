SPECIFICATION Spec
CONSTANTS
  a1 = a1  a2 = a2  p1 = p1  p2 = p2
  Uploads = {}
  Prompts = {p1}
  InitialChains <- OldAndNew
  Fronts = {"repl", "web"}
  Scored <- MCScored
  EnforceVerdict = TRUE
  SemanticK = 1  RecentN = 1  ContextBudget = 2
  MaxRounds = 1  MaxReflect = 3  MinSubstantive = 2
  MaxRecords = 5  MaxFaults = 1  MaxOther = 0  MaxNamed = 1  MaxPulls = 2
INVARIANTS QuarantineHolds CorrectionsComeAlong CutIsGreedy GatesAgree OnlyWhatWasShared
PROPERTY RefsTellAll
CHECK_DEADLOCK FALSE
