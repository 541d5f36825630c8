SPECIFICATION FairSpec
CONSTANTS
  a1 = a1  a2 = a2  p1 = p1  p2 = p2
  Uploads = {a1}
  Prompts = {p1, p2}
  InitialChains <- NewAndReflected
  Fronts = {"repl", "web"}
  Scored <- MCCommitted
  EnforceVerdict = TRUE
  SemanticK = 0  RecentN = 0  ContextBudget = 2
  MaxRounds = 1  MaxReflect = 2  MinSubstantive = 1
  MaxRecords = 6  MaxFaults = 1  MaxOther = 1  MaxNamed = 0  MaxPulls = 0
INVARIANTS AttachmentSealedOnce ReflectionsCoverAll SemanticallySound
PROPERTIES AttachmentsKept EveryTurnEnds
CHECK_DEADLOCK FALSE
