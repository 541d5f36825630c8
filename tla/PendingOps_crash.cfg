\* One write and one deferred tool call the user keeps approving, under three
\* crashes or exceptions and one foreign edit.
SPECIFICATION FairSpec
CONSTANTS
    w1 = w1  w2 = w2  t1 = t1  f1 = f1
    old = old  new1 = new1  new2 = new2
    NoOp = NoOp  NoFile = NoFile  Torn = Torn
    WriteOps <- MCOneWrite
    ToolOps <- MCOneTool
    Files = {f1}
    Contents = {old, new1}
    Target <- MCTarget
    Proposed <- MCProposed
    Tasked = {w1}
    Chunks <- MCChunks
    MaxEdits = 1
    MaxFaults = 3
INVARIANTS SealedAtMostOnce ToolRunsAtMostOnce ResolutionTruthful
PROPERTIES ImplementsGate EventuallyResolved
CHECK_DEADLOCK FALSE
