\* Two writes against one file and one crash.
SPECIFICATION Spec
CONSTANTS
    w1 = w1  w2 = w2  t1 = t1  f1 = f1
    old = old  new1 = new1  new2 = new2
    NoOp = NoOp  NoFile = NoFile  Torn = Torn
    WriteOps <- MCTwoWrites
    ToolOps = {}
    Files = {f1}
    Contents = {old, new1, new2}
    Target <- MCTarget
    Proposed <- MCProposed
    Tasked = {}
    Chunks <- MCChunks
    MaxEdits = 0
    MaxFaults = 1
PROPERTIES NoLostUpdate
CHECK_DEADLOCK FALSE
