\* One connection, and one edit of the chain behind its back.
SPECIFICATION Spec
CONSTANTS
    a = a  b = b  x = x  y = y  NoTarget = NoTarget
    Connections = {a}
    Sealers = {}
    Targets = {x}
    BatchSizes = {2}
    LegacyRows = 0
    MaxIdx = 3
    MaxBatches = 0
    MaxEdits = 1
INVARIANTS EditsAreDetected QuorumPinsHistory
CHECK_DEADLOCK FALSE
