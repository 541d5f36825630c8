\* A chain with records from before the index tables.
SPECIFICATION Spec
CONSTANTS
    a = a  b = b  x = x  y = y  NoTarget = NoTarget
    Connections = {a}
    Sealers = {}
    Targets = {x, y}
    BatchSizes = {2}
    LegacyRows = 1
    MaxIdx = 2
    MaxBatches = 0
    MaxEdits = 0
INVARIANTS IndexMatchesScan
CHECK_DEADLOCK FALSE
