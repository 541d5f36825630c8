\* Two connections that append, with revisions on the chain.
SPECIFICATION Spec
CONSTANTS
    a = a  b = b  x = x  y = y  NoTarget = NoTarget
    Connections = {a, b}
    Sealers = {}
    Targets = {x}
    BatchSizes = {2}
    LegacyRows = 0
    MaxIdx = 3
    MaxBatches = 0
    MaxEdits = 0
INVARIANTS NeverWedged
CHECK_DEADLOCK FALSE
