\* Two connections append while one seals batches, to a new chain or to one
\* that has a record from before the index tables.
SPECIFICATION Spec
CONSTANTS
    a = a  b = b  x = x  y = y  NoTarget = NoTarget
    Connections = {a, b}
    Sealers = {a}
    Targets = {x}
    BatchSizes = {1, 3}
    LegacyRows = 1
    MaxIdx = 2
    MaxBatches = 2
    MaxEdits = 0
INVARIANTS ChainVerifies BatchesPartition IndexTellsNew
CHECK_DEADLOCK FALSE
