\* Scans, an operator and a fault.
SPECIFICATION Spec
CONSTANTS
    Findings <- MCFindings
    Modes <- MCModes
    OddModes <- MCModes
    Torn = Torn
    Repeat = 1
    EscalateAt = 2
    GraduateAt = 2
    Lookback = 4
    MaxEvidence = 2
    MaxScans = 2
    MaxFull = 1
    MaxDecisions = 2
    MaxFaults = 1
INVARIANTS NoDuplicate EscalatedOnce EscalationNotMissed AcceptedOnce
CHECK_DEADLOCK FALSE
