\* A proposal is accepted and its pattern goes on.
SPECIFICATION Spec
CONSTANTS
    Findings <- MCTwins
    Modes <- MCModes
    OddModes <- MCModes
    Torn = Torn
    Repeat = 1
    EscalateAt = 3
    GraduateAt = 3
    Lookback = 9
    MaxEvidence = 1
    MaxScans = 3
    MaxFull = 0
    MaxDecisions = 1
    MaxFaults = 0
PROPERTIES DecisionIsFinal
CHECK_DEADLOCK FALSE
