\* Two texts, rollbacks to any height, two crashes.
SPECIFICATION Spec
CONSTANTS
    Texts <- MCTwoTexts
    Breaches <- MCBreaches
    VectorSize = 2
    Absent = Absent
    Torn = Torn
    MaxRings = 4
    MaxFaults = 2
INVARIANTS SidecarBacked SidecarComplete
PROPERTIES LiftedOnlyRecovered NoBreachLeft
CHECK_DEADLOCK FALSE
