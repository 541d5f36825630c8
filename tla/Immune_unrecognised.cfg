\* A rollback of an attack whose reply breached the covenant.
SPECIFICATION Spec
CONSTANTS
    Texts <- MCTwoTexts
    Breaches <- MCBreaches
    VectorSize = 4
    Absent = Absent
    Torn = Torn
    MaxRings = 2
    MaxFaults = 0
INVARIANTS AttackRecognised
CHECK_DEADLOCK FALSE
