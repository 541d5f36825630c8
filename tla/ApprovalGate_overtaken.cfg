\* A decision told to be delivered that the timer of Python 3.12 on overtakes.
SPECIFICATION Spec
CONSTANTS
    o1 = o1  o2 = o2  r1 = r1  r2 = r2
    Turn = Turn  NoOp = NoOp
    Ops = {o1, o2}
    Requests = {r1, r2}
    TimerWins = TRUE
    MaxFaults = 1
PROPERTIES DeliveredIsHonoured
