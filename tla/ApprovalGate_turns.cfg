\* Two operations, two requests, one exception; timers of Python 3.12 on.
SPECIFICATION FairSpec
CONSTANTS
    o1 = o1  o2 = o2  r1 = r1  r2 = r2
    Turn = Turn  NoOp = NoOp
    Ops = {o1, o2}
    Requests = {r1, r2}
    TimerWins = TRUE
    MaxFaults = 1
INVARIANTS OneAtATime RecordTellsAll
PROPERTIES EveryoneServed
