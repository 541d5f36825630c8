\* One tab, one message, one lost connection.
SPECIFICATION Spec
CONSTANTS
    a = a  b = b  p = p  q = q  NoTab = NoTab
    Tabs = {a}
    Inputs = {p}
    MaxRuns = 2
    MaxMessages = 1
    MaxData = 1
    MaxBlips = 1
    MaxVisits = 1
    MaxRestarts = 0
INVARIANTS MessageRunsOnce
CHECK_DEADLOCK FALSE
