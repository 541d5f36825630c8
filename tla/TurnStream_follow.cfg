\* Two tabs, one lost connection and one restart. MaxRuns never binds: only
\* a lost connection can start a second run of a message.
SPECIFICATION FairSpec
CONSTANTS
    a = a  b = b  p = p  q = q  NoTab = NoTab
    Tabs = {a, b}
    Inputs = {p, q}
    MaxRuns = 3
    MaxMessages = 2
    MaxData = 1
    MaxBlips = 1
    MaxVisits = 2
    MaxRestarts = 1
INVARIANTS FollowsOneRun
PROPERTIES SeesTheEnd
CHECK_DEADLOCK FALSE
