SPECIFICATION FairSpec
CONSTANTS
    w1 = w1
    w2 = w2
    Producer = {p}
    Worker = {w1, w2}
    Listener = {l}
    Handles <- MCHandles
    Room <- MCRoom
    InboxRoom = 1
    Batch = 1
    Schedule <- MCSchedule
    SleepBudget = 1
INVARIANTS CommandAccounted
PROPERTIES BusServes
