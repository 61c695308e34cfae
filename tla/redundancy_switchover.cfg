SPECIFICATION Spec
CONSTANTS
    p = p
    s = s
    Node = {p, s}
    TakeoverAfter = 2
    CommandRoom = 1
    ProbeRoom = 1
    Scenario <- OnlySwitchover
INVARIANT BusHasOwner
