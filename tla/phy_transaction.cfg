SPECIFICATION Spec
CONSTANTS
    MaxExchanges = 1
    RunLength = 2
    EventRoom = 7
INVARIANT
    AllOrNothing
