SPECIFICATION MCSpec
CONSTANTS
    Item = {a, b}
    Uninit = Uninit
    CAP = 4
    Value = {v1, v2}
    None = None
    RingRoom = 1
    GenModulus = 4
    EpochModulus = 4
    MaxCaptures = 4
    MaxForwards = 4
    MaxExchanges = 3
    RunLength = 2
    EventRoom = 7
INVARIANTS  TaskIsTold CancelIsClean
PROPERTIES IsFifo CancelErasesOnlyItsOwn
