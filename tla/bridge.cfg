CONSTANTS
    Clients = {a, b}
    Capacity = 2
    GenMod = 3
    MaxBatch = 2
    MaxId = 3
    InboxCap = 1
SPECIFICATION FairSpec
INVARIANTS SlotsOwned
PROPERTIES AnswersAreTrue EveryRequestAnswered
