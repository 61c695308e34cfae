CONSTANTS
    Clients = {a, b}
    Capacity = 1
    GenMod = 4
    MaxBatch = 1
    MaxId = 2
    InboxCap = 1
SPECIFICATION Spec
PROPERTIES TimeoutMeansNoConfirmation
