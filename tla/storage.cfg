SPECIFICATION MCSpec
CONSTANTS
    None = None
    Value = {u, v}
    Writers = {w1, w2}
    MaxSeq = 3
    MaxFlashFaults = 2
    ReadsMayFail = FALSE
    Installed <- MCInstalled
    Imports <- MCImports
    FailingReads = {"groups", "bank0", "old", "lamps"}
    MaxFaults = 2
    MaxEdits = 1
    MaxImports = 1
    InputDevices = {1, 2, 3}
    InputBanks = {0, 1}
    PerBank = 1
    MaxVersion = 5
    MaxBankFaults = 3
INVARIANTS  MemoryAccounted InputsKept
PROPERTIES  NoBlindWrite ReloadTold Saved
CHECK_DEADLOCK FALSE
